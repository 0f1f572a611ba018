-------------------------- MODULE HostPartsProofs -------------------------
(*************************************************************************)
(* Proofs about the parts of the panel whose jobs and requests change    *)
(* the host itself: its swap, the databases of MariaDB, the firewall,    *)
(* nginx's access to the sites, fail2ban, the files sent in chunks, the  *)
(* web terminals and the file manager.                                   *)
(*************************************************************************)
EXTENDS SwapFile, Databases, Firewall, WebAccess, Fail2ban, ChunkedUpload, TerminalSession,
        FileTree, TLAPS, WellFoundedInduction

(*************************************************************************)
(* SwapFile, for any sizes, disk and headroom: what a job leaves once it *)
(* is done, what no failure can leave, and the room that is kept.        *)
(*************************************************************************)

SwStepIn(steps) == swJob # NoSwapJob /\ swJob.step \in steps

\* What the steps of a job have made of the file.  The new file replaces one
\* nobody swaps to.
SwPlaced ==
    /\ SwStepIn({"unlink", "allocate", "write", "mkswap", "swapon"}) => swActive = NoSwap
    /\ SwStepIn({"allocate", "write", "mkswap", "swapon"}) => swJob.size # NoSwap
    /\ SwStepIn({"allocate", "write"}) => swFile = NoSwap
    /\ SwStepIn({"mkswap", "swapon"}) => swFile = swJob.size
    /\ SwStepIn({"swapon"}) => swReady

SwMade(size) ==
    /\ swActive = swFile
    /\ IF size = NoSwap THEN swFile = NoSwap ELSE swFile \in {size, size + 1}

\* Before its last step a job has made what it was asked for, in all but
\* /etc/fstab.
SwNearlyDone == SwStepIn({"fstab"}) => SwMade(swJob.size)

\* The room seen at the check is there until another takes it.
SwRoomSeen ==
    SwStepIn({"off", "unlink", "allocate", "write", "mkswap"}) /\ swJob.size # NoSwap /\ ~swJob.blind
    => SwapDisk - swOther >= swJob.size + SwHeadroom

\* What the last job made stays until the next has passed its checks: one that
\* is refused changes nothing.
SwSteady ==
    (swJob = NoSwapJob \/ SwStepIn({"check"})) /\ ~swBroken =>
        SwMade(swAsked) /\ (swFstab <=> swAsked # NoSwap)

SwInv == /\ SwTypeOK /\ ActiveFileIsWhole
         /\ SwPlaced /\ SwNearlyDone /\ SwRoomSeen /\ SwSteady

-----------------------------------------------------------------------------
\* No job is a job of no step.
LEMMA JobsAreJobs ==
    /\ NoSwapJob \notin SwapJob
    /\ \A job \in SwapJob : /\ job.step \in SwapSteps /\ job.blind \in BOOLEAN
                            /\ job.size \in Nat
                            /\ job.size # NoSwap => job.size >= 1
<1>1. NoSwapJob.step \notin SwapSteps
  BY DEF NoSwapJob, SwapSteps
<1>2. \A job \in SwapJob : job.step \in SwapSteps /\ job.blind \in BOOLEAN
  BY DEF SwapJob
<1>3. \A job \in SwapJob : job.size \in SwapSizes \cup {NoSwap}
  BY DEF SwapJob
<1>4. \A size \in SwapSizes \cup {NoSwap} : size \in Nat /\ (size # NoSwap => size >= 1)
  BY SwapFileAssumption DEF SwapFileAssumption, NoSwap
<1>. QED
  BY <1>1, <1>2, <1>3, <1>4

\* The types of a job's parts, and of one that goes on.
LEMMA SwJobGoesOn ==
    ASSUME SwTypeOK, swJob # NoSwapJob, NEW step \in SwapSteps
    PROVE  LET next == [swJob EXCEPT !.step = step] IN
           /\ next \in SwapJob /\ next # NoSwapJob
           /\ next.step = step /\ next.size = swJob.size /\ next.blind = swJob.blind
  BY JobsAreJobs DEF SwTypeOK, SwapJob

LEMMA SwInitial ==
    SwInit => SwInv
<1>. SUFFICES ASSUME SwInit PROVE SwInv
  OBVIOUS
<1>1. SwTypeOK
  <2>1. SwFreeDisk = SwapDisk
    BY SwapFileAssumption DEF SwInit, NoSwap, SwFreeDisk, SwapFileAssumption
  <2>2. swReady \in BOOLEAN /\ swFstab \in BOOLEAN /\ swBroken \in BOOLEAN
    BY DEF SwInit
  <2>3. swFile = 0 /\ swActive = 0 /\ swAsked = 0 /\ swOther = 0 /\ swJob = NoSwapJob
    BY DEF SwInit, NoSwap
  <2>. QED
    BY <2>1, <2>2, <2>3, SwapFileAssumption DEF SwTypeOK, SwapFileAssumption
<1>. QED
  BY <1>1 DEF SwInit, SwInv, ActiveFileIsWhole, SwPlaced, SwNearlyDone, SwRoomSeen, SwSteady, SwMade,
              SwStepIn, NoSwap

\* A job that has ended leaves what is to be said of jobs to the next; if it
\* broke, nothing is said until then.
LEMMA SwFailureKeeps ==
    ASSUME SwInv, SwTypeOK', ActiveFileIsWhole', SwapFails
    PROVE  SwInv'
  BY DEF SwInv, SwapFails, SwPlaced, SwNearlyDone, SwRoomSeen, SwSteady, SwStepIn

LEMMA SwDoneKeeps ==
    ASSUME SwInv, SwTypeOK', ActiveFileIsWhole', SwapDone,
           SwMade(swAsked)', swFstab' <=> swAsked' # NoSwap
    PROVE  SwInv'
  BY DEF SwInv, SwapDone, SwPlaced, SwNearlyDone, SwRoomSeen, SwSteady, SwStepIn

-----------------------------------------------------------------------------
(* The steps *)

LEMMA SwStartKeeps ==
    ASSUME SwInv, StartSwapJob
    PROVE  SwInv'
<1>1. PICK size \in SwapSizes \cup {NoSwap} :
          swJob' = [step |-> "check", size |-> size, blind |-> FALSE]
  BY DEF StartSwapJob
<1>2. swJob' \in SwapJob /\ swJob' # NoSwapJob /\ swJob'.step = "check"
  <2>1. swJob' \in SwapJob /\ swJob'.step = "check"
    BY <1>1 DEF SwapJob, SwapSteps
  <2>. QED
    BY <2>1, JobsAreJobs
<1>3. SwTypeOK'
  BY <1>2 DEF SwInv, SwTypeOK, StartSwapJob, SwGoes, SwFreeDisk
<1>. QED
  BY <1>2, <1>3
  DEF SwInv, StartSwapJob, SwGoes, ActiveFileIsWhole, SwPlaced, SwNearlyDone, SwRoomSeen, SwSteady,
      SwMade, SwStepIn

LEMMA CheckSizeKeeps ==
    ASSUME SwInv, CheckSize
    PROVE  SwInv'
<1>. /\ swJob \in SwapJob /\ swJob # NoSwapJob /\ swJob.step = "check" /\ swJob.size # NoSwap
     /\ UNCHANGED <<swFile, swReady, swActive, swFstab, swOther, swBroken, swAsked>>
  BY DEF SwInv, SwTypeOK, CheckSize, SwAt, SwGoes
<1>1. CASE swJob' = NoSwapJob
  BY <1>1 DEF SwInv, SwTypeOK, SwFreeDisk, ActiveFileIsWhole, SwPlaced, SwNearlyDone, SwRoomSeen,
              SwSteady, SwMade, SwStepIn
<1>2. CASE swJob' # NoSwapJob
  <2>1. /\ SwFits(swJob.size)
        /\ swJob' = [swJob EXCEPT
                !.step = IF SwReported = swJob.size THEN "fstab"
                         ELSE IF swActive # NoSwap THEN "off" ELSE "unlink",
                !.blind = (SwFreeDisk = 0)]
    BY <1>2 DEF CheckSize
  <2>2. /\ swJob' \in SwapJob /\ swJob'.size = swJob.size /\ (swJob'.blind <=> SwFreeDisk = 0)
        /\ swJob'.step = IF SwReported = swJob.size THEN "fstab"
                         ELSE IF swActive # NoSwap THEN "off" ELSE "unlink"
    BY <2>1 DEF SwapJob, SwapSteps
  <2>3. SwTypeOK'
    BY <2>2 DEF SwInv, SwTypeOK, SwFreeDisk
  <2>4. SwPlaced' /\ ActiveFileIsWhole' /\ SwSteady'
    BY <1>2, <2>2 DEF SwInv, SwPlaced, ActiveFileIsWhole, SwSteady, SwStepIn
  <2>5. SwNearlyDone'
    <3>. SUFFICES ASSUME SwReported = swJob.size PROVE SwMade(swJob.size)
      BY <2>2 DEF SwNearlyDone, SwStepIn, SwMade
    <3>1. swActive = swJob.size + 1 /\ swActive # NoSwap
      BY JobsAreJobs DEF SwReported, SwInv, SwTypeOK, NoSwap
    <3>. QED
      BY <3>1 DEF SwInv, ActiveFileIsWhole, SwMade
  <2>6. SwRoomSeen'
    <3>. SUFFICES ASSUME SwFreeDisk # 0 PROVE SwapDisk - swOther >= swJob.size + SwHeadroom
      BY <2>2 DEF SwRoomSeen, SwStepIn
    <3>1. SwapDisk - swOther - swFile >= swJob.size + SwHeadroom - swFile
      BY <2>1 DEF SwFits, SwNeeded, SwFreeDisk
    <3>. QED
      BY <3>1, JobsAreJobs, SwapFileAssumption DEF SwapFileAssumption, SwInv, SwTypeOK
  <2>. QED
    BY <2>3, <2>4, <2>5, <2>6 DEF SwInv
<1>. QED
  BY <1>1, <1>2

LEMMA CheckRemoveKeeps ==
    ASSUME SwInv, CheckRemove
    PROVE  SwInv'
<1>. /\ swJob \in SwapJob /\ swJob # NoSwapJob /\ swJob.step = "check" /\ swJob.size = NoSwap
     /\ UNCHANGED <<swFile, swReady, swActive, swFstab, swOther>>
  BY DEF SwInv, SwTypeOK, CheckRemove, SwAt
<1>1. CASE swActive = NoSwap /\ swFile = NoSwap /\ ~swFstab
  <2>1. SwapDone
    BY <1>1 DEF CheckRemove
  <2>2. SwTypeOK' /\ ActiveFileIsWhole'
    <3>1. swBroken' \in BOOLEAN /\ swAsked' = 0 /\ swJob' = NoSwapJob
      BY <2>1 DEF SwapDone, NoSwap
    <3>. QED
      BY <3>1 DEF SwInv, SwTypeOK, SwFreeDisk, ActiveFileIsWhole
  <2>. QED
    BY <1>1, <2>1, <2>2, SwDoneKeeps DEF SwapDone, SwMade
<1>2. CASE ~(swActive = NoSwap /\ swFile = NoSwap /\ ~swFstab)
  <2>. DEFINE step == IF swActive # NoSwap THEN "off" ELSE "unlink"
  <2>1. swJob' = [swJob EXCEPT !.step = step] /\ SwGoes
    BY <1>2 DEF CheckRemove, SwGoTo
  <2>2. /\ swJob' \in SwapJob /\ swJob' # NoSwapJob
        /\ swJob'.step = step /\ swJob'.size = NoSwap
    BY <2>1, SwJobGoesOn DEF SwInv, SwapSteps
  <2>3. SwTypeOK'
    BY <2>1, <2>2 DEF SwInv, SwTypeOK, SwFreeDisk, SwGoes
  <2>. QED
    BY <2>1, <2>2, <2>3
    DEF SwInv, SwGoes, ActiveFileIsWhole, SwPlaced, SwNearlyDone, SwRoomSeen, SwSteady, SwStepIn
<1>. QED
  BY <1>1, <1>2

LEMMA OffKeeps ==
    ASSUME SwInv, SwapOff
    PROVE  SwInv'
<1>1. /\ swJob' \in SwapJob /\ swJob' # NoSwapJob /\ swJob'.step = "unlink"
      /\ swJob'.size = swJob.size /\ swJob'.blind = swJob.blind
  BY SwJobGoesOn DEF SwInv, SwapOff, SwAt, SwGoTo, SwapSteps
<1>2. SwTypeOK'
  BY <1>1 DEF SwInv, SwTypeOK, SwFreeDisk, SwapOff, SwGoes, NoSwap
<1>. QED
  BY <1>1, <1>2
  DEF SwInv, SwapOff, SwAt, SwGoes, ActiveFileIsWhole, SwPlaced, SwNearlyDone, SwRoomSeen, SwSteady,
      SwStepIn

LEMMA UnlinkKeeps ==
    ASSUME SwInv, UnlinkSwap
    PROVE  SwInv'
<1>. DEFINE step == IF swJob.size = NoSwap THEN "fstab" ELSE "allocate"
<1>1. /\ swJob' \in SwapJob /\ swJob' # NoSwapJob /\ swJob'.step = step
      /\ swJob'.size = swJob.size /\ swJob'.blind = swJob.blind
  BY SwJobGoesOn DEF SwInv, UnlinkSwap, SwAt, SwGoTo, SwapSteps
<1>2. swActive = NoSwap /\ swActive' = NoSwap /\ swFile' = NoSwap
  BY DEF SwInv, SwPlaced, SwStepIn, UnlinkSwap, SwAt
<1>3. SwTypeOK'
  <2>1. swReady' \in BOOLEAN /\ UNCHANGED <<swFstab, swOther, swBroken, swAsked>>
    BY DEF UnlinkSwap, SwGoes
  <2>. QED
    BY <1>1, <1>2, <2>1, SwapFileAssumption
    DEF SwInv, SwTypeOK, SwFreeDisk, NoSwap, SwapFileAssumption
<1>. QED
  BY <1>1, <1>2, <1>3
  DEF SwInv, UnlinkSwap, SwAt, SwGoes, ActiveFileIsWhole, SwPlaced, SwNearlyDone, SwRoomSeen, SwSteady,
      SwMade, SwStepIn

\* fallocate, or dd to its end.
LEMMA AllocateKeeps ==
    ASSUME SwInv, AllocateSwap
    PROVE  SwInv'
<1>1. PICK step \in {"mkswap", "write"} :
        /\ SwGoTo(step)
        /\ step = "mkswap" => swJob.size <= SwapDisk - swOther /\ swFile' = swJob.size
        /\ step = "write" => swFile' = NoSwap
  BY DEF AllocateSwap
<1>2. /\ swJob' \in SwapJob /\ swJob' # NoSwapJob /\ swJob'.step = step
      /\ swJob'.size = swJob.size /\ swJob'.blind = swJob.blind
  BY <1>1, SwJobGoesOn DEF SwInv, AllocateSwap, SwAt, SwGoTo, SwapSteps
<1>3. /\ swJob.step = "allocate" /\ swActive = NoSwap /\ swFile = NoSwap /\ swJob.size # NoSwap
      /\ UNCHANGED <<swReady, swActive, swFstab, swOther, swBroken, swAsked>>
  BY DEF SwInv, SwPlaced, SwStepIn, AllocateSwap, SwAt, SwGoes
<1>4. swJob.size \in Nat
  BY JobsAreJobs DEF SwInv, SwTypeOK, AllocateSwap, SwAt
<1>5. SwTypeOK'
  BY <1>1, <1>2, <1>3, <1>4, SwapFileAssumption
  DEF SwInv, SwTypeOK, SwFreeDisk, NoSwap, SwapFileAssumption
<1>. QED
  BY <1>1, <1>2, <1>3, <1>5
  DEF SwInv, AllocateSwap, SwAt, ActiveFileIsWhole, SwPlaced, SwNearlyDone, SwRoomSeen, SwSteady, SwStepIn

LEMMA SwWriteKeeps ==
    ASSUME SwInv, WriteZeros
    PROVE  SwInv'
<1>. /\ swJob # NoSwapJob /\ swJob.step = "write" /\ swActive = NoSwap /\ swJob.size # NoSwap
     /\ UNCHANGED <<swReady, swActive, swFstab, swOther>>
  BY DEF SwInv, SwPlaced, SwStepIn, WriteZeros, SwAt
<1>1. swJob.size \in Nat
  BY JobsAreJobs DEF SwInv, SwTypeOK
<1>2. CASE swJob.size <= SwapDisk - swOther /\ swFile' = swJob.size /\ SwGoTo("mkswap") /\ SwGoes
  <2>1. /\ swJob' \in SwapJob /\ swJob' # NoSwapJob /\ swJob'.step = "mkswap"
        /\ swJob'.size = swJob.size /\ swJob'.blind = swJob.blind
    BY <1>2, SwJobGoesOn DEF SwInv, SwGoTo, SwapSteps
  <2>2. SwTypeOK'
    BY <1>1, <1>2, <2>1, SwapFileAssumption
    DEF SwInv, SwTypeOK, SwFreeDisk, SwGoes, SwapFileAssumption
  <2>. QED
    BY <1>2, <2>1, <2>2
    DEF SwInv, SwGoes, ActiveFileIsWhole, SwPlaced, SwNearlyDone, SwRoomSeen, SwSteady, SwStepIn
<1>3. ASSUME NEW part \in 0..swJob.size, part <= SwapDisk - swOther, swFile' = part, SwapFails
      PROVE  SwInv'
  <2>1. SwTypeOK'
    BY <1>1, <1>3, SwapFileAssumption
    DEF SwInv, SwTypeOK, SwFreeDisk, SwapFails, SwapFileAssumption
  <2>. QED
    BY <1>3, <2>1, SwFailureKeeps DEF ActiveFileIsWhole
<1>. QED
  BY <1>2, <1>3 DEF WriteZeros

LEMMA MakeKeeps ==
    ASSUME SwInv, MakeSwap
    PROVE  SwInv'
<1>. /\ swJob # NoSwapJob /\ swJob.step = "mkswap" /\ swActive = NoSwap
     /\ UNCHANGED <<swFile, swActive, swFstab, swOther>>
  BY DEF SwInv, SwPlaced, SwStepIn, MakeSwap, SwAt
<1>1. CASE swReady' = TRUE /\ SwGoTo("swapon") /\ SwGoes
  <2>1. /\ swJob' \in SwapJob /\ swJob' # NoSwapJob /\ swJob'.step = "swapon"
        /\ swJob'.size = swJob.size /\ swJob'.blind = swJob.blind
    BY <1>1, SwJobGoesOn DEF SwInv, SwGoTo, SwapSteps
  <2>2. SwTypeOK'
    BY <1>1, <2>1 DEF SwInv, SwTypeOK, SwFreeDisk, SwGoes
  <2>. QED
    BY <1>1, <2>1, <2>2
    DEF SwInv, SwGoes, ActiveFileIsWhole, SwPlaced, SwNearlyDone, SwRoomSeen, SwSteady, SwStepIn
<1>2. CASE swReady' = FALSE /\ SwapFails
  <2>1. SwTypeOK'
    BY <1>2 DEF SwInv, SwTypeOK, SwFreeDisk, SwapFails
  <2>. QED
    BY <1>2, <2>1, SwFailureKeeps DEF ActiveFileIsWhole
<1>. QED
  BY <1>1, <1>2 DEF MakeSwap

LEMMA OnKeeps ==
    ASSUME SwInv, SwapOn
    PROVE  SwInv'
<1>. /\ swJob # NoSwapJob /\ swJob.step = "swapon" /\ swReady /\ swFile = swJob.size
     /\ swJob.size # NoSwap
     /\ UNCHANGED <<swFile, swReady, swFstab, swOther>>
  BY DEF SwInv, SwPlaced, SwStepIn, SwapOn, SwAt
<1>1. CASE swActive' = swFile /\ SwGoTo("fstab") /\ SwGoes
  <2>1. /\ swJob' \in SwapJob /\ swJob' # NoSwapJob /\ swJob'.step = "fstab"
        /\ swJob'.size = swJob.size /\ swJob'.blind = swJob.blind
    BY <1>1, SwJobGoesOn DEF SwInv, SwGoTo, SwapSteps
  <2>2. SwTypeOK'
    BY <1>1, <2>1 DEF SwInv, SwTypeOK, SwFreeDisk, SwGoes
  <2>. QED
    BY <1>1, <2>1, <2>2
    DEF SwInv, SwGoes, ActiveFileIsWhole, SwPlaced, SwNearlyDone, SwRoomSeen, SwSteady, SwMade, SwStepIn
<1>2. CASE UNCHANGED swActive /\ SwapFails
  <2>1. SwTypeOK' /\ ActiveFileIsWhole'
    BY <1>2 DEF SwInv, SwTypeOK, SwFreeDisk, SwapFails, ActiveFileIsWhole
  <2>. QED
    BY <1>2, <2>1, SwFailureKeeps
<1>. QED
  BY <1>1, <1>2 DEF SwapOn

LEMMA FstabKeeps ==
    ASSUME SwInv, UpdateFstab
    PROVE  SwInv'
<1>. /\ swJob # NoSwapJob /\ swJob.step = "fstab" /\ SwMade(swJob.size)
     /\ UNCHANGED <<swFile, swReady, swActive, swOther>>
  BY DEF SwInv, SwNearlyDone, SwStepIn, UpdateFstab, SwAt
<1>1. swJob.size \in Nat
  BY JobsAreJobs DEF SwInv, SwTypeOK
<1>2. CASE swFstab' = (swJob.size # NoSwap) /\ SwapDone
  <2>1. SwTypeOK' /\ ActiveFileIsWhole'
    BY <1>1, <1>2 DEF SwInv, SwTypeOK, SwFreeDisk, SwapDone, ActiveFileIsWhole
  <2>2. SwMade(swAsked)' /\ (swFstab' <=> swAsked' # NoSwap)
    BY <1>2 DEF SwapDone, SwMade
  <2>. QED
    BY <1>2, <2>1, <2>2, SwDoneKeeps
<1>3. CASE UNCHANGED swFstab /\ SwapFails
  <2>1. SwTypeOK' /\ ActiveFileIsWhole'
    BY <1>3 DEF SwInv, SwTypeOK, SwFreeDisk, SwapFails, ActiveFileIsWhole
  <2>. QED
    BY <1>3, <2>1, SwFailureKeeps
<1>. QED
  BY <1>2, <1>3 DEF UpdateFstab

\* A failed swapoff, or the end of the panel, changes nothing but the job.
LEMMA StopKeeps ==
    ASSUME SwInv, SwapOffFails \/ SwPanelEnds
    PROVE  SwInv'
<1>1. SwapFails /\ UNCHANGED <<swFile, swReady, swActive, swFstab, swOther>>
  BY DEF SwapOffFails, SwPanelEnds
<1>2. SwTypeOK' /\ ActiveFileIsWhole'
  BY <1>1 DEF SwInv, SwTypeOK, SwFreeDisk, SwapFails, ActiveFileIsWhole
<1>. QED
  BY <1>1, <1>2, SwFailureKeeps

\* The kernel finds the file of the last job in /etc/fstab, if that job ended
\* well.
LEMMA SwRebootKeeps ==
    ASSUME SwInv, SwReboot
    PROVE  SwInv'
<1>. /\ swActive' = (IF swFstab /\ swReady THEN swFile ELSE NoSwap)
     /\ swJob' = NoSwapJob
     /\ UNCHANGED <<swFile, swReady, swFstab, swOther, swAsked>>
  BY DEF SwReboot
<1>1. swBroken' = (swBroken \/ swJob # NoSwapJob)
  BY DEF SwReboot
<1>2. SwTypeOK' /\ ActiveFileIsWhole'
  <2>1. swBroken' \in BOOLEAN
    BY <1>1
  <2>. QED
    BY <2>1 DEF SwInv, SwTypeOK, SwFreeDisk, ActiveFileIsWhole, NoSwap
<1>3. ASSUME ~swBroken' PROVE SwMade(swAsked)' /\ (swFstab <=> swAsked # NoSwap)
  <2>1. SwMade(swAsked) /\ (swFstab <=> swAsked # NoSwap)
    BY <1>1, <1>3 DEF SwInv, SwSteady
  <2>2. CASE swAsked = NoSwap
    BY <2>1, <2>2 DEF SwMade
  <2>3. CASE swAsked # NoSwap
    <3>1. swActive # NoSwap
      BY <2>1, <2>3 DEF SwMade, SwInv, SwTypeOK, NoSwap
    <3>2. swReady
      BY <3>1 DEF SwInv, ActiveFileIsWhole
    <3>. QED
      BY <2>1, <2>3, <3>2 DEF SwMade
  <2>. QED
    BY <2>2, <2>3
<1>. QED
  BY <1>2, <1>3 DEF SwInv, SwPlaced, SwNearlyDone, SwRoomSeen, SwSteady, SwStepIn

LEMMA SwOthersKeep ==
    ASSUME SwInv, OthersTakeDisk
    PROVE  SwInv'
<1>1. PICK n \in SwapOther : n + swFile <= SwapDisk /\ swOther' = n
  BY DEF OthersTakeDisk
<1>2. UNCHANGED <<swFile, swReady, swActive, swFstab, swBroken, swAsked>>
  BY DEF OthersTakeDisk
<1>3. SwFreeDisk' >= 0 /\ swOther' \in Nat
  BY <1>1, <1>2, SwapFileAssumption DEF SwInv, SwTypeOK, SwFreeDisk, SwapFileAssumption
<1>4. CASE swJob = NoSwapJob
  <2>1. swJob' = NoSwapJob
    BY <1>4 DEF OthersTakeDisk
  <2>. QED
    BY <1>2, <1>3, <1>4, <2>1
    DEF SwInv, SwTypeOK, ActiveFileIsWhole, SwPlaced, SwNearlyDone, SwRoomSeen, SwSteady, SwMade, SwStepIn
<1>5. CASE swJob # NoSwapJob
  <2>1. /\ swJob' \in SwapJob /\ swJob'.step = swJob.step
        /\ swJob'.size = swJob.size /\ swJob'.blind
    BY <1>5 DEF OthersTakeDisk, SwInv, SwTypeOK, SwapJob
  <2>2. SwTypeOK'
    BY <1>2, <1>3, <2>1 DEF SwInv, SwTypeOK
  <2>3. swJob' # NoSwapJob
    BY <2>1, JobsAreJobs
  <2>4. ActiveFileIsWhole' /\ SwPlaced' /\ SwNearlyDone'
    BY <1>2, <1>5, <2>1 DEF SwInv, ActiveFileIsWhole, SwPlaced, SwNearlyDone, SwMade, SwStepIn
  <2>5. SwRoomSeen' /\ SwSteady'
    BY <1>2, <1>5, <2>1, <2>3 DEF SwInv, SwRoomSeen, SwSteady, SwMade, SwStepIn
  <2>. QED
    BY <2>2, <2>4, <2>5 DEF SwInv
<1>. QED
  BY <1>4, <1>5

-----------------------------------------------------------------------------
LEMMA SwNextKeeps ==
    SwInv /\ [SwNext]_swVars => SwInv'
<1>. SUFFICES ASSUME SwInv, [SwNext]_swVars PROVE SwInv'
  OBVIOUS
<1>1. CASE UNCHANGED swVars
  BY <1>1 DEF SwInv, SwTypeOK, SwFreeDisk, ActiveFileIsWhole, SwPlaced, SwNearlyDone, SwRoomSeen,
              SwSteady, SwMade, SwStepIn, swVars
<1>. QED
  BY <1>1, SwStartKeeps, CheckSizeKeeps, CheckRemoveKeeps, OffKeeps, UnlinkKeeps, AllocateKeeps,
     SwWriteKeeps, MakeKeeps, OnKeeps, FstabKeeps, StopKeeps, SwRebootKeeps, SwOthersKeep
  DEF SwNext

\* SwInv holds in every reachable state of the swap (services/swap.py).
THEOREM SwInvariance == SwSpec => []SwInv
<1>. QED
  BY SwInitial, SwNextKeeps, PTL DEF SwSpec

\* The variables keep their types, and no more disk is used than there is.
THEOREM SwTypeCorrect == SwSpec => []SwTypeOK
<1>1. SwInv => SwTypeOK
  BY DEF SwInv
<1>. QED
  BY <1>1, SwInvariance, PTL

\* The kernel never swaps to a file that is gone, cut short or not made by
\* mkswap, whatever fails and whenever the machine is restarted.
THEOREM ActiveWhole == SwSpec => []ActiveFileIsWhole
<1>1. SwInv => ActiveFileIsWhole
  BY DEF SwInv
<1>. QED
  BY <1>1, SwInvariance, PTL

\* Between jobs, unless the last one broke, the kernel swaps to what was asked
\* for and /etc/fstab says so (swap.py 248, _update_fstab).
THEOREM AsAsked == SwSpec => []SwapAsAsked
<1>1. SwInv => SwapAsAsked
  BY DEF SwInv, SwSteady, SwMade, SwapAsAsked
<1>. QED
  BY <1>1, SwInvariance, PTL

\* A file that has been written leaves DISK_HEADROOM_MB free, unless the disk
\* was seen as full or others took of it since.
THEOREM RoomIsKept == SwSpec => []HeadroomIsKept
<1>1. SwInv => HeadroomIsKept
  <2>. SUFFICES ASSUME SwInv, SwAt("mkswap"), ~swJob.blind PROVE SwFreeDisk >= SwHeadroom
    BY DEF HeadroomIsKept
  <2>1. swFile = swJob.size /\ SwapDisk - swOther >= swJob.size + SwHeadroom
    BY DEF SwAt, SwStepIn, SwInv, SwPlaced, SwRoomSeen
  <2>. QED
    BY <2>1, SwapFileAssumption DEF SwFreeDisk, SwInv, SwTypeOK, SwapFileAssumption
<1>. QED
  BY <1>1, SwInvariance, PTL

\* The three together: swap is what was asked for, never half a file, and
\* leaves its headroom.
THEOREM SwapSound == SwSpec => []SwapIsSound
<1>1. SwapAsAsked /\ ActiveFileIsWhole /\ HeadroomIsKept => SwapIsSound
  BY DEF SwapIsSound
<1>. QED
  BY <1>1, ActiveWhole, AsAsked, RoomIsKept, PTL

(*************************************************************************)
(* Databases, for any databases and users: what the panel lists is in    *)
(* MariaDB, its user can use it unless another database was reassigned,  *)
(* and a deletion takes nothing from the databases that stay.            *)
(*************************************************************************)

Deletions == {"delete", "site.delete"}
Grantings == {"create", "reassign"}

Busy(n) == dbJob # NoDbJob /\ dbJob.name = n

\* What a job that has come to a step has made.
DbPlaced ==
    dbJob # NoDbJob =>
        /\ dbJob.op \in Grantings => dbJob.user \in DbUsers
        /\ dbJob.op = "create" /\ dbJob.step # "schema" => dbJob.name \in dbSchemas
        /\ dbJob.op = "reassign" => dbRows[dbJob.name] # NoDbUser
        /\ dbJob.step = "grant" => dbJob.user \in dbAccounts
        /\ dbJob.step \in {"revoke", "tidy"} => dbJob.op = "reassign" /\ dbJob.old # dbJob.user
        /\ dbJob.op \in Grantings /\ dbJob.step \in {"revoke", "tidy", "row"} =>
              <<dbJob.user, dbJob.name>> \in dbGrants
        /\ dbJob.step = "tidy" =>
              \A n \in DbNames \ {dbJob.name} : dbRows[n] = dbJob.old => n \in dbRobbed

\* A database whose row says that it is there stays until a job deletes it.
DbKept ==
    \A n \in DbNames \ dbHalf :
        dbRows[n] # NoDbUser /\ ~(Busy(n) /\ dbJob.op \in Deletions) => n \in dbSchemas

\* The grants of the databases no job is at.
DbGranted ==
    \A n \in DbNames \ (dbHalf \cup dbRobbed) :
        dbRows[n] # NoDbUser /\ ~Busy(n) => <<dbRows[n], n>> \in dbGrants

DbInv == DbTypeOK /\ DbPlaced /\ DbKept /\ DbGranted

-----------------------------------------------------------------------------
LEMMA DbJobTypes ==
    /\ NoDbJob \notin DbJob
    /\ \A job \in DbJob :
          /\ job.op \in Deletions \cup Grantings
          /\ job.name \in DbNames
          /\ job.user \in DbUsers \cup {NoDbUser} /\ job.old \in DbUsers \cup {NoDbUser}
<1>1. NoDbJob.op \notin Deletions \cup Grantings
  BY DEF NoDbJob, Deletions, Grantings
<1>2. \A job \in DbJob :
          /\ job.op \in Deletions \cup Grantings
          /\ job.name \in DbNames
          /\ job.user \in DbUsers \cup {NoDbUser} /\ job.old \in DbUsers \cup {NoDbUser}
  BY DEF DbJob, Deletions, Grantings
<1>. QED
  BY <1>1, <1>2

\* A job that goes on stays the job it was.
LEMMA DbJobGoesOn ==
    ASSUME DbTypeOK, dbJob # NoDbJob, NEW step \in {"schema", "account", "grant", "revoke",
           "tidy", "drop", "user", "row"}, DbGoTo(step)
    PROVE  /\ dbJob' \in DbJob /\ dbJob' # NoDbJob
           /\ dbJob'.step = step /\ dbJob'.op = dbJob.op /\ dbJob'.name = dbJob.name
           /\ dbJob'.user = dbJob.user /\ dbJob'.old = dbJob.old
  BY DbJobTypes DEF DbTypeOK, DbJob, DbGoTo

LEMMA AtIsAJob ==
    ASSUME DbTypeOK, NEW op \in Deletions \cup Grantings, NEW step, DbAt(op, step)
    PROVE  dbJob \in DbJob /\ dbJob # NoDbJob /\ dbJob.op = op /\ dbJob.step = step
<1>1. NoDbJob.op \notin Deletions \cup Grantings
  BY DEF NoDbJob, Deletions, Grantings
<1>. QED
  BY <1>1 DEF DbTypeOK, DbAt

LEMMA DbInitial ==
    DbInit => DbInv
  BY DEF DbInit, DbInv, DbTypeOK, DbPlaced, DbKept, DbGranted

-----------------------------------------------------------------------------
(* The steps *)

LEMMA DbStartKeeps ==
    ASSUME DbInv, NEW op \in Deletions \cup Grantings, NEW n \in DbNames,
           NEW u \in DbUsers \cup {NoDbUser}, op \in Grantings => u \in DbUsers,
           NEW first \in {"schema", "account", "drop"},
           op = "create" => first = "schema",
           op = "reassign" => dbRows[n] # NoDbUser,
           StartDbJob(op, n, u, first)
    PROVE  DbInv'
<1>1. /\ dbJob = NoDbJob
      /\ dbJob' = [op |-> op, step |-> first, name |-> n, user |-> u, old |-> dbRows[n]]
      /\ UNCHANGED <<dbSchemas, dbAccounts, dbGrants, dbRows, dbHalf, dbRobbed>>
  BY DEF StartDbJob, mariaDb
<1>2. dbJob' \in DbJob
  BY <1>1 DEF DbInv, DbTypeOK, DbJob, Deletions, Grantings
<1>3. /\ dbJob'.op = op /\ dbJob'.step = first /\ dbJob'.name = n /\ dbJob'.user = u
      /\ first \notin {"grant", "revoke", "tidy", "row"}
  BY <1>1
<1>4. DbTypeOK'
  BY <1>1, <1>2 DEF DbInv, DbTypeOK
<1>5. DbPlaced'
  BY <1>1, <1>3 DEF DbPlaced
<1>. QED
  BY <1>1, <1>4, <1>5 DEF DbInv, DbKept, DbGranted, Busy

LEMMA DbAsksKeep ==
    ASSUME DbInv, AskCreate \/ AskReassign \/ AskDelete \/ AskSiteDelete
    PROVE  DbInv'
  BY DbStartKeeps DEF AskCreate, AskReassign, AskDelete, AskSiteDelete, Deletions, Grantings

\* CREATE DATABASE, CREATE USER and GRANT take nothing away.
LEMMA DbMakesKeep ==
    ASSUME DbInv, CreateSchema \/ CreateAccount \/ Grant
    PROVE  DbInv'
<1>1. CASE CreateSchema
  <2>1. dbJob \in DbJob /\ dbJob # NoDbJob /\ dbJob.op = "create" /\ dbJob.step = "schema"
    BY <1>1, AtIsAJob DEF DbInv, CreateSchema, Grantings
  <2>2. /\ dbJob' \in DbJob /\ dbJob' # NoDbJob
        /\ dbJob'.step = "account" /\ dbJob'.op = "create" /\ dbJob'.name = dbJob.name
        /\ dbJob'.user = dbJob.user
    BY <1>1, <2>1, DbJobGoesOn DEF DbInv, CreateSchema
  <2>3. dbJob.name \in DbNames
    BY <2>1, DbJobTypes
  <2>. QED
    BY <1>1, <2>1, <2>2, <2>3
    DEF DbInv, CreateSchema, DbTypeOK, DbPlaced, DbKept, DbGranted, Busy, Deletions
<1>2. CASE CreateAccount
  <2>1. dbJob \in DbJob /\ dbJob # NoDbJob /\ dbJob.op \in Grantings /\ dbJob.step = "account"
    BY <1>2, AtIsAJob DEF DbInv, CreateAccount, Grantings
  <2>2. /\ dbJob' \in DbJob /\ dbJob' # NoDbJob
        /\ dbJob'.step = "grant" /\ dbJob'.op = dbJob.op /\ dbJob'.name = dbJob.name
        /\ dbJob'.user = dbJob.user
    BY <1>2, <2>1, DbJobGoesOn DEF DbInv, CreateAccount
  <2>3. dbJob.user \in DbUsers
    BY <2>1 DEF DbInv, DbPlaced
  <2>. QED
    BY <1>2, <2>1, <2>2, <2>3
    DEF DbInv, CreateAccount, DbTypeOK, DbPlaced, DbKept, DbGranted, Busy
<1>3. CASE Grant
  <2>. DEFINE next == IF dbJob.op = "reassign" /\ dbJob.old # dbJob.user /\ DbKnown(dbJob.old)
                      THEN "revoke" ELSE "row"
  <2>1. dbJob \in DbJob /\ dbJob # NoDbJob /\ dbJob.op \in Grantings /\ dbJob.step = "grant"
    BY <1>3, AtIsAJob DEF DbInv, Grant, Grantings
  <2>2. /\ dbJob' \in DbJob /\ dbJob' # NoDbJob
        /\ dbJob'.step = next /\ dbJob'.op = dbJob.op /\ dbJob'.name = dbJob.name
        /\ dbJob'.user = dbJob.user /\ dbJob'.old = dbJob.old
    BY <1>3, <2>1, DbJobGoesOn DEF DbInv, Grant
  <2>3. dbJob.user \in dbAccounts /\ dbJob.name \in DbNames
    BY <2>1, DbJobTypes DEF DbInv, DbPlaced
  <2>4. /\ dbGrants' = dbGrants \cup {<<dbJob.user, dbJob.name>>}
        /\ UNCHANGED <<dbSchemas, dbAccounts, dbRows, dbHalf, dbRobbed>>
    BY <1>3 DEF Grant
  <2>5. DbTypeOK'
    BY <2>2, <2>3, <2>4 DEF DbInv, DbTypeOK
  <2>6. DbPlaced'
    BY <2>1, <2>2, <2>4 DEF DbInv, DbPlaced, Grantings
  <2>7. DbKept' /\ DbGranted'
    BY <2>1, <2>2, <2>4 DEF DbInv, DbKept, DbGranted, Busy
  <2>. QED
    BY <2>5, <2>6, <2>7 DEF DbInv
<1>. QED
  BY <1>1, <1>2, <1>3

\* REVOKE, from a user other than the new one: its databases are robbed.
LEMMA DbRevokeKeeps ==
    ASSUME DbInv, RevokeAll
    PROVE  DbInv'
<1>1. dbJob \in DbJob /\ dbJob # NoDbJob /\ dbJob.op = "reassign" /\ dbJob.step = "revoke"
  BY AtIsAJob DEF DbInv, RevokeAll, Grantings
<1>2. /\ dbJob' \in DbJob /\ dbJob' # NoDbJob
      /\ dbJob'.step = "tidy" /\ dbJob'.op = "reassign" /\ dbJob'.name = dbJob.name
      /\ dbJob'.user = dbJob.user /\ dbJob'.old = dbJob.old
  BY <1>1, DbJobGoesOn DEF DbInv, RevokeAll
<1>3. /\ dbGrants' = {g \in dbGrants : g[1] # dbJob.old}
      /\ dbRobbed' = dbRobbed \cup {n \in DbNames \ {dbJob.name} : dbRows[n] = dbJob.old}
      /\ UNCHANGED <<dbSchemas, dbAccounts, dbRows, dbHalf>>
  BY DEF RevokeAll
<1>4. DbTypeOK'
  BY <1>2, <1>3 DEF DbInv, DbTypeOK
<1>5. DbPlaced'
  BY <1>1, <1>2, <1>3 DEF DbInv, DbPlaced, Grantings
<1>6. DbKept'
  BY <1>1, <1>2, <1>3 DEF DbInv, DbKept, Busy, Deletions
<1>7. DbGranted'
  BY <1>1, <1>2, <1>3 DEF DbInv, DbGranted, Busy
<1>. QED
  BY <1>4, <1>5, <1>6, <1>7 DEF DbInv

\* The old user, or its grant on the database, goes; who else it served was
\* robbed before.
LEMMA DbTidyKeeps ==
    ASSUME DbInv, TidyOldUser
    PROVE  DbInv'
<1>1. dbJob \in DbJob /\ dbJob # NoDbJob /\ dbJob.op = "reassign" /\ dbJob.step = "tidy"
  BY AtIsAJob DEF DbInv, TidyOldUser, Grantings
<1>2. /\ dbJob' \in DbJob /\ dbJob' # NoDbJob
      /\ dbJob'.step = "row" /\ dbJob'.op = "reassign" /\ dbJob'.name = dbJob.name
      /\ dbJob'.user = dbJob.user /\ dbJob'.old = dbJob.old
  BY <1>1, DbJobGoesOn DEF DbInv, TidyOldUser
<1>3. UNCHANGED <<dbSchemas, dbRows, dbHalf, dbRobbed>>
  BY DEF TidyOldUser
<1>4. \/ WithoutUser(dbJob.old)
      \/ dbGrants' = dbGrants \ {<<dbJob.old, dbJob.name>>} /\ UNCHANGED dbAccounts
  BY DEF TidyOldUser
<1>5. DbTypeOK'
  BY <1>2, <1>3, <1>4 DEF DbInv, DbTypeOK, WithoutUser
<1>6. dbJob.old # dbJob.user /\ <<dbJob.user, dbJob.name>> \in dbGrants
  BY <1>1 DEF DbInv, DbPlaced, Grantings
<1>7. DbPlaced'
  BY <1>1, <1>2, <1>3, <1>4, <1>6 DEF DbInv, DbPlaced, WithoutUser, Grantings
<1>8. DbKept'
  BY <1>1, <1>2, <1>3 DEF DbInv, DbKept, Busy, Deletions
<1>9. DbGranted'
  <2>. SUFFICES ASSUME NEW n \in DbNames \ (dbHalf \cup dbRobbed), dbRows[n] # NoDbUser, n # dbJob.name
                PROVE  <<dbRows[n], n>> \in dbGrants'
    BY <1>2, <1>3 DEF DbGranted, Busy
  <2>1. <<dbRows[n], n>> \in dbGrants
    BY DEF DbInv, DbGranted, Busy
  <2>2. dbRows[n] # dbJob.old
    BY <1>1 DEF DbInv, DbPlaced
  <2>. QED
    BY <1>4, <2>1, <2>2 DEF WithoutUser
<1>. QED
  BY <1>5, <1>7, <1>8, <1>9 DEF DbInv

\* Without a grant on another database the user of a deleted one serves none.
LEMMA DbDropsKeep ==
    ASSUME DbInv, DropSchema \/ DropLastUser \/ SiteDropFails
    PROVE  DbInv'
<1>1. /\ dbJob \in DbJob /\ dbJob # NoDbJob /\ dbJob.op \in Deletions
      /\ dbJob' \in DbJob /\ dbJob' # NoDbJob
      /\ dbJob'.step \in {"user", "row"} /\ dbJob'.op = dbJob.op /\ dbJob'.name = dbJob.name
  BY AtIsAJob, DbJobGoesOn DEF DbInv, DropSchema, DropLastUser, SiteDropFails, Deletions
<1>2. /\ UNCHANGED <<dbRows, dbHalf, dbRobbed>>
      /\ dbSchemas' \subseteq dbSchemas /\ dbSchemas \ {dbJob.name} \subseteq dbSchemas'
  BY DEF DropSchema, DropLastUser, SiteDropFails, mariaDb
<1>3. \/ UNCHANGED <<dbAccounts, dbGrants>>
      \/ OtherGrants(dbJob.old, dbJob.name) = {} /\ WithoutUser(dbJob.old)
  BY DEF DropSchema, DropLastUser, SiteDropFails, mariaDb
<1>4. DbTypeOK'
  BY <1>1, <1>2, <1>3 DEF DbInv, DbTypeOK, WithoutUser
<1>5. DbPlaced'
  BY <1>1 DEF DbPlaced, Deletions, Grantings
<1>6. DbKept'
  BY <1>1, <1>2 DEF DbInv, DbKept, Busy
<1>7. DbGranted'
  <2>. SUFFICES ASSUME NEW n \in DbNames \ (dbHalf \cup dbRobbed), dbRows[n] # NoDbUser, n # dbJob.name
                PROVE  <<dbRows[n], n>> \in dbGrants'
    BY <1>1, <1>2 DEF DbGranted, Busy
  <2>1. <<dbRows[n], n>> \in dbGrants
    BY DEF DbInv, DbGranted, Busy
  <2>2. OtherGrants(dbJob.old, dbJob.name) = {} => dbRows[n] # dbJob.old
    BY <2>1 DEF OtherGrants
  <2>. QED
    BY <1>3, <2>1, <2>2 DEF WithoutUser
<1>. QED
  BY <1>4, <1>5, <1>6, <1>7 DEF DbInv

\* The row: only now does the panel say what the job has done.
LEMMA DbCommitKeeps ==
    ASSUME DbInv, CommitDbRow
    PROVE  DbInv'
<1>1. /\ dbJob.step = "row" /\ dbJob' = NoDbJob
      /\ dbRows' = [dbRows EXCEPT ![dbJob.name] =
                      IF dbJob.op \in Grantings THEN dbJob.user ELSE NoDbUser]
      /\ dbHalf' = IF dbJob.op = "reassign" THEN dbHalf ELSE dbHalf \ {dbJob.name}
      /\ dbRobbed' = dbRobbed \ {dbJob.name}
      /\ UNCHANGED <<dbSchemas, dbAccounts, dbGrants>>
  BY DEF CommitDbRow, mariaDb, Grantings
<1>2. dbJob \in DbJob /\ dbJob # NoDbJob
  BY <1>1 DEF DbInv, DbTypeOK, NoDbJob
<1>3. /\ dbJob.op \in Deletions \cup Grantings /\ dbJob.name \in DbNames
      /\ dbJob.user \in DbUsers \cup {NoDbUser}
  BY <1>2, DbJobTypes
<1>4. DbTypeOK'
  BY <1>1, <1>3 DEF DbInv, DbTypeOK
<1>5. DbPlaced'
  BY <1>1 DEF DbPlaced
<1>6. DbKept'
  BY <1>1, <1>2, <1>3 DEF DbInv, DbTypeOK, DbPlaced, DbKept, Busy, Deletions, Grantings
<1>7. DbGranted'
  BY <1>1, <1>2, <1>3 DEF DbInv, DbTypeOK, DbPlaced, DbGranted, Busy, Deletions, Grantings
<1>. QED
  BY <1>4, <1>5, <1>6, <1>7 DEF DbInv

LEMMA DbFailKeeps ==
    ASSUME DbInv, DbJobFails
    PROVE  DbInv'
<1>1. dbJob \in DbJob /\ dbJob.name \in DbNames
  BY DbJobTypes DEF DbInv, DbTypeOK, DbJobFails
<1>. QED
  BY <1>1 DEF DbInv, DbTypeOK, DbPlaced, DbKept, DbGranted, Busy, DbJobFails, mariaDb

LEMMA DbOperatorKeeps ==
    ASSUME DbInv, OperatorDrops
    PROVE  DbInv'
  BY DEF DbInv, DbTypeOK, DbPlaced, DbKept, DbGranted, Busy, OperatorDrops

-----------------------------------------------------------------------------
LEMMA DbNextKeeps ==
    DbInv /\ [DbNext]_dbVars => DbInv'
<1>. SUFFICES ASSUME DbInv, [DbNext]_dbVars PROVE DbInv'
  OBVIOUS
<1>1. CASE UNCHANGED dbVars
  BY <1>1 DEF DbInv, DbTypeOK, DbPlaced, DbKept, DbGranted, Busy, dbVars
<1>. QED
  BY <1>1, DbAsksKeep, DbMakesKeep, DbRevokeKeeps, DbTidyKeeps, DbDropsKeep, DbCommitKeeps,
     DbFailKeeps, DbOperatorKeeps
  DEF DbNext

\* DbInv holds in every reachable state (services/databases.py, tasks.py).
THEOREM DbInvariance == DbSpec => []DbInv
<1>. QED
  BY DbInitial, DbNextKeeps, PTL DEF DbSpec

\* The variables keep their types, and no grant outlives its account.
THEOREM DbTypeCorrect == DbSpec => []DbTypeOK
<1>1. DbInv => DbTypeOK
  BY DEF DbInv
<1>. QED
  BY <1>1, DbInvariance, PTL

\* Every database the panel lists is in MariaDB, but those a job has stopped
\* halfway on.
THEOREM RowsAreReal == DbSpec => []DbRowIsReal
<1>1. DbInv => DbRowIsReal
  BY DEF DbInv, DbKept, DbRowIsReal, DbSettled, Busy
<1>. QED
  BY <1>1, DbInvariance, PTL

\* Its user can use it, but where another database of that user was reassigned
\* (databases.py 214).
THEOREM UsersHaveAccess == DbSpec => []DbUserHasAccess
<1>1. DbInv => DbUserHasAccess
  BY DEF DbInv, DbGranted, DbUserHasAccess, DbSettled, Busy
<1>. QED
  BY <1>1, DbInvariance, PTL

\* "a user shared between two databases must survive one being deleted"
\* (databases.py 244): no step of a deletion takes a grant on another database.
THEOREM SharedUsersSurvive == DbSpec => SharedUserSurvives
<1>1. DbTypeOK /\ [DbNext]_dbVars
      => [dbJob.op \in {"delete", "site.delete"}
          => \A g \in dbGrants : g[2] # dbJob.name => g \in dbGrants']_dbVars
  <2>. SUFFICES ASSUME DbTypeOK, DbNext, dbJob.op \in Deletions,
                       NEW g \in dbGrants, g[2] # dbJob.name
                PROVE  g \in dbGrants'
    BY DEF Deletions, dbVars
  <2>1. dbJob # NoDbJob
    BY DEF NoDbJob, Deletions
  <2>2. CASE DropLastUser
    BY <2>2 DEF DropLastUser, OtherGrants, WithoutUser
  <2>3. CASE ~DropLastUser
    BY <2>1, <2>3
    DEF DbNext, AskCreate, AskReassign, AskDelete, AskSiteDelete, StartDbJob, CreateSchema, CreateAccount,
        Grant, RevokeAll, TidyOldUser, DropSchema, SiteDropFails, CommitDbRow, DbJobFails, OperatorDrops,
        mariaDb, DbAt, Deletions
  <2>. QED
    BY <2>2, <2>3
<1>. QED
  BY <1>1, DbTypeCorrect, PTL DEF DbSpec, SharedUserSurvives

\* A row stands for a database of MariaDB that its user can use (databases.py
\* 120-259), under the conditions of the two.
THEOREM RowsUsable == DbSpec => []RowsAreUsable
<1>1. DbRowIsReal /\ DbUserHasAccess => RowsAreUsable
  BY DEF RowsAreUsable
<1>. QED
  BY <1>1, RowsAreReal, UsersHaveAccess, PTL

(*************************************************************************)
(* Firewall, for any rules, clients and families: closing the firewall   *)
(* leaves SSH open for whoever the check was not misled about.           *)
(*************************************************************************)

\* A request that is about to close the firewall, and whose rules nobody has
\* changed since it read them, has SSH open for every client it was not misled
\* about; before its own rule, nothing will come in the way of that rule.
SshSeenOpen ==
    fwReq # NoFwReq /\ ~fwReq.touched =>
        \A c \in FwClients \ fwReq.misled :
            IF fwReq.next = "set" THEN LetIn(c) ELSE ~Barred(c)

FwInv == FwTypeOK /\ SshSeenOpen

\* A list of rules of different targets.
FwList(rules) ==
    /\ rules \in Seq(FwRule)
    /\ \A i, j \in DOMAIN rules : rules[i].to = rules[j].to => i = j

LEMMA FwRequests ==
    NoFwReq \notin FwReq
<1>1. NoFwReq.op \notin {"enable", "deny"}
  BY DEF NoFwReq
<1>. QED
  BY <1>1 DEF FwReq

LEMMA FwLists ==
    FwTypeOK <=> /\ fwRules = [f \in FwFamilies |-> fwRules[f]]
                 /\ \A f \in FwFamilies : FwList(fwRules[f])
                 /\ fwActive \in BOOLEAN
                 /\ fwPolicy \in {"allow", "deny"}
                 /\ fwReq \in FwReq \cup {NoFwReq}
  BY DEF FwTypeOK, FwList

\* A rule takes the place of the one with its target, or the last.
LEMMA RuleReplaces ==
    ASSUME NEW rules, FwList(rules), NEW rule \in FwRule
    PROVE  /\ FwList(WithRule(rules, rule))
           /\ \E i \in DOMAIN WithRule(rules, rule) : WithRule(rules, rule)[i] = rule
           /\ \A i \in DOMAIN WithRule(rules, rule) :
                  \/ WithRule(rules, rule)[i] = rule
                  \/ /\ i \in DOMAIN rules /\ WithRule(rules, rule)[i] = rules[i]
                     /\ rules[i].to # rule.to
<1>1. rules \in Seq(FwRule) /\ DOMAIN rules = 1 .. Len(rules) /\ Len(rules) \in Nat
  BY DEF FwList
<1>2. CASE \E i \in DOMAIN rules : rules[i].to = rule.to
  <2>. DEFINE new == [i \in DOMAIN rules |-> IF rules[i].to = rule.to THEN rule ELSE rules[i]]
  <2>1. WithRule(rules, rule) = new
    BY <1>2 DEF WithRule
  <2>2. new \in Seq(FwRule) /\ DOMAIN new = DOMAIN rules
    BY <1>1
  <2>3. \A i \in DOMAIN rules : new[i].to = rules[i].to
    OBVIOUS
  <2>4. \A i, j \in DOMAIN new : new[i].to = new[j].to => i = j
    BY <2>2, <2>3 DEF FwList
  <2>5. \E i \in DOMAIN new : new[i] = rule
    BY <1>2
  <2>6. \A i \in DOMAIN new : new[i] = rule \/ (i \in DOMAIN rules /\ new[i] = rules[i] /\ rules[i].to # rule.to)
    OBVIOUS
  <2>. HIDE DEF new
  <2>. QED
    BY <2>1, <2>2, <2>4, <2>5, <2>6 DEF FwList
<1>3. CASE ~\E i \in DOMAIN rules : rules[i].to = rule.to
  <2>. DEFINE new == Append(rules, rule)
  <2>1. WithRule(rules, rule) = new
    BY <1>3 DEF WithRule
  <2>2. /\ new \in Seq(FwRule) /\ DOMAIN new = 1 .. Len(rules) + 1
        /\ new[Len(rules) + 1] = rule
        /\ \A i \in 1 .. Len(rules) : new[i] = rules[i]
    BY <1>1
  <2>. HIDE DEF new
  <2>3. \A i, j \in DOMAIN new : new[i].to = new[j].to => i = j
    <3>. SUFFICES ASSUME NEW i \in DOMAIN new, NEW j \in DOMAIN new, new[i].to = new[j].to
                  PROVE  i = j
      OBVIOUS
    <3>1. CASE i \in 1 .. Len(rules) /\ j \in 1 .. Len(rules)
      BY <3>1, <2>2, <1>1 DEF FwList
    <3>2. CASE i \in 1 .. Len(rules) /\ j = Len(rules) + 1
      BY <3>2, <2>2, <1>1, <1>3
    <3>3. CASE i = Len(rules) + 1 /\ j \in 1 .. Len(rules)
      BY <3>3, <2>2, <1>1, <1>3
    <3>. QED
      BY <3>1, <3>2, <3>3, <2>2, <1>1
  <2>4. \E i \in DOMAIN new : new[i] = rule
    BY <2>2, <1>1
  <2>5. \A i \in DOMAIN new : new[i] = rule \/ (i \in DOMAIN rules /\ new[i] = rules[i] /\ rules[i].to # rule.to)
    BY <2>2, <1>1, <1>3
  <2>. QED
    BY <2>1, <2>2, <2>3, <2>4, <2>5 DEF FwList
<1>. QED
  BY <1>2, <1>3

LEMMA RuleGoes ==
    ASSUME NEW rules, FwList(rules), NEW i \in DOMAIN rules
    PROVE  FwList(RemoveAt(rules, i))
<1>. DEFINE new == RemoveAt(rules, i)
            n == Len(rules)
<1>1. rules \in Seq(FwRule) /\ n \in Nat /\ DOMAIN rules = 1 .. n /\ i \in 1 .. n
  BY DEF FwList
<1>2. /\ SubSeq(rules, 1, i - 1) \in Seq(FwRule) /\ Len(SubSeq(rules, 1, i - 1)) = i - 1
      /\ SubSeq(rules, i + 1, n) \in Seq(FwRule) /\ Len(SubSeq(rules, i + 1, n)) = n - i
  BY <1>1
<1>3. /\ \A k \in 1 .. i - 1 : SubSeq(rules, 1, i - 1)[k] = rules[k]
      /\ \A k \in 1 .. n - i : SubSeq(rules, i + 1, n)[k] = rules[k + i]
  BY <1>1
<1>. DEFINE front == SubSeq(rules, 1, i - 1)
            back == SubSeq(rules, i + 1, n)
<1>a. new = front \o back
  BY DEF RemoveAt
<1>. HIDE DEF new, front, back
<1>4. /\ new \in Seq(FwRule) /\ Len(new) = n - 1
      /\ \A k \in 1 .. n - 1 : new[k] = IF k < i THEN rules[k] ELSE rules[k + 1]
  <2>1. front \in Seq(FwRule) /\ back \in Seq(FwRule) /\ Len(front) = i - 1 /\ Len(back) = n - i
    BY <1>2 DEF front, back
  <2>2. /\ new \in Seq(FwRule) /\ Len(new) = Len(front) + Len(back)
        /\ \A k \in 1 .. Len(front) + Len(back) :
               new[k] = IF k <= Len(front) THEN front[k] ELSE back[k - Len(front)]
    BY <1>a, <2>1
  <2>3. \A k \in 1 .. i - 1 : front[k] = rules[k]
    BY <1>3 DEF front
  <2>4. \A k \in 1 .. n - i : back[k] = rules[k + i]
    BY <1>3 DEF back
  <2>5. ASSUME NEW k \in 1 .. n - 1 PROVE new[k] = IF k < i THEN rules[k] ELSE rules[k + 1]
    <3>1. CASE k < i
      BY <3>1, <1>1, <2>1, <2>2, <2>3
    <3>2. CASE k >= i
      <4>1. new[k] = back[k - (i - 1)] /\ k - (i - 1) \in 1 .. n - i
        BY <3>2, <1>1, <2>1, <2>2
      <4>2. (k - (i - 1)) + i = k + 1
        BY <1>1
      <4>. QED
        BY <3>2, <4>1, <4>2, <2>4, <1>1
    <3>. QED
      BY <3>1, <3>2, <1>1
  <2>. QED
    BY <1>1, <2>1, <2>2, <2>5
<1>5. \A j, k \in 1 .. n - 1 : new[j].to = new[k].to => j = k
  <2>. SUFFICES ASSUME NEW j \in 1 .. n - 1, NEW k \in 1 .. n - 1, new[j].to = new[k].to
                PROVE  j = k
    OBVIOUS
  <2>. DEFINE at(m) == IF m < i THEN m ELSE m + 1
  <2>1. at(j) \in 1 .. n /\ at(k) \in 1 .. n /\ new[j] = rules[at(j)] /\ new[k] = rules[at(k)]
    BY <1>1, <1>4
  <2>2. at(j) = at(k)
    BY <2>1, <1>1 DEF FwList
  <2>. QED
    BY <2>2, <1>1
<1>. QED
  BY <1>1, <1>4, <1>5 DEF FwList, new

LEMMA FwInitial ==
    FwInit => FwInv
<1>1. <<>> \in Seq(FwRule) /\ DOMAIN <<>> = {}
  OBVIOUS
<1>. QED
  BY <1>1 DEF FwInit, FwInv, FwTypeOK, SshSeenOpen

LEMMA RulesWithRule ==
    ASSUME FwTypeOK, NEW rule \in FwRule, NEW families
    PROVE  /\ RulesWith(rule, families) = [f \in FwFamilies |-> RulesWith(rule, families)[f]]
           /\ \A f \in FwFamilies : FwList(RulesWith(rule, families)[f])
           /\ \A f \in FwFamilies : f \in families /\ (\E c \in rule.to.from : FwFamilyOf[c] = f)
                  => RulesWith(rule, families)[f] = WithRule(fwRules[f], rule)
<1>. DEFINE added(f) == f \in families /\ \E c \in rule.to.from : FwFamilyOf[c] = f
<1>. HIDE DEF added
<1>1. RulesWith(rule, families) = [f \in FwFamilies |-> IF added(f) THEN WithRule(fwRules[f], rule) ELSE fwRules[f]]
  BY DEF RulesWith, added
<1>2. \A f \in FwFamilies : FwList(fwRules[f]) /\ FwList(WithRule(fwRules[f], rule))
  BY FwLists, RuleReplaces
<1>. QED
  BY <1>1, <1>2 DEF added

LEMMA SshRule == AllowSshRule \in FwRule
  BY FirewallAssumption DEF AllowSshRule, FwRule

-----------------------------------------------------------------------------
(* The steps *)

\* Whoever changes a rule touches the request.
LEMMA FwRuleChangesKeep ==
    ASSUME FwInv, AddFwRule \/ DeleteFwRule
    PROVE  FwInv'
<1>1. fwRules' = [f \in FwFamilies |-> fwRules'[f]] /\ \A f \in FwFamilies : FwList(fwRules'[f])
  <2>1. CASE AddFwRule
    BY <2>1, RulesWithRule DEF AddFwRule, FwInv
  <2>2. CASE DeleteFwRule
    <3>1. PICK f \in FwFamilies : \E i \in DOMAIN fwRules[f] :
              fwRules' = [fwRules EXCEPT ![f] = RemoveAt(@, i)]
      BY <2>2 DEF DeleteFwRule
    <3>2. PICK i \in DOMAIN fwRules[f] : fwRules' = [fwRules EXCEPT ![f] = RemoveAt(@, i)]
      BY <3>1
    <3>3. /\ fwRules = [g \in FwFamilies |-> fwRules[g]]
          /\ \A g \in FwFamilies : FwList(fwRules[g])
      BY FwLists DEF FwInv
    <3>4. FwList(RemoveAt(fwRules[f], i))
      BY <3>3, RuleGoes
    <3>. QED
      BY <3>2, <3>3, <3>4
  <2>. QED
    BY <2>1, <2>2
<1>2. UNCHANGED <<fwActive, fwPolicy>> /\ Touched
  BY DEF AddFwRule, DeleteFwRule
<1>3. CASE fwReq = NoFwReq
  <2>1. fwReq' = NoFwReq
    BY <1>2, <1>3 DEF Touched
  <2>. QED
    BY <1>1, <1>2, <2>1 DEF FwInv, FwTypeOK, FwList, SshSeenOpen
<1>4. CASE fwReq # NoFwReq
  <2>1. fwReq' \in FwReq /\ fwReq'.touched
    BY <1>2, <1>4 DEF Touched, FwInv, FwTypeOK, FwReq
  <2>. QED
    BY <1>1, <1>2, <2>1 DEF FwInv, FwTypeOK, FwList, SshSeenOpen
<1>. QED
  BY <1>3, <1>4

\* The check knows the clients it does not keep SSH open for.
LEMMA FwCheckKeeps ==
    ASSUME FwInv, NEW op \in {"enable", "deny"}, CheckSsh(op)
    PROVE  FwInv'
<1>1. PICK families \in Listed :
          fwReq' = [op |-> op,
                    next |-> IF HasSsh(families) THEN "set" ELSE "allow",
                    misled |-> IF HasSsh(families)
                               THEN {c \in FwClients : ~LetIn(c)}
                               ELSE {c \in FwClients : Barred(c)},
                    touched |-> FALSE]
  BY DEF CheckSsh
<1>2. UNCHANGED <<fwRules, fwActive, fwPolicy>>
  BY DEF CheckSsh
<1>3. fwReq' \in FwReq
  BY <1>1 DEF FwReq
<1>4. \A c \in FwClients \ fwReq'.misled : IF fwReq'.next = "set" THEN LetIn(c) ELSE ~Barred(c)
  BY <1>1
<1>5. (\A c \in FwClients \ fwReq.misled : IF fwReq.next = "set" THEN LetIn(c) ELSE ~Barred(c))'
  BY <1>2, <1>4 DEF LetIn, Barred, RulesFor
<1>. QED
  BY <1>2, <1>3, <1>5 DEF FwInv, FwTypeOK, SshSeenOpen

\* After `allow 22/tcp` whoever no other rule denied is let in.
LEMMA FwAllowKeeps ==
    ASSUME FwInv, AllowSsh
    PROVE  FwInv'
<1>1. /\ fwRules' = RulesWith(AllowSshRule, FwFamilies)
      /\ UNCHANGED <<fwActive, fwPolicy>>
      /\ fwReq' = [fwReq EXCEPT !.next = "set"]
      /\ fwReq # NoFwReq /\ fwReq.next = "allow"
  BY DEF AllowSsh
<1>2. /\ fwReq' \in FwReq /\ fwReq'.misled = fwReq.misled /\ fwReq'.touched = fwReq.touched
      /\ fwReq'.next = "set"
  BY <1>1 DEF FwInv, FwTypeOK, FwReq
<1>3. fwRules' = [f \in FwFamilies |-> fwRules'[f]] /\ \A f \in FwFamilies : FwList(fwRules'[f])
  BY <1>1, RulesWithRule, SshRule DEF FwInv
<1>4. ASSUME NEW c \in FwClients, ~Barred(c)
      PROVE  LetIn(c)'
  <2>. DEFINE old == RulesFor(c)
              new == WithRule(old, AllowSshRule)
  <2>1. FwFamilyOf[c] \in FwFamilies /\ c \in AllowSshRule.to.from
    BY FirewallAssumption DEF AllowSshRule, SshTarget, Anywhere
  <2>2. RulesFor(c)' = new /\ FwList(old)
    BY <1>1, <2>1, RulesWithRule, SshRule, FwLists DEF FwInv, RulesFor
  <2>3. /\ FwList(new)
        /\ \E i \in DOMAIN new : new[i] = AllowSshRule
        /\ \A i \in DOMAIN new :
              \/ new[i] = AllowSshRule
              \/ i \in DOMAIN old /\ new[i] = old[i] /\ old[i].to # SshTarget
    BY <2>2, RuleReplaces, SshRule DEF AllowSshRule
  <2>4. \A i \in Matching(old, c) : old[i].action = "deny" => old[i].to = SshTarget
    BY <1>4 DEF Barred
  <2>5. \A i \in DOMAIN old : old[i].action \in {"allow", "deny"}
    <3>1. old \in Seq(FwRule) /\ \A i \in DOMAIN old : old[i] \in FwRule
      BY <2>2 DEF FwList
    <3>. QED
      BY <3>1 DEF FwRule
  <2>. HIDE DEF old, new
  <2>6. \A i \in Matching(new, c) : new[i].action = "allow"
    <3>. SUFFICES ASSUME NEW i \in Matching(new, c) PROVE new[i].action = "allow"
      OBVIOUS
    <3>1. i \in DOMAIN new
      BY DEF Matching
    <3>2. CASE new[i] = AllowSshRule
      BY <3>2 DEF AllowSshRule
    <3>3. CASE i \in DOMAIN old /\ new[i] = old[i] /\ old[i].to # SshTarget
      BY <3>3, <2>4, <2>5 DEF Matching
    <3>. QED
      BY <2>3, <3>1, <3>2, <3>3
  <2>7. PICK i \in DOMAIN new : new[i] = AllowSshRule
    BY <2>3
  <2>8. i \in Matching(new, c)
    BY <2>7, <2>1, FirewallAssumption DEF Matching, AllowSshRule, SshTarget
  <2>9. Decides(new, c, "allow")
    BY <2>6, <2>8 DEF Decides
  <2>. QED
    BY <2>2, <2>9 DEF LetIn
<1>5. SshSeenOpen'
  BY <1>1, <1>2, <1>4 DEF FwInv, SshSeenOpen
<1>. QED
  BY <1>1, <1>2, <1>3, <1>5 DEF FwInv, FwTypeOK, FwList

LEMMA FwCommandsKeep ==
    ASSUME FwInv, DisableFw \/ OpenDefault \/ SetEnabled \/ SetDeny \/ FwCommandFails
    PROVE  FwInv'
<1>1. CASE UNCHANGED fwRules
  <2>1. fwActive' \in BOOLEAN /\ fwPolicy' \in {"allow", "deny"} /\ (fwReq' = fwReq \/ fwReq' = NoFwReq)
    BY SshRule DEF FwInv, FwTypeOK, DisableFw, OpenDefault, SetEnabled, SetDeny, FwCommandFails
  <2>. QED
    BY <1>1, <2>1 DEF FwInv, FwTypeOK, SshSeenOpen, LetIn, Barred, RulesFor
<1>2. CASE FwCommandFails /\ \E families \in SUBSET FwFamilies : fwRules' = RulesWith(AllowSshRule, families)
  <2>1. fwRules' = [f \in FwFamilies |-> fwRules'[f]] /\ \A f \in FwFamilies : FwList(fwRules'[f])
    BY <1>2, RulesWithRule, SshRule DEF FwInv
  <2>2. fwActive' \in BOOLEAN /\ fwPolicy' \in {"allow", "deny"} /\ fwReq' = NoFwReq
    BY <1>2 DEF FwInv, FwTypeOK, FwCommandFails
  <2>. QED
    BY <2>1, <2>2 DEF FwInv, FwTypeOK, FwList, SshSeenOpen
<1>. QED
  BY <1>1, <1>2 DEF DisableFw, OpenDefault, SetEnabled, SetDeny, FwCommandFails

-----------------------------------------------------------------------------
LEMMA FwNextKeeps ==
    FwInv /\ [FwNext]_fwVars => FwInv'
<1>. SUFFICES ASSUME FwInv, [FwNext]_fwVars PROVE FwInv'
  OBVIOUS
<1>1. CASE UNCHANGED fwVars
  BY <1>1 DEF FwInv, FwTypeOK, SshSeenOpen, LetIn, Barred, RulesFor, fwVars
<1>. QED
  BY <1>1, FwRuleChangesKeep, FwCheckKeeps, FwAllowKeeps, FwCommandsKeep DEF FwNext

\* FwInv holds in every reachable state of the firewall (services/firewall.py).
THEOREM FwInvariance == FwSpec => []FwInv
<1>. QED
  BY FwInitial, FwNextKeeps, PTL DEF FwSpec

\* The variables keep their types, and ufw never holds two rules for the same
\* ports and source in the list of one family.
THEOREM FwTypeCorrect == FwSpec => []FwTypeOK
<1>1. FwInv => FwTypeOK
  BY DEF FwInv
<1>. QED
  BY <1>1, FwInvariance, PTL

\* Enabling the firewall and making deny its default leave SSH open for every
\* client the check was not misled about, as long as nobody changed the rules
\* meanwhile (firewall.py 267): those some rule lets in when a rule mentions
\* 22, and those no other rule denies when none does.
THEOREM SshStaysOpen == FwSpec => ClosingKeepsSshOpen
<1>1. FwInv /\ [FwNext]_fwVars =>
        [fwReq # NoFwReq /\ fwReq' = NoFwReq /\ ((fwActive' /\ ~fwActive) \/ fwPolicy' # fwPolicy)
         => \A c \in FwClients : SshOpen(c)' \/ c \in fwReq.misled \/ fwReq.touched]_fwVars
  <2>. SUFFICES ASSUME FwInv, FwNext, fwReq # NoFwReq, fwReq' = NoFwReq,
                       (fwActive' /\ ~fwActive) \/ fwPolicy' # fwPolicy,
                       NEW c \in FwClients, c \notin fwReq.misled, ~fwReq.touched
                PROVE  SshOpen(c)'
    BY DEF fwVars
  <2>1. SetEnabled \/ SetDeny \/ FwCommandFails
    <3>1. CASE AddFwRule \/ DeleteFwRule
      BY <3>1 DEF AddFwRule, DeleteFwRule
    <3>2. CASE DisableFw \/ OpenDefault
      BY <3>2 DEF DisableFw, OpenDefault
    <3>3. CASE CheckSsh("enable") \/ CheckSsh("deny") \/ AllowSsh
      BY <3>3 DEF CheckSsh, AllowSsh
    <3>. QED
      BY <3>1, <3>2, <3>3 DEF FwNext
  <2>2. fwReq.next = "set" /\ UNCHANGED fwRules
    BY <2>1 DEF SetEnabled, SetDeny, FwCommandFails
  <2>3. LetIn(c)
    BY <2>2 DEF FwInv, SshSeenOpen
  <2>. QED
    BY <2>2, <2>3 DEF SshOpen, LetIn, RulesFor
<1>. QED
  BY <1>1, FwInvariance, PTL DEF FwSpec, ClosingKeepsSshOpen

(*************************************************************************)
(* WebAccess, for any sites and number of starts and requests: nginx     *)
(* enters where a repair has let it in and not PHP's scratch space, and  *)
(* the migration ends only with every site served.                       *)
(*************************************************************************)

WaSteps == {"next", "grant", "defaults", "revoke", "group", "check"}
WaJobs == [step : WaSteps, left : SUBSET WaSites, all : BOOLEAN, site : WaSites \cup {"none"},
           force : BOOLEAN, failed : SUBSET WaSites]
WaChmods == [step : {"reassert"}, site : WaSites, parts : SUBSET WaParts]

\* A step other than that to the next site is of one.
WaTypes ==
    /\ waAcc \in [WaSites -> SUBSET WaParts] /\ waDfl \in [WaSites -> SUBSET WaParts]
    /\ waMode \in [WaSites -> SUBSET WaParts]
    /\ waGroup \subseteq WaSites /\ waQueue \subseteq WaSites \cup {"all"}
    /\ waFixed \cup waLocked \cup waTmpOpen \cup waTouched \subseteq WaSites
    /\ waMarker \in BOOLEAN
    /\ waJob \in WaJobs \cup {WaIdle} /\ (waJob # WaIdle /\ ~WaAt("next") => waJob.site \in WaSites)
    /\ waChmod \in WaChmods \cup {WaIdle}

\* The job is at one of some steps for a site.
WaDoes(s, steps) == waJob.step \in steps /\ waJob.site = s

\* Only a job that will yet close tmp has it open, unless that is known.
WaTmp(s) == "tmp" \in waAcc[s] \cup waDfl[s] => s \in waTmpOpen \/ WaDoes(s, {"defaults", "revoke"})

\* What the job has granted is still there, unless the file manager came in between.
WaJobGranted(s) ==
    s \notin waTouched =>
        /\ WaDoes(s, {"defaults", "revoke"}) => WaParts \subseteq waAcc[s]
        /\ WaDoes(s, {"revoke"}) => WaParts \subseteq waDfl[s]

\* A site that was granted whole has its grant where no chmod has just reset it.
WaHolds(s) ==
    s \in waFixed \ waLocked =>
        LET reset == IF waChmod # WaIdle /\ waChmod.site = s THEN waChmod.parts ELSE {} IN
        /\ "root" \in reset \/ "root" \in waAcc[s] \cap waDfl[s]
        /\ "webroot" \in reset \/ "webroot" \in waAcc[s]

\* A site the migration has passed without a failure is served.
WaPassed(s) ==
    waJob # WaIdle /\ waJob.all /\ waJob.failed = {} =>
        s \in waJob.left \cup waTouched \/ WaDoes(s, WaSteps \ {"next"}) \/ WaServed(s)

WaOf(s) == WaTmp(s) /\ WaJobGranted(s) /\ WaHolds(s) /\ WaPassed(s)
WaInv == WaTypes /\ \A s \in WaSites : WaOf(s)

\* What of the state the facts about one site look at.
LEMMA WaSame ==
    ASSUME NEW s \in WaSites, WaOf(s), waAcc'[s] = waAcc[s], waDfl'[s] = waDfl[s], waMode'[s] = waMode[s],
           s \in waGroup => s \in waGroup', (s \in waTmpOpen) => (s \in waTmpOpen'),
           s \in waTouched => s \in waTouched', s \in waFixed' \ waLocked' => s \in waFixed \ waLocked,
           waJob' = waJob, waChmod' = waChmod
    PROVE  WaOf(s)'
<1>1. WaTmp(s)' /\ WaJobGranted(s)' /\ WaHolds(s)'
  BY DEF WaOf, WaTmp, WaJobGranted, WaHolds, WaDoes
<1>2. WaServed(s) => WaServed(s)'
  BY DEF WaServed, WaMayEnter
<1> QED
  BY <1>1, <1>2 DEF WaOf, WaPassed, WaDoes

\* Without a job and without a chmod only two facts are left.
LEMMA WaAtRest ==
    ASSUME NEW s, waJob' = WaIdle, WaHolds(s)', "tmp" \in waAcc'[s] \cup waDfl'[s] => s \in waTmpOpen'
    PROVE  WaOf(s)'
  BY DEF WaOf, WaTmp, WaJobGranted, WaPassed, WaDoes, WaIdle

LEMMA WaInitial == WaInit => WaInv
<1> SUFFICES ASSUME WaInit PROVE WaInv
  OBVIOUS
<1>1. WaTypes
  BY DEF WaInit, WaTypes, WaParts
<1>2. \A s \in WaSites : WaOf(s)
  BY DEF WaInit, WaOf, WaTmp, WaJobGranted, WaHolds, WaPassed, WaDoes, WaIdle, WaParts
<1> QED
  BY <1>1, <1>2 DEF WaInv

LEMMA WaStartsKeeps ==
    ASSUME WaInv, WaPanelStarts
    PROVE  WaInv'
<1>1. /\ waJob' = WaIdle /\ waChmod' = WaIdle /\ waTouched' = {}
      /\ UNCHANGED <<waAcls, waMarker, waAsked, waFixed>>
      /\ waTmpOpen' = waTmpOpen \cup {s \in WaSites : waJob # WaIdle /\ "tmp" \in waAcc[s] \cup waDfl[s]}
      /\ waLocked' = waLocked \cup {s \in WaSites : waChmod # WaIdle /\ waChmod.site = s}
      /\ waQueue' \subseteq {"all"}
  BY DEF WaPanelStarts
<1>2. WaTypes'
  BY <1>1 DEF WaInv, WaTypes, waAcls
<1>3. ASSUME NEW s \in WaSites PROVE WaOf(s)'
  <2>1. WaOf(s)
    BY DEF WaInv
  <2>2. WaHolds(s)'
    BY <1>1, <2>1 DEF WaOf, WaHolds, waAcls
  <2>3. "tmp" \in waAcc'[s] \cup waDfl'[s] => s \in waTmpOpen'
    BY <1>1, <2>1 DEF WaOf, WaTmp, WaDoes, WaIdle, waAcls
  <2> QED
    BY <1>1, <2>2, <2>3, WaAtRest
<1> QED
  BY <1>2, <1>3 DEF WaInv

LEMMA WaAskKeeps ==
    ASSUME WaInv, NEW s \in WaSites, AskRepair(s)
    PROVE  WaInv'
<1>1. UNCHANGED <<waAcls, waMarker, waJob, waChmod, waStarts, waHistory>> /\ waQueue' = waQueue \cup {s}
  BY DEF AskRepair
<1>2. WaTypes'
  BY <1>1 DEF WaInv, WaTypes, waAcls, waHistory, WaAt
<1>3. \A k \in WaSites : WaOf(k)'
  BY <1>1, WaSame DEF WaInv, waAcls, waHistory
<1> QED
  BY <1>2, <1>3 DEF WaInv

LEMMA WaBeginsKeeps ==
    ASSUME WaInv, RepairBegins
    PROVE  WaInv'
<1>1. /\ waJob = WaIdle /\ UNCHANGED <<waAcls, waMarker, waChmod, waStarts, waAsked, waHistory>>
      /\ \E job \in waQueue : waQueue' = waQueue \ {job} /\ waJob' = WaJobOf(job)
  BY DEF RepairBegins
<1>2. PICK job \in waQueue : waQueue' = waQueue \ {job} /\ waJob' = WaJobOf(job)
  BY <1>1
<1>3. /\ waJob' \in WaJobs /\ waJob'.step = "next" /\ (waJob'.all => waJob'.left = WaSites)
  BY <1>2 DEF WaJobOf, WaJobs, WaSteps, WaInv, WaTypes
<1>4. WaTypes'
  BY <1>1, <1>2, <1>3 DEF WaInv, WaTypes, waAcls, waHistory, WaAt
<1>5. ASSUME NEW s \in WaSites PROVE WaOf(s)'
  <2>1. WaOf(s)
    BY DEF WaInv
  <2>2. WaTmp(s)'
    BY <1>1, <2>1 DEF WaOf, WaTmp, WaDoes, WaIdle, waAcls, waHistory
  <2>3. WaJobGranted(s)' /\ WaPassed(s)'
    BY <1>3 DEF WaJobGranted, WaPassed, WaDoes
  <2>4. WaHolds(s)'
    BY <1>1, <2>1 DEF WaOf, WaHolds, waAcls, waHistory
  <2> QED
    BY <2>2, <2>3, <2>4 DEF WaOf
<1> QED
  BY <1>4, <1>5 DEF WaInv

\* What a step of the job makes of it.
LEMMA WaJobStep ==
    ASSUME WaTypes, NEW step \in WaSteps, WaAt(step)
    PROVE  /\ waJob \in WaJobs /\ waJob # WaIdle /\ waJob.step = step
           /\ step # "next" => waJob.site \in WaSites
           /\ \A next \in WaSteps :
                /\ WaStep(next) \in WaJobs /\ WaStep(next).step = next /\ WaStep(next).site = waJob.site
                /\ WaStep(next).left = waJob.left /\ WaStep(next).all = waJob.all
                /\ WaStep(next).failed = waJob.failed /\ WaStep(next).force = waJob.force
<1>1. "idle" \notin WaSteps /\ WaIdle.step = "idle"
  BY DEF WaSteps, WaIdle
<1>2. waJob \in WaJobs /\ waJob # WaIdle /\ waJob.step = step
  BY <1>1 DEF WaTypes, WaAt
<1> QED
  BY <1>2 DEF WaTypes, WaAt, WaStep, WaJobs

\* Of a site the job is not at, nothing is changed by its steps.
LEMMA WaElsewhere ==
    ASSUME WaInv, NEW s \in WaSites, waJob # WaIdle, s # waJob.site,
           waAcc'[s] = waAcc[s], waDfl'[s] = waDfl[s], waMode' = waMode,
           s \in waGroup => s \in waGroup', (s \in waTmpOpen) => (s \in waTmpOpen'), waTouched' = waTouched,
           s \in waFixed' \ waLocked' => s \in waFixed \ waLocked, waChmod' = waChmod,
           waJob'.site = waJob.site, waJob'.left = waJob.left, waJob'.all = waJob.all,
           waJob.failed \subseteq waJob'.failed
    PROVE  WaOf(s)'
<1>1. WaOf(s)
  BY DEF WaInv
<1>2. WaTmp(s)' /\ WaJobGranted(s)' /\ WaHolds(s)'
  BY <1>1 DEF WaOf, WaTmp, WaJobGranted, WaHolds, WaDoes
<1>3. WaServed(s) => WaServed(s)'
  BY DEF WaServed, WaMayEnter
<1> QED
  BY <1>1, <1>2, <1>3 DEF WaOf, WaPassed, WaDoes

LEMMA WaNextSiteKeeps ==
    ASSUME WaInv, NextSite
    PROVE  WaInv'
<1>1. PICK s \in waJob.left :
          /\ WaGoes([waJob EXCEPT !.step = IF waJob.force \/ ~WaGranted(s) THEN "grant" ELSE "check",
                                  !.site = s, !.left = @ \ {s}])
          /\ waTouched' = waTouched \ {s}
  BY DEF NextSite
<1>2. UNCHANGED <<waAcls, waMarker, waQueue, waChmod, waFixed, waLocked, waTmpOpen>>
  BY <1>1 DEF NextSite, WaGoes
<1>3. /\ waJob \in WaJobs /\ waJob # WaIdle /\ waJob.step = "next"
  BY WaJobStep DEF NextSite, WaInv, WaSteps
<1>4. /\ waJob' \in WaJobs /\ waJob'.step \in {"grant", "check"} /\ waJob'.site = s /\ s \in WaSites
      /\ waJob'.left = waJob.left \ {s} /\ waJob'.all = waJob.all /\ waJob'.failed = waJob.failed
  BY <1>1, <1>3 DEF WaGoes, WaJobs, WaSteps
<1>5. WaTypes'
  BY <1>1, <1>2, <1>4 DEF WaInv, WaTypes, waAcls, WaAt
<1>6. ASSUME NEW k \in WaSites PROVE WaOf(k)'
  <2>1. WaOf(k)
    BY DEF WaInv
  <2>2. WaTmp(k)' /\ WaHolds(k)'
    BY <1>2, <1>3, <2>1 DEF WaOf, WaTmp, WaHolds, WaDoes, waAcls
  <2>3. WaJobGranted(k)'
    BY <1>4 DEF WaJobGranted, WaDoes
  <2>4. WaPassed(k)'
    <3>1. CASE k = s
      BY <1>4, <3>1 DEF WaPassed, WaDoes, WaSteps
    <3>2. CASE k # s
      <4>1. WaServed(k)' <=> WaServed(k)
        BY <1>2 DEF WaServed, WaMayEnter, waAcls
      <4> QED
        BY <1>1, <1>3, <1>4, <2>1, <3>2, <4>1 DEF WaOf, WaPassed, WaDoes
    <3> QED
      BY <3>1, <3>2
  <2> QED
    BY <2>2, <2>3, <2>4 DEF WaOf
<1> QED
  BY <1>5, <1>6 DEF WaInv

LEMMA WaGrantKeeps ==
    ASSUME WaInv, GrantAccess
    PROVE  WaInv'
<1>1. PICK ps \in WaWalks :
          /\ waAcc' = WaAdd(waAcc, ps)
          /\ WaGoes(WaStep(IF ps = WaParts THEN "defaults" ELSE "group"))
          /\ waTmpOpen' = IF "tmp" \in ps /\ ps # WaParts THEN waTmpOpen \cup {waJob.site} ELSE waTmpOpen
  BY DEF GrantAccess
<1>2. UNCHANGED <<waDfl, waMode, waGroup, waFixed, waLocked, waTouched, waMarker, waQueue, waChmod>>
  BY <1>1 DEF GrantAccess, WaGoes
<1>3. /\ waJob \in WaJobs /\ waJob # WaIdle /\ waJob.step = "grant" /\ waJob.site \in WaSites
  BY WaJobStep DEF GrantAccess, WaInv, WaSteps
<1>4. /\ waJob' \in WaJobs /\ waJob'.step = (IF ps = WaParts THEN "defaults" ELSE "group") /\ waJob'.site = waJob.site
      /\ waJob'.left = waJob.left /\ waJob'.all = waJob.all /\ waJob'.failed = waJob.failed
  BY <1>1, <1>3 DEF WaGoes, WaJobs, WaSteps, WaStep
<1>5. /\ ps \subseteq WaParts /\ waAcc \in [WaSites -> SUBSET WaParts]
      /\ waAcc' = [waAcc EXCEPT ![waJob.site] = @ \cup ps]
  BY <1>1 DEF WaWalks, WaParts, WaInv, WaTypes, WaAdd
<1>6. WaTypes'
  BY <1>1, <1>2, <1>3, <1>4, <1>5 DEF WaInv, WaTypes, WaAt
<1>7. ASSUME NEW k \in WaSites PROVE WaOf(k)'
  <2>1. WaOf(k)
    BY DEF WaInv
  <2>2. CASE k # waJob.site
    BY <1>1, <1>2, <1>3, <1>4, <1>5, <2>2, WaElsewhere
  <2>3. CASE k = waJob.site
    <3>1. waAcc'[k] = waAcc[k] \cup ps
      BY <1>5, <2>3
    <3>2. WaTmp(k)' /\ WaPassed(k)'
      BY <1>1, <1>2, <1>3, <1>4, <2>1, <2>3, <3>1 DEF WaOf, WaTmp, WaPassed, WaDoes, WaSteps
    <3>3. WaJobGranted(k)'
      BY <1>4, <2>3, <3>1 DEF WaJobGranted, WaDoes
    <3>4. WaHolds(k)'
      BY <1>2, <2>1, <3>1 DEF WaOf, WaHolds
    <3> QED
      BY <3>2, <3>3, <3>4 DEF WaOf
  <2> QED
    BY <2>2, <2>3
<1> QED
  BY <1>6, <1>7 DEF WaInv

LEMMA WaDefaultsKeeps ==
    ASSUME WaInv, GrantDefaults
    PROVE  WaInv'
<1>1. PICK ps \in WaWalks :
          /\ waDfl' = WaAdd(waDfl, ps)
          /\ WaGoes(WaStep(IF ps = WaParts THEN "revoke" ELSE "group"))
          /\ waTmpOpen' = IF ps = WaParts THEN waTmpOpen ELSE waTmpOpen \cup {waJob.site}
  BY DEF GrantDefaults
<1>2. UNCHANGED <<waAcc, waMode, waGroup, waFixed, waLocked, waTouched, waMarker, waQueue, waChmod>>
  BY <1>1 DEF GrantDefaults, WaGoes
<1>3. /\ waJob \in WaJobs /\ waJob # WaIdle /\ waJob.step = "defaults" /\ waJob.site \in WaSites
  BY WaJobStep DEF GrantDefaults, WaInv, WaSteps
<1>4. /\ waJob' \in WaJobs /\ waJob'.step = (IF ps = WaParts THEN "revoke" ELSE "group") /\ waJob'.site = waJob.site
      /\ waJob'.left = waJob.left /\ waJob'.all = waJob.all /\ waJob'.failed = waJob.failed
  BY <1>1, <1>3 DEF WaGoes, WaJobs, WaSteps, WaStep
<1>5. /\ ps \subseteq WaParts /\ waDfl \in [WaSites -> SUBSET WaParts]
      /\ waDfl' = [waDfl EXCEPT ![waJob.site] = @ \cup ps]
  BY <1>1 DEF WaWalks, WaParts, WaInv, WaTypes, WaAdd
<1>6. WaTypes'
  BY <1>1, <1>2, <1>3, <1>4, <1>5 DEF WaInv, WaTypes, WaAt
<1>7. ASSUME NEW k \in WaSites PROVE WaOf(k)'
  <2>1. WaOf(k)
    BY DEF WaInv
  <2>2. CASE k # waJob.site
    BY <1>1, <1>2, <1>3, <1>4, <1>5, <2>2, WaElsewhere
  <2>3. CASE k = waJob.site
    <3>1. waDfl'[k] = waDfl[k] \cup ps
      BY <1>5, <2>3
    <3>2. WaTmp(k)' /\ WaPassed(k)'
      BY <1>1, <1>2, <1>3, <1>4, <2>1, <2>3, <3>1 DEF WaOf, WaTmp, WaPassed, WaDoes, WaSteps
    <3>3. WaJobGranted(k)'
      BY <1>2, <1>3, <1>4, <2>1, <2>3, <3>1 DEF WaOf, WaJobGranted, WaDoes
    <3>4. WaHolds(k)'
      BY <1>2, <2>1, <3>1 DEF WaOf, WaHolds
    <3> QED
      BY <3>2, <3>3, <3>4 DEF WaOf
  <2> QED
    BY <2>2, <2>3
<1> QED
  BY <1>6, <1>7 DEF WaInv

LEMMA WaRevokeKeeps ==
    ASSUME WaInv, RevokeTmp
    PROVE  WaInv'
<1>1. PICK acc \in {{}, {"tmp"}}, dfl \in {{}, {"tmp"}} :
          /\ waAcc' = [waAcc EXCEPT ![waJob.site] = @ \ acc]
          /\ waDfl' = [waDfl EXCEPT ![waJob.site] = @ \ dfl]
          /\ waTmpOpen' = IF "tmp" \in acc \cap dfl THEN waTmpOpen \ {waJob.site}
                          ELSE waTmpOpen \cup {waJob.site}
  BY DEF RevokeTmp
<1>2. /\ UNCHANGED <<waMode, waGroup, waTouched, waMarker, waQueue, waChmod>>
      /\ waFixed' = waFixed \cup ({waJob.site} \ waTouched) /\ waLocked' = waLocked \ ({waJob.site} \ waTouched)
  BY DEF RevokeTmp, WaGoes
<1>3. /\ waJob \in WaJobs /\ waJob # WaIdle /\ waJob.step = "revoke" /\ waJob.site \in WaSites
  BY WaJobStep DEF RevokeTmp, WaInv, WaSteps
<1>4. /\ waJob' \in WaJobs /\ waJob'.step = "check" /\ waJob'.site = waJob.site
      /\ waJob'.left = waJob.left /\ waJob'.all = waJob.all /\ waJob'.failed = waJob.failed
  BY <1>3 DEF RevokeTmp, WaGoes, WaJobs, WaSteps, WaStep
<1>5. waAcc \in [WaSites -> SUBSET WaParts] /\ waDfl \in [WaSites -> SUBSET WaParts]
  BY DEF WaInv, WaTypes
<1>6. WaTypes'
  BY <1>1, <1>2, <1>3, <1>4, <1>5 DEF WaInv, WaTypes, WaAt
<1>7. ASSUME NEW k \in WaSites PROVE WaOf(k)'
  <2>1. WaOf(k)
    BY DEF WaInv
  <2>2. CASE k # waJob.site
    <3>1. waAcc'[k] = waAcc[k] /\ waDfl'[k] = waDfl[k] /\ (k \in waTmpOpen => k \in waTmpOpen')
      BY <1>1, <1>5, <2>2
    <3>2. k \in waFixed' \ waLocked' => k \in waFixed \ waLocked
      BY <1>2, <2>2
    <3> QED
      BY <1>2, <1>3, <1>4, <2>2, <3>1, <3>2, WaElsewhere
  <2>3. CASE k = waJob.site
    <3>1. /\ waAcc'[k] = waAcc[k] \ acc /\ waDfl'[k] = waDfl[k] \ dfl
          /\ "tmp" \in acc \cap dfl \/ k \in waTmpOpen'
      BY <1>1, <1>5, <2>3
    <3>2. WaTmp(k)'
      BY <3>1 DEF WaTmp
    <3>3. WaPassed(k)' /\ WaJobGranted(k)'
      BY <1>3, <1>4, <2>3 DEF WaPassed, WaJobGranted, WaDoes, WaSteps
    <3>4. WaHolds(k)'
      <4>1. k \notin waTouched => {"root", "webroot"} \subseteq waAcc[k] \cap waDfl[k]
        BY <1>3, <2>1, <2>3 DEF WaOf, WaJobGranted, WaDoes, WaParts
      <4>2. k \in waTouched => (k \in waFixed' \ waLocked' => k \in waFixed \ waLocked)
        BY <1>2, <2>3
      <4> QED
        BY <1>2, <2>1, <3>1, <4>1, <4>2 DEF WaOf, WaHolds
    <3> QED
      BY <3>2, <3>3, <3>4 DEF WaOf
  <2> QED
    BY <2>2, <2>3
<1> QED
  BY <1>6, <1>7 DEF WaInv

LEMMA WaGroupKeeps ==
    ASSUME WaInv, JoinGroup \/ JoinFails
    PROVE  WaInv'
<1>1. /\ UNCHANGED <<waAcc, waDfl, waMode, waHistory, waMarker, waQueue, waChmod>>
      /\ waGroup' = waGroup \cup {waJob.site} \/ waGroup' = waGroup
  BY DEF JoinGroup, JoinFails, WaGoes, waAcls
<1>2. /\ waJob \in WaJobs /\ waJob # WaIdle /\ waJob.step = "group" /\ waJob.site \in WaSites
  BY WaJobStep DEF JoinGroup, JoinFails, WaInv, WaSteps
<1>3. /\ waJob' \in WaJobs /\ waJob'.site = waJob.site
      /\ waJob'.left = waJob.left /\ waJob'.all = waJob.all /\ waJob.failed \subseteq waJob'.failed
      /\ waJob'.step = "check" \/ (waJob'.step = "next" /\ waJob'.failed # {})
  <2>1. CASE JoinGroup
    <3>1. waJob' = [waJob EXCEPT !.step = "check"]
      BY <2>1 DEF JoinGroup, WaGoes, WaStep
    <3> QED
      BY <1>2, <3>1 DEF WaJobs, WaSteps
  <2>2. CASE JoinFails
    <3>1. waJob' = [[waJob EXCEPT !.step = "next"] EXCEPT !.failed = @ \cup {waJob.site}]
      BY <2>2 DEF JoinFails, WaGoes, WaStep
    <3> QED
      BY <1>2, <3>1 DEF WaJobs, WaSteps
  <2> QED
    BY <2>1, <2>2
<1>4. WaTypes'
  BY <1>1, <1>2, <1>3 DEF WaInv, WaTypes, WaAt, waHistory
<1>5. ASSUME NEW k \in WaSites PROVE WaOf(k)'
  <2>1. WaOf(k)
    BY DEF WaInv
  <2>2. CASE k # waJob.site
    BY <1>1, <1>2, <1>3, <2>2, WaElsewhere DEF waHistory
  <2>3. CASE k = waJob.site
    <3>1. WaTmp(k)' /\ WaHolds(k)'
      BY <1>1, <1>2, <2>1 DEF WaOf, WaTmp, WaHolds, WaDoes, waHistory
    <3>2. WaJobGranted(k)' /\ WaPassed(k)'
      BY <1>3, <2>3 DEF WaJobGranted, WaPassed, WaDoes, WaSteps
    <3> QED
      BY <3>1, <3>2 DEF WaOf
  <2> QED
    BY <2>2, <2>3
<1> QED
  BY <1>4, <1>5 DEF WaInv

LEMMA WaCheckKeeps ==
    ASSUME WaInv, CheckAccess
    PROVE  WaInv'
<1>1. UNCHANGED <<waAcls, waHistory, waMarker, waQueue, waChmod>>
  BY DEF CheckAccess, WaGoes
<1>2. /\ waJob \in WaJobs /\ waJob # WaIdle /\ waJob.step = "check" /\ waJob.site \in WaSites
  BY WaJobStep DEF CheckAccess, WaInv, WaSteps
<1>3. PICK ok \in {WaServed(waJob.site)} \cup (IF WaMayEnter(waJob.site, "inner") THEN {} ELSE {FALSE}) :
          WaGoes(IF ok THEN [WaStep("next") EXCEPT !.force = ~waJob.all]
                 ELSE IF ~waJob.force THEN [WaStep("grant") EXCEPT !.force = TRUE]
                 ELSE [WaStep("next") EXCEPT !.failed = @ \cup {waJob.site}, !.force = ~waJob.all])
  BY DEF CheckAccess
<1>4. waJob' = IF ok THEN [[waJob EXCEPT !.step = "next"] EXCEPT !.force = ~waJob.all]
               ELSE IF ~waJob.force THEN [[waJob EXCEPT !.step = "grant"] EXCEPT !.force = TRUE]
               ELSE [[waJob EXCEPT !.step = "next"] EXCEPT !.failed = @ \cup {waJob.site}, !.force = ~waJob.all]
  BY <1>3 DEF WaGoes, WaStep
<1>5. ok => WaServed(waJob.site)
  BY <1>3
<1>6. /\ waJob' \in WaJobs /\ waJob'.site = waJob.site
      /\ waJob'.left = waJob.left /\ waJob'.all = waJob.all /\ waJob.failed \subseteq waJob'.failed
      /\ \/ waJob'.step = "grant"
         \/ waJob'.step = "next" /\ (waJob'.failed # {} \/ WaServed(waJob.site))
  <2>1. CASE ok
    BY <1>2, <1>4, <1>5, <2>1 DEF WaJobs, WaSteps
  <2>2. CASE ~ok /\ ~waJob.force
    BY <1>2, <1>4, <2>2 DEF WaJobs, WaSteps
  <2>3. CASE ~ok /\ waJob.force
    BY <1>2, <1>4, <2>3 DEF WaJobs, WaSteps
  <2> QED
    BY <2>1, <2>2, <2>3
<1>7. WaTypes'
  BY <1>1, <1>2, <1>6 DEF WaInv, WaTypes, WaAt, waHistory, waAcls
<1>8. ASSUME NEW k \in WaSites PROVE WaOf(k)'
  <2>1. WaOf(k)
    BY DEF WaInv
  <2>2. CASE k # waJob.site
    BY <1>1, <1>2, <1>6, <2>2, WaElsewhere DEF waHistory, waAcls
  <2>3. CASE k = waJob.site
    <3>1. WaTmp(k)' /\ WaHolds(k)'
      BY <1>1, <1>2, <2>1 DEF WaOf, WaTmp, WaHolds, WaDoes, waHistory, waAcls
    <3>2. WaJobGranted(k)'
      BY <1>6 DEF WaJobGranted, WaDoes
    <3>3. WaServed(k) => WaServed(k)'
      BY <1>1 DEF WaServed, WaMayEnter, waAcls
    <3>4. WaPassed(k)'
      BY <1>6, <2>3, <3>3 DEF WaPassed, WaDoes, WaSteps
    <3> QED
      BY <3>1, <3>2, <3>4 DEF WaOf
  <2> QED
    BY <2>2, <2>3
<1> QED
  BY <1>7, <1>8 DEF WaInv

LEMMA WaEndsKeeps ==
    ASSUME WaInv, RepairEnds
    PROVE  WaInv'
<1>1. /\ waJob' = WaIdle /\ waTouched' = {} /\ waMarker' \in {TRUE, waMarker}
      /\ UNCHANGED <<waAcls, waQueue, waChmod, waFixed, waLocked, waTmpOpen>>
  BY DEF RepairEnds
<1>2. waJob.step = "next"
  BY DEF RepairEnds, WaAt
<1>3. WaTypes'
  BY <1>1 DEF WaInv, WaTypes, waAcls
<1>4. ASSUME NEW s \in WaSites PROVE WaOf(s)'
  <2>1. WaOf(s)
    BY DEF WaInv
  <2>2. WaHolds(s)'
    BY <1>1, <2>1 DEF WaOf, WaHolds, waAcls
  <2>3. "tmp" \in waAcc'[s] \cup waDfl'[s] => s \in waTmpOpen'
    BY <1>1, <1>2, <2>1 DEF WaOf, WaTmp, WaDoes, waAcls
  <2> QED
    BY <1>1, <2>2, <2>3, WaAtRest
<1> QED
  BY <1>3, <1>4 DEF WaInv

LEMMA WaRaisesKeeps ==
    ASSUME WaInv, RepairRaises
    PROVE  WaInv'
<1>1. /\ waJob' = WaIdle /\ waTouched' = {}
      /\ waTmpOpen' = waTmpOpen \cup {s \in WaSites : "tmp" \in waAcc[s] \cup waDfl[s]}
      /\ UNCHANGED <<waAcls, waMarker, waQueue, waChmod, waFixed, waLocked>>
  BY DEF RepairRaises
<1>2. WaTypes'
  BY <1>1 DEF WaInv, WaTypes, waAcls
<1>3. ASSUME NEW s \in WaSites PROVE WaOf(s)'
  <2>1. WaOf(s)
    BY DEF WaInv
  <2>2. WaHolds(s)'
    BY <1>1, <2>1 DEF WaOf, WaHolds, waAcls
  <2>3. "tmp" \in waAcc'[s] \cup waDfl'[s] => s \in waTmpOpen'
    BY <1>1 DEF waAcls
  <2> QED
    BY <1>1, <2>2, <2>3, WaAtRest
<1> QED
  BY <1>2, <1>3 DEF WaInv

\* What the file manager does to a site that it has, or may have, locked nginx
\* out of: it has only to know it, and whether it has opened tmp.
LEMMA WaLocksKeeps ==
    ASSUME WaInv, NEW s \in WaSites, s \in waLocked', waLocked' \subseteq waLocked \cup {s}, waLocked \subseteq waLocked',
           NEW acc \in SUBSET WaParts, NEW dfl \in SUBSET WaParts, NEW mode \in SUBSET WaParts,
           waAcc' = [waAcc EXCEPT ![s] = acc], waDfl' = [waDfl EXCEPT ![s] = dfl],
           waMode' = [waMode EXCEPT ![s] = mode],
           "tmp" \in acc \cup dfl => s \in waTmpOpen' \/ "tmp" \in waAcc[s] \cup waDfl[s],
           waTmpOpen \subseteq waTmpOpen', waTmpOpen' \subseteq waTmpOpen \cup {s},
           waTouched' = (IF waJob = WaIdle THEN {} ELSE waTouched \cup {s}),
           waChmod' = waChmod \/ (waChmod' = WaIdle /\ waChmod # WaIdle /\ waChmod.site = s),
           UNCHANGED <<waGroup, waMarker, waQueue, waJob, waFixed>>
    PROVE  WaInv'
<1>1. /\ WaTypes /\ waAcc \in [WaSites -> SUBSET WaParts] /\ waDfl \in [WaSites -> SUBSET WaParts]
      /\ waMode \in [WaSites -> SUBSET WaParts]
  BY DEF WaInv, WaTypes
<1>2. WaTypes'
  BY <1>1 DEF WaTypes, WaAt
<1>3. ASSUME NEW k \in WaSites PROVE WaOf(k)'
  <2>1. WaOf(k)
    BY DEF WaInv
  <2>2. CASE k # s
    <3>1. waAcc'[k] = waAcc[k] /\ waDfl'[k] = waDfl[k] /\ waMode'[k] = waMode[k]
      BY <1>1, <2>2
    <3>2. WaTmp(k)'
      BY <2>1, <3>1 DEF WaOf, WaTmp, WaDoes
    <3>3. WaHolds(k)'
      BY <2>1, <2>2, <3>1 DEF WaOf, WaHolds
    <3>4. WaServed(k) => WaServed(k)'
      BY <3>1 DEF WaServed, WaMayEnter
    <3>5. WaJobGranted(k)' /\ WaPassed(k)'
      <4>1. CASE waJob = WaIdle
        BY <4>1 DEF WaJobGranted, WaPassed, WaDoes, WaIdle
      <4>2. CASE waJob # WaIdle
        BY <2>1, <2>2, <3>1, <3>4, <4>2 DEF WaOf, WaJobGranted, WaPassed, WaDoes
      <4> QED
        BY <4>1, <4>2
    <3> QED
      BY <3>2, <3>3, <3>5 DEF WaOf
  <2>3. CASE k = s
    <3>1. waAcc'[k] = acc /\ waDfl'[k] = dfl
      BY <1>1, <2>3
    <3>2. WaTmp(k)'
      BY <2>1, <2>3, <3>1 DEF WaOf, WaTmp, WaDoes
    <3>3. WaHolds(k)'
      BY <2>3 DEF WaHolds
    <3>4. WaJobGranted(k)' /\ WaPassed(k)'
      BY <2>3 DEF WaJobGranted, WaPassed, WaDoes, WaIdle
    <3> QED
      BY <3>2, <3>3, <3>4 DEF WaOf
  <2> QED
    BY <2>2, <2>3
<1> QED
  BY <1>2, <1>3 DEF WaInv

LEMMA WaCutKeeps ==
    ASSUME WaInv, NEW s \in WaSites, NEW ps \in SUBSET WaParts, ChmodIsCut(s, ps)
    PROVE  WaInv'
<1>1. PICK qs \in SUBSET ps : /\ waAcc' = [waAcc EXCEPT ![s] = @ \ qs]
                              /\ waMode' = [waMode EXCEPT ![s] = @ \ qs]
  BY DEF ChmodIsCut
<1>2. /\ waLocked' = waLocked \cup {s}
      /\ waTouched' = IF waJob = WaIdle THEN {} ELSE waTouched \cup {s}
      /\ UNCHANGED <<waDfl, waGroup, waMarker, waQueue, waJob, waChmod, waFixed, waTmpOpen>>
  BY DEF ChmodIsCut
<1>3. /\ waAcc \in [WaSites -> SUBSET WaParts] /\ waDfl \in [WaSites -> SUBSET WaParts]
      /\ waMode \in [WaSites -> SUBSET WaParts]
  BY DEF WaInv, WaTypes
<1> DEFINE acc == waAcc[s] \ qs
           dfl == waDfl[s]
           mode == waMode[s] \ qs
<1>4. /\ acc \in SUBSET WaParts /\ dfl \in SUBSET WaParts /\ mode \in SUBSET WaParts
      /\ waAcc' = [waAcc EXCEPT ![s] = acc] /\ waDfl' = [waDfl EXCEPT ![s] = dfl]
      /\ waMode' = [waMode EXCEPT ![s] = mode]
      /\ "tmp" \in acc \cup dfl => "tmp" \in waAcc[s] \cup waDfl[s]
  BY <1>1, <1>2, <1>3
<1> HIDE DEF acc, dfl, mode
<1> QED
  BY <1>2, <1>4, WaLocksKeeps

LEMMA WaReassertFailsKeeps ==
    ASSUME WaInv, ReassertFails
    PROVE  WaInv'
<1>1. /\ waChmod # WaIdle /\ waChmod.site \in WaSites /\ waChmod.parts \in SUBSET WaParts
      /\ waAcc \in [WaSites -> SUBSET WaParts] /\ waDfl \in [WaSites -> SUBSET WaParts]
      /\ waMode \in [WaSites -> SUBSET WaParts]
  BY DEF ReassertFails, WaInv, WaTypes, WaChmods
<1>2. PICK s \in WaSites : s = waChmod.site
  BY <1>1
<1>3. PICK ps \in SUBSET WaParts : ps = IF "root" \in waAcc[s] \cap waDfl[s] THEN waChmod.parts ELSE {}
  BY <1>1
<1>4. PICK a \in SUBSET ps, d \in SUBSET ps :
          waAcc' = [waAcc EXCEPT ![s] = @ \cup a] /\ waDfl' = [waDfl EXCEPT ![s] = @ \cup d]
  BY <1>2, <1>3 DEF ReassertFails
<1>5. /\ waLocked' = waLocked \cup {s}
      /\ waTmpOpen' = IF "tmp" \in ps THEN waTmpOpen \cup {s} ELSE waTmpOpen
      /\ waChmod' = WaIdle
      /\ waTouched' = IF waJob = WaIdle THEN {} ELSE waTouched \cup {s}
      /\ UNCHANGED <<waMode, waGroup, waMarker, waQueue, waJob, waFixed>>
  BY <1>2, <1>3 DEF ReassertFails, WaChmodEnds
<1> DEFINE acc == waAcc[s] \cup a
           dfl == waDfl[s] \cup d
           mode == waMode[s]
<1>6. /\ acc \in SUBSET WaParts /\ dfl \in SUBSET WaParts /\ mode \in SUBSET WaParts
      /\ waAcc' = [waAcc EXCEPT ![s] = acc] /\ waDfl' = [waDfl EXCEPT ![s] = dfl]
      /\ waMode' = [waMode EXCEPT ![s] = mode]
      /\ "tmp" \in acc \cup dfl => s \in waTmpOpen' \/ "tmp" \in waAcc[s] \cup waDfl[s]
  BY <1>1, <1>3, <1>4, <1>5
<1> HIDE DEF acc, dfl, mode
<1> QED
  BY <1>1, <1>2, <1>5, <1>6, WaLocksKeeps

LEMMA WaChmodKeeps ==
    ASSUME WaInv, NEW s \in WaSites, NEW ps \in SUBSET WaParts, ChmodFolder(s, ps)
    PROVE  WaInv'
<1>1. /\ waChmod = WaIdle /\ waChmod' = [step |-> "reassert", site |-> s, parts |-> ps]
      /\ waAcc' = [waAcc EXCEPT ![s] = @ \ ps] /\ waMode' = [waMode EXCEPT ![s] = @ \ ps]
      /\ waTouched' = IF waJob = WaIdle THEN {} ELSE waTouched \cup {s}
      /\ UNCHANGED <<waDfl, waGroup, waMarker, waQueue, waJob, waFixed, waLocked, waTmpOpen>>
  BY DEF ChmodFolder
<1>2. WaTypes /\ waAcc \in [WaSites -> SUBSET WaParts] /\ waMode \in [WaSites -> SUBSET WaParts]
  BY DEF WaInv, WaTypes
<1>3. /\ waChmod' \in WaChmods /\ waChmod' # WaIdle /\ waChmod'.site = s /\ waChmod'.parts = ps
  BY <1>1 DEF WaChmods, WaIdle
<1>4. WaTypes'
  BY <1>1, <1>2, <1>3 DEF WaTypes, WaAt
<1>5. ASSUME NEW k \in WaSites PROVE WaOf(k)'
  <2>1. WaOf(k)
    BY DEF WaInv
  <2>2. /\ k # s => waAcc'[k] = waAcc[k] /\ waMode'[k] = waMode[k]
        /\ k = s => waAcc'[k] = waAcc[k] \ ps
    BY <1>1, <1>2
  <2>3. WaTmp(k)'
    BY <1>1, <2>1, <2>2 DEF WaOf, WaTmp, WaDoes
  <2>4. WaHolds(k)'
    BY <1>1, <1>3, <2>1, <2>2 DEF WaOf, WaHolds
  <2>5. WaJobGranted(k)' /\ WaPassed(k)'
    <3>1. CASE waJob = WaIdle
      BY <1>1, <3>1 DEF WaJobGranted, WaPassed, WaDoes, WaIdle
    <3>2. CASE waJob # WaIdle /\ k = s
      BY <1>1, <3>2 DEF WaJobGranted, WaPassed
    <3>3. CASE waJob # WaIdle /\ k # s
      <4>1. WaServed(k) => WaServed(k)'
        BY <1>1, <2>2, <3>3 DEF WaServed, WaMayEnter
      <4> QED
        BY <1>1, <2>1, <2>2, <3>3, <4>1 DEF WaOf, WaJobGranted, WaPassed, WaDoes
    <3> QED
      BY <3>1, <3>2, <3>3
  <2> QED
    BY <2>3, <2>4, <2>5 DEF WaOf
<1> QED
  BY <1>4, <1>5 DEF WaInv

LEMMA WaReassertKeeps ==
    ASSUME WaInv, Reassert
    PROVE  WaInv'
<1>1. /\ WaTypes /\ waChmod # WaIdle /\ waChmod.site \in WaSites /\ waChmod.parts \in SUBSET WaParts
      /\ waAcc \in [WaSites -> SUBSET WaParts] /\ waDfl \in [WaSites -> SUBSET WaParts]
  BY DEF Reassert, WaInv, WaTypes, WaChmods
<1>2. PICK s \in WaSites : s = waChmod.site
  BY <1>1
<1>3. PICK ps \in SUBSET WaParts : ps = IF "root" \in waAcc[s] \cap waDfl[s] THEN waChmod.parts ELSE {}
  BY <1>1
<1>4. /\ waAcc' = [waAcc EXCEPT ![s] = @ \cup ps] /\ waDfl' = [waDfl EXCEPT ![s] = @ \cup ps]
      /\ waLocked' = IF "root" \in waChmod.parts THEN waLocked \cup {s} ELSE waLocked
      /\ waTmpOpen' = IF "tmp" \in ps THEN waTmpOpen \cup {s} ELSE waTmpOpen
      /\ waChmod' = WaIdle
      /\ waTouched' = IF waJob = WaIdle THEN {} ELSE waTouched \cup {s}
      /\ UNCHANGED <<waMode, waGroup, waMarker, waQueue, waJob, waFixed>>
  BY <1>2, <1>3 DEF Reassert, WaChmodEnds
<1>5. WaTypes'
  BY <1>1, <1>4 DEF WaTypes, WaAt
<1>6. ASSUME NEW k \in WaSites PROVE WaOf(k)'
  <2>1. WaOf(k)
    BY DEF WaInv
  <2>2. CASE k # s
    <3>1. waAcc'[k] = waAcc[k] /\ waDfl'[k] = waDfl[k]
      BY <1>1, <1>4, <2>2
    <3>2. WaTmp(k)'
      BY <1>4, <2>1, <3>1 DEF WaOf, WaTmp, WaDoes
    <3>3. WaHolds(k)'
      BY <1>2, <1>4, <2>1, <2>2, <3>1 DEF WaOf, WaHolds
    <3>4. WaServed(k) => WaServed(k)'
      BY <1>4, <3>1 DEF WaServed, WaMayEnter
    <3>5. WaJobGranted(k)' /\ WaPassed(k)'
      <4>1. CASE waJob = WaIdle
        BY <1>4, <4>1 DEF WaJobGranted, WaPassed, WaDoes, WaIdle
      <4>2. CASE waJob # WaIdle
        BY <1>4, <2>1, <2>2, <3>1, <3>4, <4>2 DEF WaOf, WaJobGranted, WaPassed, WaDoes
      <4> QED
        BY <4>1, <4>2
    <3> QED
      BY <3>2, <3>3, <3>5 DEF WaOf
  <2>3. CASE k = s
    <3>1. waAcc'[k] = waAcc[k] \cup ps /\ waDfl'[k] = waDfl[k] \cup ps
      BY <1>1, <1>4, <2>3
    <3>2. WaTmp(k)'
      BY <1>4, <2>1, <2>3, <3>1 DEF WaOf, WaTmp, WaDoes
    <3>3. WaHolds(k)'
      <4>1. SUFFICES ASSUME k \in waFixed \ waLocked, "root" \notin waChmod.parts
                     PROVE  "root" \in waAcc'[k] \cap waDfl'[k] /\ "webroot" \in waAcc'[k]
        BY <1>4, <2>3 DEF WaHolds
      <4>2. "root" \in waAcc[k] \cap waDfl[k] /\ ("webroot" \in waChmod.parts \/ "webroot" \in waAcc[k])
        BY <1>1, <1>2, <2>1, <2>3, <4>1 DEF WaOf, WaHolds
      <4> QED
        BY <1>3, <2>3, <3>1, <4>2
    <3>4. WaJobGranted(k)' /\ WaPassed(k)'
      BY <1>4, <2>3 DEF WaJobGranted, WaPassed, WaDoes, WaIdle
    <3> QED
      BY <3>2, <3>3, <3>4 DEF WaOf
  <2> QED
    BY <2>2, <2>3
<1> QED
  BY <1>5, <1>6 DEF WaInv

LEMMA WaNextKeeps == WaInv /\ [WebAccessNext]_waVars => WaInv'
<1> SUFFICES ASSUME WaInv, [WebAccessNext]_waVars PROVE WaInv'
  OBVIOUS
<1>1. CASE WaPanelStarts
  BY <1>1, WaStartsKeeps
<1>2. CASE RepairBegins
  BY <1>2, WaBeginsKeeps
<1>3. CASE NextSite
  BY <1>3, WaNextSiteKeeps
<1>4. CASE GrantAccess
  BY <1>4, WaGrantKeeps
<1>5. CASE GrantDefaults
  BY <1>5, WaDefaultsKeeps
<1>6. CASE RevokeTmp
  BY <1>6, WaRevokeKeeps
<1>7. CASE JoinGroup \/ JoinFails
  BY <1>7, WaGroupKeeps
<1>8. CASE CheckAccess
  BY <1>8, WaCheckKeeps
<1>9. CASE RepairEnds
  BY <1>9, WaEndsKeeps
<1>10. CASE Reassert
  BY <1>10, WaReassertKeeps
<1>11. ASSUME NEW s \in WaSites, AskRepair(s) PROVE WaInv'
  BY <1>11, WaAskKeeps
<1>12. ASSUME NEW s \in WaSites, NEW p \in WaParts, ChmodFolder(s, {p}) PROVE WaInv'
  BY <1>12, WaChmodKeeps
<1>13. ASSUME NEW s \in WaSites, ChmodFolder(s, WaParts \ {"root"}) PROVE WaInv'
  BY <1>13, WaChmodKeeps
<1>15. CASE RepairRaises
  BY <1>15, WaRaisesKeeps
<1>16. CASE ReassertFails
  BY <1>16, WaReassertFailsKeeps
<1>17. ASSUME NEW s \in WaSites, ChmodIsCut(s, WaParts \ {"root"}) PROVE WaInv'
  BY <1>17, WaCutKeeps
<1>14. CASE UNCHANGED waVars
  <2>1. WaTypes'
    BY <1>14 DEF WaInv, WaTypes, waVars, waAcls, waHistory, WaAt
  <2>2. \A s \in WaSites : WaOf(s)'
    BY <1>14, WaSame DEF WaInv, waVars, waAcls, waHistory
  <2> QED
    BY <2>1, <2>2 DEF WaInv
<1> QED
  BY <1>1, <1>2, <1>3, <1>4, <1>5, <1>6, <1>7, <1>8, <1>9, <1>10, <1>11, <1>12, <1>13, <1>14,
     <1>15, <1>16, <1>17 DEF WebAccessNext

\* The invariant holds of nginx's access whatever the panel, the repair and the
\* file manager do.
THEOREM WaInvariance == WebAccessSpec => []WaInv
<1>1. WaInv /\ [WebAccessNext]_waVars => WaInv'
  BY WaNextKeeps
<1> QED
  BY WaInitial, <1>1, PTL DEF WebAccessSpec

\* The folders and the sites of the state are the ones there are.
THEOREM WaTypeCorrect == WebAccessSpec => []WaTypeOK
<1>1. WaInv => WaTypeOK
  BY DEF WaInv, WaTypes, WaTypeOK
<1> QED
  BY WaInvariance, <1>1, PTL

\* However repairs, failures, starts and chmods interleave, PHP's scratch space
\* is closed to nginx where it is not known to be open, and a site that was
\* granted whole is served.
THEOREM AccessRight == WebAccessSpec => []AccessIsAsGranted
<1>1. WaInv => AccessIsAsGranted
  <2> SUFFICES ASSUME WaInv PROVE TmpIsPrivate /\ GrantOutlivesChmod
    BY DEF AccessIsAsGranted
  <2>1. TmpIsPrivate
    BY DEF WaInv, WaOf, WaTmp, WaDoes, WaIdle, TmpIsPrivate
  <2>2. GrantOutlivesChmod
    BY DEF WaInv, WaTypes, WaOf, WaHolds, GrantOutlivesChmod, WaServed, WaMayEnter
  <2> QED
    BY <2>1, <2>2
<1> QED
  BY WaInvariance, <1>1, PTL

\* The marker that ends the migration is written only when nginx can enter the
\* document root of every site not changed since the job looked at it.
THEOREM MarkerRight == WebAccessSpec => MarkerMeansServed
<1>1. WaInv /\ [WebAccessNext]_waVars => [waMarker' # waMarker => \A s \in WaSites \ waTouched : WaServed(s)]_waVars
  <2> SUFFICES ASSUME WaInv, WebAccessNext, waMarker' # waMarker, NEW s \in WaSites \ waTouched
               PROVE  WaServed(s)
    BY DEF waVars
  <2>1. RepairEnds
    BY DEF WebAccessNext, WaPanelStarts, RepairBegins, NextSite, GrantAccess, GrantDefaults, RevokeTmp,
           JoinGroup, JoinFails, CheckAccess, RepairRaises, Reassert, ReassertFails, WaGoes, WaChmodEnds,
           AskRepair, ChmodFolder, ChmodIsCut
  <2>2. waJob.step = "next" /\ waJob.left = {} /\ waJob # WaIdle
    BY <2>1, WaJobStep DEF RepairEnds, WaAt, WaInv, WaSteps
  <2>3. waJob.all /\ waJob.failed = {}
    BY <2>1 DEF RepairEnds
  <2> QED
    BY <2>2, <2>3 DEF WaInv, WaOf, WaPassed, WaDoes
<1> QED
  BY WaInvariance, <1>1, PTL DEF WebAccessSpec, MarkerMeansServed

(*************************************************************************)
(* Fail2ban, for any settings, threads and addresses: unless applies     *)
(* have overlapped or one was cut off, the daemon runs what its files    *)
(* say, and, once applied, what is stored; and what bans have no row.    *)
(*************************************************************************)

F2bProgress ==
    [step : {"idle", "reapply", "purge"}]
    \cup [step : {"ban", "unban"}, ips : SUBSET F2bIps]
    \cup [step : {"test", "restart"}, read : F2bConfigs, before : F2bConfigs \cup {F2bNone}, force : BOOLEAN]

F2bTypes ==
    /\ f2Row \in F2bConfigs /\ f2File \in F2bConfigs \cup {F2bNone} /\ f2Loaded \in F2bConfigs \cup {F2bNone}
    /\ f2Installed \in BOOLEAN /\ f2Torn \in BOOLEAN /\ f2Applied \in BOOLEAN
    /\ f2Wanted \subseteq F2bIps /\ f2Bans \subseteq F2bIps /\ f2Ghosts \subseteq F2bIps
    /\ f2Thread \in [F2bThreads -> F2bProgress]

\* An apply that nothing has overlapped found the files the daemon runs and wrote those it read.
F2bUndisturbed ==
    ~f2Torn =>
        /\ \A t, u \in F2bApplying : t = u
        /\ F2bApplying # {} => ~f2Applied
        /\ \A t \in F2bThreads :
              /\ f2Thread[t].step \in {"test", "restart"} =>
                    f2File = f2Thread[t].read /\ (F2bUp => f2Thread[t].before = f2Loaded)
              /\ f2Thread[t].step = "purge" => ~F2bUp

F2bInv == F2bTypes /\ F2bUndisturbed /\ FilesAreLoaded /\ AppliedIsInForce /\ NoGhostBan

\* What a thread's next step makes of the threads.
LEMMA F2bMoves ==
    ASSUME F2bTypes, NEW t \in F2bThreads, NEW p \in F2bProgress, F2bSet(t, p)
    PROVE  /\ f2Thread' \in [F2bThreads -> F2bProgress] /\ f2Thread'[t] = p
           /\ \A u \in F2bThreads \ {t} : f2Thread'[u] = f2Thread[u]
           /\ p.step \in {"test", "restart", "purge"} => F2bApplying' = F2bApplying \cup {t}
           /\ p.step \notin {"test", "restart", "purge"} => F2bApplying' = F2bApplying \ {t}
<1>1. /\ f2Thread' = [f2Thread EXCEPT ![t] = p] /\ f2Thread \in [F2bThreads -> F2bProgress]
  BY DEF F2bSet, F2bTypes
<1>2. f2Thread'[t] = p /\ (\A u \in F2bThreads \ {t} : f2Thread'[u] = f2Thread[u])
  BY <1>1
<1>3. f2Thread' \in [F2bThreads -> F2bProgress]
  BY <1>1
<1> QED
  BY <1>2, <1>3 DEF F2bApplying

LEMMA F2bIdleIs == F2bIdle \in F2bProgress /\ F2bIdle.step = "idle"
  BY DEF F2bIdle, F2bProgress

\* What a thread remembers at each step.
LEMMA F2bRemembers ==
    ASSUME F2bTypes, NEW t \in F2bThreads
    PROVE  /\ f2Thread[t].step \in {"test", "restart"} =>
                f2Thread[t] \in [step : {"test", "restart"}, read : F2bConfigs,
                                 before : F2bConfigs \cup {F2bNone}, force : BOOLEAN]
           /\ f2Thread[t].step \in {"ban", "unban"} => f2Thread[t].ips \subseteq F2bIps
  BY DEF F2bTypes, F2bProgress

\* A thread that only bans and unbans leaves the daemon and its files to the others.
LEMMA F2bAside ==
    ASSUME F2bInv, NEW t \in F2bThreads, NEW p \in F2bProgress, F2bSet(t, p),
           t \notin F2bApplying, p.step \notin {"test", "restart", "purge"},
           UNCHANGED <<f2Row, f2Daemon, f2Torn, f2Applied>>
    PROVE  F2bUndisturbed' /\ FilesAreLoaded' /\ AppliedIsInForce'
<1>1. /\ f2Thread'[t] = p /\ \A u \in F2bThreads \ {t} : f2Thread'[u] = f2Thread[u]
      /\ F2bApplying' = F2bApplying
  BY F2bMoves DEF F2bInv
<1>2. F2bUndisturbed'
  BY <1>1 DEF F2bInv, F2bUndisturbed, f2Daemon, F2bUp
<1> QED
  BY <1>1, <1>2 DEF F2bInv, FilesAreLoaded, AppliedIsInForce, f2Daemon, F2bUp

\* Steps that ban nothing leave no ghost, as long as an unban is still under way.
LEMMA F2bNoGhostSame ==
    ASSUME NoGhostBan, UNCHANGED f2Lists,
           \A t \in F2bThreads : f2Thread[t].step = "unban" => f2Thread'[t] = f2Thread[t]
    PROVE  NoGhostBan'
  BY DEF NoGhostBan, f2Lists

LEMMA F2bInitial == F2bInit => F2bInv
<1> SUFFICES ASSUME F2bInit PROVE F2bInv
  OBVIOUS
<1>1. F2bTypes
  BY F2bIdleIs DEF F2bInit, F2bTypes
<1>2. \A t \in F2bThreads : f2Thread[t].step = "idle"
  BY F2bIdleIs DEF F2bInit
<1>3. F2bUndisturbed /\ FilesAreLoaded /\ AppliedIsInForce /\ NoGhostBan
  BY <1>2 DEF F2bInit, F2bUndisturbed, FilesAreLoaded, AppliedIsInForce, NoGhostBan, F2bApplying, F2bUp
<1> QED
  BY <1>1, <1>3 DEF F2bInv

\* The settings and the package, without a thread's step.
LEMMA F2bSettingsKeep ==
    ASSUME F2bInv, SaveF2b \/ InstallF2b
    PROVE  F2bInv'
<1>1. /\ f2Row' \in F2bConfigs /\ f2Applied' = FALSE /\ f2Installed' \in BOOLEAN
      /\ UNCHANGED <<f2File, f2Loaded, f2Lists, f2Thread, f2Torn>>
  BY DEF SaveF2b, InstallF2b, f2Daemon, F2bInv, F2bTypes
<1>2. F2bTypes'
  BY <1>1 DEF F2bInv, F2bTypes, f2Lists
<1>3. F2bUndisturbed' /\ FilesAreLoaded' /\ AppliedIsInForce' /\ NoGhostBan'
  BY <1>1 DEF F2bInv, F2bUndisturbed, FilesAreLoaded, AppliedIsInForce, NoGhostBan, F2bApplying, F2bUp, f2Lists
<1> QED
  BY <1>2, <1>3 DEF F2bInv

LEMMA F2bRenderKeeps ==
    ASSUME F2bInv, NEW t \in F2bThreads, NEW force \in BOOLEAN, RenderF2b(t, force)
    PROVE  F2bInv'
<1> DEFINE p == [step |-> "test", read |-> f2Row, before |-> f2File, force |-> force]
<1>1. /\ f2Thread[t] = F2bIdle /\ f2File' = f2Row /\ F2bSet(t, p) /\ f2Applied' = FALSE
      /\ f2Torn' = (f2Torn \/ F2bApplying # {})
      /\ UNCHANGED <<f2Row, f2Loaded, f2Installed, f2Lists>>
  BY DEF RenderF2b, F2bIsIdle
<1>2. F2bTypes
  BY DEF F2bInv
<1>3. p \in F2bProgress
  BY <1>2 DEF F2bTypes, F2bProgress
<1>4. p.step = "test" /\ p.read = f2Row /\ p.before = f2File
  OBVIOUS
<1> HIDE DEF p
<1>5. /\ f2Thread' \in [F2bThreads -> F2bProgress] /\ f2Thread'[t] = p
      /\ \A u \in F2bThreads \ {t} : f2Thread'[u] = f2Thread[u]
      /\ F2bApplying' = F2bApplying \cup {t}
  BY <1>1, <1>2, <1>3, <1>4, F2bMoves
<1>6. F2bTypes'
  BY <1>1, <1>2, <1>5 DEF F2bTypes, f2Lists
<1>7. F2bUndisturbed'
  <2> SUFFICES ASSUME ~f2Torn'
               PROVE  /\ \A u, v \in F2bApplying' : u = v
                      /\ \A u \in F2bThreads :
                            /\ f2Thread'[u].step \in {"test", "restart"} =>
                                  f2File' = f2Thread'[u].read /\ (F2bUp' => f2Thread'[u].before = f2Loaded')
                            /\ f2Thread'[u].step = "purge" => ~F2bUp'
    BY <1>1 DEF F2bUndisturbed
  <2>1. ~f2Torn /\ F2bApplying = {}
    BY <1>1
  <2>2. \A u \in F2bThreads \ {t} : f2Thread'[u].step \notin {"test", "restart", "purge"}
    BY <1>5, <2>1 DEF F2bApplying
  <2>3. F2bUp => f2File = f2Loaded
    BY <2>1 DEF F2bInv, FilesAreLoaded
  <2> QED
    BY <1>1, <1>4, <1>5, <2>1, <2>2, <2>3 DEF F2bUp
<1>8. FilesAreLoaded' /\ AppliedIsInForce'
  BY <1>1, <1>5 DEF FilesAreLoaded, AppliedIsInForce
<1>9. NoGhostBan'
  BY <1>1, <1>5, F2bIdleIs, F2bNoGhostSame DEF F2bInv
<1> QED
  BY <1>6, <1>7, <1>8, <1>9 DEF F2bInv

LEMMA F2bPassesKeeps ==
    ASSUME F2bInv, NEW t \in F2bThreads, TestPasses(t)
    PROVE  F2bInv'
<1> DEFINE p == [f2Thread[t] EXCEPT !.step = "restart"]
<1>1. /\ f2Thread[t].step = "test" /\ F2bSet(t, p)
      /\ UNCHANGED <<f2Row, f2Daemon, f2Lists, f2Torn, f2Applied>>
  BY DEF TestPasses
<1>2. F2bTypes
  BY DEF F2bInv
<1>3. p \in F2bProgress /\ p.step = "restart" /\ p.read = f2Thread[t].read /\ p.before = f2Thread[t].before
  BY <1>1, <1>2, F2bRemembers DEF F2bProgress
<1> HIDE DEF p
<1>4. /\ f2Thread' \in [F2bThreads -> F2bProgress] /\ f2Thread'[t] = p
      /\ \A u \in F2bThreads \ {t} : f2Thread'[u] = f2Thread[u]
      /\ F2bApplying' = F2bApplying \cup {t}
  BY <1>1, <1>2, <1>3, F2bMoves
<1>5. t \in F2bApplying /\ F2bApplying' = F2bApplying
  BY <1>1, <1>4 DEF F2bApplying
<1>6. F2bTypes'
  BY <1>1, <1>2, <1>4 DEF F2bTypes, f2Lists, f2Daemon
<1>7. F2bUndisturbed'
  BY <1>1, <1>3, <1>4, <1>5 DEF F2bInv, F2bUndisturbed, F2bUp, f2Daemon
<1>8. FilesAreLoaded' /\ AppliedIsInForce'
  BY <1>1, <1>5 DEF F2bInv, FilesAreLoaded, AppliedIsInForce, f2Daemon
<1>9. NoGhostBan'
  BY <1>1, <1>4, F2bNoGhostSame DEF F2bInv
<1> QED
  BY <1>6, <1>7, <1>8, <1>9 DEF F2bInv

\* An apply that ends leaves the files, the daemon and the flags as they may be
\* with nobody applying.
LEMMA F2bApplyEnds ==
    ASSUME F2bInv, NEW t \in F2bThreads, NEW p \in F2bProgress, F2bSet(t, p),
           t \in F2bApplying, p.step \notin {"test", "restart", "purge"}, UNCHANGED f2Lists,
           f2Row' = f2Row, f2File' \in F2bConfigs \cup {F2bNone}, f2Loaded' \in F2bConfigs \cup {F2bNone},
           f2Installed' \in BOOLEAN, f2Torn' \in BOOLEAN, f2Applied' \in BOOLEAN,
           ~f2Torn' /\ f2Torn => F2bApplying = {t},
           ~f2Torn' => /\ F2bUp' => f2File' = f2Loaded'
                       /\ f2Applied' => f2Loaded' = f2Row'
    PROVE  F2bInv'
<1>1. F2bTypes
  BY DEF F2bInv
<1>2. /\ f2Thread' \in [F2bThreads -> F2bProgress] /\ f2Thread'[t] = p
      /\ \A u \in F2bThreads \ {t} : f2Thread'[u] = f2Thread[u]
      /\ F2bApplying' = F2bApplying \ {t}
  BY <1>1, F2bMoves
<1>3. F2bTypes'
  BY <1>1, <1>2 DEF F2bTypes, f2Lists
<1>4. ~f2Torn' => F2bApplying' = {}
  BY <1>2 DEF F2bInv, F2bUndisturbed
<1>5. F2bUndisturbed'
  <2>1. ~f2Torn' => \A u \in F2bThreads : f2Thread'[u].step \notin {"test", "restart", "purge"}
    BY <1>4 DEF F2bApplying
  <2> QED
    BY <1>4, <2>1 DEF F2bUndisturbed
<1>6. FilesAreLoaded' /\ AppliedIsInForce'
  BY DEF FilesAreLoaded, AppliedIsInForce
<1>7. NoGhostBan'
  <2>1. f2Thread[t].step # "unban"
    BY DEF F2bApplying
  <2> QED
    BY <1>2, <2>1, F2bNoGhostSame DEF F2bInv
<1> QED
  BY <1>3, <1>5, <1>6, <1>7 DEF F2bInv

LEMMA F2bTestEndsKeeps ==
    ASSUME F2bInv, NEW t \in F2bThreads, TestRefuses(t) \/ TestTimesOut(t)
    PROVE  F2bInv'
<1>1. f2Thread[t].step = "test" /\ F2bSet(t, F2bIdle) /\ f2Row' = f2Row /\ UNCHANGED f2Lists
  BY DEF TestRefuses, TestTimesOut, F2bEnd
<1>2. F2bTypes /\ t \in F2bApplying
  BY <1>1 DEF F2bInv, F2bApplying
<1>3. ~f2Torn => (F2bUp => f2Thread[t].before = f2Loaded) /\ ~f2Applied
  BY <1>1, <1>2 DEF F2bInv, F2bUndisturbed
<1>4. CASE TestRefuses(t)
  <2>1. f2File' = f2Thread[t].before /\ UNCHANGED <<f2Loaded, f2Installed, f2Torn, f2Applied>>
    BY <1>4 DEF TestRefuses
  <2>2. f2File' \in F2bConfigs \cup {F2bNone}
    BY <1>1, <1>2, <2>1, F2bRemembers
  <2> QED
    BY <1>1, <1>2, <1>3, <2>1, <2>2, F2bApplyEnds, F2bIdleIs DEF F2bTypes, F2bUp
<1>5. CASE TestTimesOut(t)
  <2>1. f2Torn' = TRUE /\ UNCHANGED <<f2Daemon, f2Applied>>
    BY <1>5 DEF TestTimesOut
  <2> QED
    BY <1>1, <1>2, <2>1, F2bApplyEnds, F2bIdleIs DEF F2bTypes, f2Daemon
<1> QED
  BY <1>4, <1>5

LEMMA F2bRestartKeeps ==
    ASSUME F2bInv, NEW t \in F2bThreads, RestartF2b(t)
    PROVE  F2bInv'
<1> DEFINE p == [step |-> "reapply"]
<1>1. /\ f2Thread[t].step = "restart" /\ F2bSet(t, p)
      /\ f2File \in F2bConfigs /\ UNCHANGED <<f2Row, f2File, f2Installed, f2Lists>>
      /\ f2Loaded' = IF NeedsRestart(f2Thread[t]) THEN f2File ELSE f2Loaded
      /\ f2Torn' = (f2Torn /\ ~(F2bApplying = {t} /\ NeedsRestart(f2Thread[t]) /\ f2File = f2Thread[t].read))
      /\ f2Applied' = (f2Thread[t].read = f2Row)
  BY DEF RestartF2b
<1>2. p \in F2bProgress /\ p.step = "reapply"
  BY DEF F2bProgress
<1> HIDE DEF p
<1>3. F2bTypes /\ t \in F2bApplying
  BY <1>1 DEF F2bInv, F2bApplying
<1>4. ~f2Torn => f2File = f2Thread[t].read /\ (F2bUp => f2Thread[t].before = f2Loaded)
  BY <1>1 DEF F2bInv, F2bUndisturbed
<1>5. ~f2Torn' => f2Loaded' = f2File /\ f2File = f2Thread[t].read
  BY <1>1, <1>4 DEF NeedsRestart, F2bUp
<1> QED
  BY <1>1, <1>2, <1>3, <1>5, F2bApplyEnds DEF F2bTypes

LEMMA F2bRestartFailsKeeps ==
    ASSUME F2bInv, NEW t \in F2bThreads, RestartFails(t) \/ PurgeF2b(t)
    PROVE  F2bInv'
<1>1. /\ f2Thread[t].step \in {"restart", "purge"} /\ F2bSet(t, F2bIdle) /\ f2Loaded' = F2bNone
      /\ UNCHANGED <<f2Row, f2Wanted, f2Torn, f2Applied>>
      /\ f2File' \in {f2File, F2bNone} /\ f2Installed' \in {f2Installed, FALSE}
      /\ UNCHANGED f2Lists \/ (f2Bans' = {} /\ f2Ghosts' = {})
  BY DEF RestartFails, PurgeF2b, F2bEnd, f2Lists
<1>2. F2bTypes /\ t \in F2bApplying
  BY <1>1 DEF F2bInv, F2bApplying
<1>3. ~f2Torn => ~f2Applied
  BY <1>2 DEF F2bInv, F2bUndisturbed
<1>4. CASE UNCHANGED f2Lists
  BY <1>1, <1>2, <1>3, <1>4, F2bApplyEnds, F2bIdleIs DEF F2bTypes, F2bUp
<1>5. CASE f2Bans' = {} /\ f2Ghosts' = {}
  <2>1. /\ f2Thread' \in [F2bThreads -> F2bProgress] /\ f2Thread'[t] = F2bIdle
        /\ \A u \in F2bThreads \ {t} : f2Thread'[u] = f2Thread[u]
        /\ F2bApplying' = F2bApplying \ {t}
    BY <1>1, <1>2, F2bMoves, F2bIdleIs
  <2>2. F2bTypes'
    BY <1>1, <1>2, <1>5, <2>1 DEF F2bTypes
  <2>3. ~f2Torn' => F2bApplying' = {} /\ ~f2Applied'
    BY <1>1, <1>2, <1>3, <2>1 DEF F2bInv, F2bUndisturbed
  <2>4. F2bUndisturbed'
    <3>1. ~f2Torn' => \A u \in F2bThreads : f2Thread'[u].step \notin {"test", "restart", "purge"}
      BY <2>3 DEF F2bApplying
    <3> QED
      BY <2>3, <3>1 DEF F2bUndisturbed
  <2>5. FilesAreLoaded' /\ AppliedIsInForce' /\ NoGhostBan'
    BY <1>1, <1>5, <2>3 DEF FilesAreLoaded, AppliedIsInForce, NoGhostBan, F2bUp
  <2> QED
    BY <2>2, <2>4, <2>5 DEF F2bInv
<1> QED
  BY <1>1, <1>4, <1>5

LEMMA F2bStopKeeps ==
    ASSUME F2bInv, NEW t \in F2bThreads, StopF2b(t)
    PROVE  F2bInv'
<1> DEFINE p == [step |-> "purge"]
<1>1. /\ f2Thread[t] = F2bIdle /\ F2bSet(t, p) /\ f2Loaded' = F2bNone /\ f2Applied' = FALSE
      /\ f2Torn' = (f2Torn \/ F2bApplying # {})
      /\ UNCHANGED <<f2Row, f2File, f2Installed, f2Lists>>
  BY DEF StopF2b, F2bIsIdle
<1>2. F2bTypes /\ p \in F2bProgress /\ p.step = "purge"
  BY DEF F2bInv, F2bProgress
<1> HIDE DEF p
<1>3. /\ f2Thread' \in [F2bThreads -> F2bProgress] /\ f2Thread'[t] = p
      /\ \A u \in F2bThreads \ {t} : f2Thread'[u] = f2Thread[u]
      /\ F2bApplying' = F2bApplying \cup {t}
  BY <1>1, <1>2, F2bMoves
<1>4. F2bTypes'
  BY <1>1, <1>2, <1>3 DEF F2bTypes, f2Lists
<1>5. F2bUndisturbed'
  <2> SUFFICES ASSUME ~f2Torn'
               PROVE  /\ \A u, v \in F2bApplying' : u = v
                      /\ \A u \in F2bThreads : f2Thread'[u].step \notin {"test", "restart"}
    BY <1>1 DEF F2bUndisturbed, F2bUp
  <2>1. F2bApplying = {}
    BY <1>1
  <2>2. \A u \in F2bThreads \ {t} : f2Thread'[u].step \notin {"test", "restart", "purge"}
    BY <1>3, <2>1 DEF F2bApplying
  <2> QED
    BY <1>2, <1>3, <2>1, <2>2
<1>6. FilesAreLoaded' /\ AppliedIsInForce'
  BY <1>1, <1>3 DEF FilesAreLoaded, AppliedIsInForce
<1>7. NoGhostBan'
  BY <1>1, <1>3, F2bIdleIs, F2bNoGhostSame DEF F2bInv
<1> QED
  BY <1>4, <1>5, <1>6, <1>7 DEF F2bInv

\* The steps of bans and unbans, of which only the lists are left to say.
LEMMA F2bListsKeep ==
    ASSUME F2bInv, NEW t \in F2bThreads, NEW p \in F2bProgress, F2bSet(t, p),
           t \notin F2bApplying, p.step \notin {"test", "restart", "purge"},
           UNCHANGED <<f2Row, f2Daemon, f2Torn, f2Applied>>,
           f2Wanted' \subseteq F2bIps, f2Bans' \subseteq F2bIps, f2Ghosts' \subseteq F2bIps,
           \A ip \in f2Bans' \ f2Wanted' :
              \/ ip \in f2Ghosts' \/ (p.step = "unban" /\ ip \in p.ips)
              \/ \E u \in F2bThreads \ {t} : f2Thread[u].step = "unban" /\ ip \in f2Thread[u].ips
    PROVE  F2bInv'
<1>1. /\ f2Thread' \in [F2bThreads -> F2bProgress] /\ f2Thread'[t] = p
      /\ \A u \in F2bThreads \ {t} : f2Thread'[u] = f2Thread[u]
  BY F2bMoves DEF F2bInv
<1>2. F2bTypes'
  BY <1>1 DEF F2bInv, F2bTypes, f2Daemon
<1>3. NoGhostBan'
  BY <1>1 DEF NoGhostBan
<1> QED
  BY <1>2, <1>3, F2bAside DEF F2bInv

LEMMA F2bBanRowKeeps ==
    ASSUME F2bInv, NEW t \in F2bThreads, BanRow(t)
    PROVE  F2bInv'
<1>1. PICK ip \in F2bIps : f2Wanted' = f2Wanted \cup {ip} /\ F2bSet(t, [step |-> "ban", ips |-> {ip}])
  BY DEF BanRow
<1>2. f2Thread[t] = F2bIdle /\ UNCHANGED <<f2Row, f2Daemon, f2Bans, f2Torn, f2Applied, f2Ghosts>>
  BY DEF BanRow, F2bIsIdle
<1>3. t \notin F2bApplying /\ f2Thread[t].step # "unban"
  BY <1>2, F2bIdleIs DEF F2bApplying
<1>4. [step |-> "ban", ips |-> {ip}] \in F2bProgress /\ [step |-> "ban", ips |-> {ip}].step = "ban"
  BY DEF F2bProgress
<1>5. /\ f2Wanted' \subseteq F2bIps /\ f2Bans' \subseteq F2bIps /\ f2Ghosts' \subseteq F2bIps
      /\ \A i \in f2Bans' \ f2Wanted' :
            i \in f2Ghosts' \/ \E u \in F2bThreads \ {t} : f2Thread[u].step = "unban" /\ i \in f2Thread[u].ips
  BY <1>1, <1>2, <1>3 DEF F2bInv, F2bTypes, NoGhostBan
<1> QED
  BY <1>1, <1>2, <1>3, <1>4, <1>5, F2bListsKeep

LEMMA F2bUnbanRowKeeps ==
    ASSUME F2bInv, NEW t \in F2bThreads, UnbanRow(t)
    PROVE  F2bInv'
<1>1. PICK ip \in F2bIps : f2Wanted' = f2Wanted \ {ip} /\ F2bSet(t, [step |-> "unban", ips |-> {ip}])
  BY DEF UnbanRow
<1>2. f2Thread[t] = F2bIdle /\ UNCHANGED <<f2Row, f2Daemon, f2Bans, f2Torn, f2Applied, f2Ghosts>>
  BY DEF UnbanRow, F2bIsIdle
<1>3. t \notin F2bApplying /\ f2Thread[t].step # "unban"
  BY <1>2, F2bIdleIs DEF F2bApplying
<1>4. PICK p \in F2bProgress : p = [step |-> "unban", ips |-> {ip}]
  BY DEF F2bProgress
<1>5. p.step = "unban" /\ p.ips = {ip}
  BY <1>4
<1>6. /\ f2Wanted' \subseteq F2bIps /\ f2Bans' \subseteq F2bIps /\ f2Ghosts' \subseteq F2bIps
      /\ \A i \in f2Bans' \ f2Wanted' :
            \/ i \in f2Ghosts' \/ (p.step = "unban" /\ i \in p.ips)
            \/ \E u \in F2bThreads \ {t} : f2Thread[u].step = "unban" /\ i \in f2Thread[u].ips
  BY <1>1, <1>2, <1>3, <1>5 DEF F2bInv, F2bTypes, NoGhostBan
<1> QED
  BY <1>1, <1>2, <1>3, <1>4, <1>5, <1>6, F2bListsKeep

\* A ban or an unban that is over, well or not.
LEMMA F2bBanEndsKeeps ==
    ASSUME F2bInv, NEW t \in F2bThreads, BanCommand(t) \/ BanFails(t) \/ UnbanCommand(t) \/ UnbanFails(t)
    PROVE  F2bInv'
<1>1. /\ f2Thread[t].step \in {"ban", "unban"} /\ F2bSet(t, F2bIdle)
      /\ UNCHANGED <<f2Row, f2Daemon, f2Wanted, f2Torn, f2Applied>>
  BY DEF BanCommand, BanFails, UnbanCommand, UnbanFails, BansChange, F2bEnd, f2Lists
<1>2. t \notin F2bApplying /\ f2Thread[t].ips \subseteq F2bIps
  BY <1>1, F2bRemembers DEF F2bApplying, F2bInv
<1>3. f2Thread[t].step = "unban" =>
        \/ (f2Bans' = f2Bans \ f2Thread[t].ips /\ f2Ghosts' = f2Ghosts \ f2Thread[t].ips)
        \/ (f2Bans' = f2Bans /\ f2Ghosts' = f2Ghosts \cup (f2Thread[t].ips \cap f2Bans))
  BY DEF BanCommand, BanFails, UnbanCommand, UnbanFails, BansChange
<1>4. f2Thread[t].step = "ban" =>
        \/ (/\ f2Bans' = f2Bans \cup f2Thread[t].ips
            /\ f2Ghosts' = f2Ghosts \cup (f2Thread[t].ips \ f2Wanted))
        \/ (f2Bans' = f2Bans /\ f2Ghosts' = f2Ghosts)
  BY DEF BanCommand, BanFails, UnbanCommand, UnbanFails, BansChange, f2Lists
<1>5. f2Wanted' \subseteq F2bIps /\ f2Bans' \subseteq F2bIps /\ f2Ghosts' \subseteq F2bIps
  BY <1>1, <1>2, <1>3, <1>4 DEF F2bInv, F2bTypes
<1>6. ASSUME NEW ip \in f2Bans' \ f2Wanted'
      PROVE  ip \in f2Ghosts' \/ \E u \in F2bThreads \ {t} : f2Thread[u].step = "unban" /\ ip \in f2Thread[u].ips
  <2>1. ip \in f2Bans => ip \in f2Ghosts \/ \E u \in F2bThreads : f2Thread[u].step = "unban" /\ ip \in f2Thread[u].ips
    BY <1>1, <1>6 DEF F2bInv, NoGhostBan
  <2>2. CASE f2Thread[t].step = "unban"
    BY <1>1, <1>3, <1>6, <2>1, <2>2
  <2>3. CASE f2Thread[t].step = "ban"
    BY <1>1, <1>4, <1>6, <2>1, <2>3
  <2> QED
    BY <1>1, <2>2, <2>3
<1> QED
  BY <1>1, <1>2, <1>5, <1>6, F2bIdleIs, F2bListsKeep

LEMMA F2bReapplyKeeps ==
    ASSUME F2bInv, NEW t \in F2bThreads, F2bReapply(t)
    PROVE  F2bInv'
<1>1. /\ f2Thread[t].step \in {"reapply", "idle"}
      /\ UNCHANGED <<f2Row, f2Daemon, f2Lists, f2Torn, f2Applied>>
  BY F2bIdleIs DEF F2bReapply, F2bIsIdle
<1>2. PICK p \in F2bProgress : /\ F2bSet(t, p) /\ p.step \in {"idle", "ban"}
  <2>1. F2bSet(t, IF f2Wanted \ f2Bans = {} THEN F2bIdle ELSE [step |-> "ban", ips |-> f2Wanted \ f2Bans])
    BY DEF F2bReapply
  <2>2. CASE f2Wanted \ f2Bans = {}
    BY <2>1, <2>2, F2bIdleIs
  <2>3. CASE f2Wanted \ f2Bans # {}
    <3>1. [step |-> "ban", ips |-> f2Wanted \ f2Bans] \in F2bProgress
      BY DEF F2bInv, F2bTypes, F2bProgress
    <3> QED
      BY <2>1, <2>3, <3>1
  <2> QED
    BY <2>2, <2>3
<1>3. t \notin F2bApplying
  BY <1>1 DEF F2bApplying
<1>4. /\ f2Wanted' \subseteq F2bIps /\ f2Bans' \subseteq F2bIps /\ f2Ghosts' \subseteq F2bIps
      /\ \A i \in f2Bans' \ f2Wanted' :
            i \in f2Ghosts' \/ \E u \in F2bThreads \ {t} : f2Thread[u].step = "unban" /\ i \in f2Thread[u].ips
  BY <1>1 DEF F2bInv, F2bTypes, NoGhostBan, f2Lists
<1> QED
  BY <1>1, <1>2, <1>3, <1>4, F2bListsKeep

LEMMA F2bPanelEndsKeeps ==
    ASSUME F2bInv, F2bPanelEnds
    PROVE  F2bInv'
<1>1. /\ f2Thread' = [t \in F2bThreads |-> F2bIdle] /\ f2Torn' = (f2Torn \/ F2bApplying # {})
      /\ f2Ghosts' = f2Ghosts \cup (f2Bans \ f2Wanted)
      /\ UNCHANGED <<f2Row, f2Daemon, f2Wanted, f2Bans, f2Applied>>
  BY DEF F2bPanelEnds
<1>2. F2bTypes'
  BY <1>1, F2bIdleIs DEF F2bInv, F2bTypes, f2Daemon
<1>3. F2bApplying' = {} /\ \A t \in F2bThreads : f2Thread'[t].step = "idle"
  BY <1>1, F2bIdleIs DEF F2bApplying
<1>4. F2bUndisturbed' /\ NoGhostBan'
  BY <1>1, <1>3 DEF F2bUndisturbed, NoGhostBan
<1>5. FilesAreLoaded' /\ AppliedIsInForce'
  BY <1>1 DEF F2bInv, FilesAreLoaded, AppliedIsInForce, F2bUp, f2Daemon
<1> QED
  BY <1>2, <1>4, <1>5 DEF F2bInv

LEMMA F2bNextKeeps == F2bInv /\ [F2bNext]_f2Vars => F2bInv'
<1> SUFFICES ASSUME F2bInv, [F2bNext]_f2Vars PROVE F2bInv'
  OBVIOUS
<1>1. CASE SaveF2b \/ InstallF2b
  BY <1>1, F2bSettingsKeep
<1>2. CASE F2bPanelEnds
  BY <1>2, F2bPanelEndsKeeps
<1>3. ASSUME NEW t \in F2bThreads, NEW force \in BOOLEAN, RenderF2b(t, force) PROVE F2bInv'
  BY <1>3, F2bRenderKeeps
<1>4. ASSUME NEW t \in F2bThreads, TestPasses(t) PROVE F2bInv'
  BY <1>4, F2bPassesKeeps
<1>5. ASSUME NEW t \in F2bThreads, TestRefuses(t) \/ TestTimesOut(t) PROVE F2bInv'
  BY <1>5, F2bTestEndsKeeps
<1>6. ASSUME NEW t \in F2bThreads, RestartF2b(t) PROVE F2bInv'
  BY <1>6, F2bRestartKeeps
<1>7. ASSUME NEW t \in F2bThreads, RestartFails(t) \/ PurgeF2b(t) PROVE F2bInv'
  BY <1>7, F2bRestartFailsKeeps
<1>8. ASSUME NEW t \in F2bThreads, StopF2b(t) PROVE F2bInv'
  BY <1>8, F2bStopKeeps
<1>9. ASSUME NEW t \in F2bThreads, BanRow(t) PROVE F2bInv'
  BY <1>9, F2bBanRowKeeps
<1>10. ASSUME NEW t \in F2bThreads, UnbanRow(t) PROVE F2bInv'
  BY <1>10, F2bUnbanRowKeeps
<1>11. ASSUME NEW t \in F2bThreads, BanCommand(t) \/ BanFails(t) \/ UnbanCommand(t) \/ UnbanFails(t)
       PROVE  F2bInv'
  BY <1>11, F2bBanEndsKeeps
<1>12. ASSUME NEW t \in F2bThreads, F2bReapply(t) PROVE F2bInv'
  BY <1>12, F2bReapplyKeeps
<1>13. CASE UNCHANGED f2Vars
  BY <1>13 DEF f2Vars, f2Daemon, F2bInv, F2bTypes, F2bUndisturbed, FilesAreLoaded, AppliedIsInForce, NoGhostBan,
               F2bApplying, F2bUp
<1> QED
  BY <1>1, <1>2, <1>3, <1>4, <1>5, <1>6, <1>7, <1>8, <1>9, <1>10, <1>11, <1>12, <1>13 DEF F2bNext

\* The invariant holds of the daemon, its files and the rows, however many
\* threads apply, ban and unban.
THEOREM F2bInvariance == F2bSpec => []F2bInv
<1>1. F2bInv /\ [F2bNext]_f2Vars => F2bInv'
  BY F2bNextKeeps
<1> QED
  BY F2bInitial, <1>1, PTL DEF F2bSpec

\* Settings and addresses are those there are.
THEOREM F2bTypeCorrect == F2bSpec => []F2bTypeOK
<1>1. F2bInv => F2bTypeOK
  BY DEF F2bInv, F2bTypes, F2bTypeOK
<1> QED
  BY F2bInvariance, <1>1, PTL

\* Where no two applies have overlapped and none was cut off, the daemon runs
\* its files, and what is stored once that was applied; and a ban without a row
\* is one that a failed or overtaken command explains.
THEOREM DaemonRight == F2bSpec => []DaemonMatches
<1>1. F2bInv => DaemonMatches
  BY DEF F2bInv, DaemonMatches
<1> QED
  BY F2bInvariance, <1>1, PTL

(*************************************************************************)
(* ChunkedUpload, for any uploads, number of chunks and of attempts: an  *)
(* upload ends as its whole file or as nothing, unless a write failed in *)
(* the middle of a chunk.                                                *)
(*************************************************************************)

UpRequests == [up : Uploads, chunk : 1..UpChunks, try : 1..MaxChunkAttempts]

UpUpTo(n) == [i \in 1..(n - 1) |-> i]

\* A session has a part of the chunks before the next, unless a write failed.
UpCounted(u) ==
    upNext[u] # NoSession => upPart[u] # NoPart /\ (u \notin upTorn => upPart[u] = UpUpTo(upNext[u]))

\* The page and its requests, which are of uploads that have begun.
UpPageKept ==
    /\ upClient \in [Uploads -> [phase : UpPhases, chunk : 0..UpChunks, try : 0..MaxChunkAttempts]]
    /\ \A u \in Uploads : upClient[u].phase = "sending" => upClient[u].chunk # 0 /\ upClient[u].try # 0
    /\ upReq \subseteq UpRequests
    /\ \A r \in upReq : upClient[r.up].phase # "new"

\* The sessions, the parts and the files.
UpFilesKept ==
    /\ upNext \in [Uploads -> 0..(UpChunks + 1)]
    /\ upPart \in [Uploads -> Seq(Nat) \cup {NoPart}]
    /\ upOut \in [Uploads -> Seq(Nat) \cup {NoPart}]
    /\ upTorn \subseteq Uploads /\ upLoose \subseteq Uploads
    /\ \A u \in Uploads : UpCounted(u)
    /\ UploadsAreWhole

\* The chunk that is about to be written is its session's next.
UpLoopKept ==
    /\ upLoop \in upReq \cup {NoReq}
    /\ upLoop # NoReq /\ upNext[upLoop.up] # NoSession => upLoop.chunk = upNext[upLoop.up]

UpInv == UpPageKept /\ UpFilesKept /\ UpLoopKept

\* What a session's part holds grows with the count.
LEMMA UpUpToGrows ==
    ASSUME NEW n \in Nat, n # 0
    PROVE  /\ UpUpTo(n) \o <<n>> = UpUpTo(n + 1) /\ UpUpTo(n) # NoPart /\ UpUpTo(n) \in Seq(Nat)
<1>1. UpUpTo(n) \in Seq(Nat) /\ Len(UpUpTo(n)) = n - 1 /\ \A i \in 1..(n - 1) : UpUpTo(n)[i] = i
  BY DEF UpUpTo
<1>2. UpUpTo(n + 1) \in Seq(Nat) /\ Len(UpUpTo(n + 1)) = n /\ \A i \in 1..n : UpUpTo(n + 1)[i] = i
  BY DEF UpUpTo
<1>3. UpUpTo(n) \o <<n>> = UpUpTo(n + 1)
  <2> DEFINE s == UpUpTo(n) \o <<n>>
  <2>1. s \in Seq(Nat) /\ Len(s) = n /\ \A i \in 1..n : s[i] = i
    BY <1>1
  <2> HIDE DEF s
  <2>2. s = [i \in 1..n |-> s[i]] /\ UpUpTo(n + 1) = [i \in 1..n |-> UpUpTo(n + 1)[i]]
    BY <1>2, <2>1
  <2>3. s = UpUpTo(n + 1)
    BY <1>2, <2>1, <2>2
  <2> QED
    BY <2>3 DEF s
<1>4. UpUpTo(n) # NoPart
  BY <1>1 DEF NoPart
<1> QED
  BY <1>1, <1>3, <1>4

LEMMA UpUpToEnds == UpUpTo(1) = <<>> /\ <<>> # NoPart /\ UpUpTo(UpChunks + 1) = Whole
<1>1. UpUpTo(1) = <<>> /\ <<>> # NoPart
  BY DEF UpUpTo, NoPart
<1>2. UpUpTo(UpChunks + 1) = Whole
  BY ChunkedUploadAssumption DEF UpUpTo, Whole
<1> QED
  BY <1>1, <1>2


LEMMA UpPageTypes ==
    ASSUME NEW phase \in UpPhases, NEW chunk \in 0..UpChunks, NEW try \in 0..MaxChunkAttempts
    PROVE  /\ Page(phase, chunk, try) \in [phase : UpPhases, chunk : 0..UpChunks, try : 0..MaxChunkAttempts]
           /\ Page(phase, chunk, try).phase = phase /\ Page(phase, chunk, try).chunk = chunk
           /\ Page(phase, chunk, try).try = try
  BY DEF Page

LEMMA UpSendKeeps ==
    ASSUME UpPageKept, NEW u \in Uploads, NEW chunk \in 1..UpChunks, NEW try \in 1..MaxChunkAttempts,
           Send(u, chunk, try)
    PROVE  UpPageKept' /\ upReq \subseteq upReq'
<1>1. /\ upClient' = [upClient EXCEPT ![u] = Page("sending", chunk, try)]
      /\ upReq' = upReq \cup {[up |-> u, chunk |-> chunk, try |-> try]}
  BY DEF Send
<1>2. /\ Page("sending", chunk, try) \in [phase : UpPhases, chunk : 0..UpChunks, try : 0..MaxChunkAttempts]
      /\ Page("sending", chunk, try).phase = "sending" /\ Page("sending", chunk, try).chunk = chunk
      /\ Page("sending", chunk, try).try = try
  BY UpPageTypes, ChunkedUploadAssumption DEF UpPhases
<1>3. [up |-> u, chunk |-> chunk, try |-> try] \in UpRequests /\ [up |-> u, chunk |-> chunk, try |-> try].up = u
  BY DEF UpRequests
<1>4. upClient'[u] = Page("sending", chunk, try) /\ \A v \in Uploads \ {u} : upClient'[v] = upClient[v]
  BY <1>1 DEF UpPageKept
<1>5. \A r \in upReq' : upClient'[r.up].phase # "new"
  BY <1>1, <1>2, <1>3, <1>4 DEF UpPageKept, UpRequests
<1>6. \A v \in Uploads : upClient'[v].phase = "sending" => upClient'[v].chunk # 0 /\ upClient'[v].try # 0
  BY <1>2, <1>4 DEF UpPageKept
<1> QED
  BY <1>1, <1>2, <1>3, <1>5, <1>6 DEF UpPageKept

\* The page comes to an end, or to its last request.
LEMMA UpPageTurns ==
    ASSUME UpPageKept, NEW u \in Uploads, NEW phase \in {"completing", "done", "stopped"},
           upClient' = [upClient EXCEPT ![u] = Page(phase, 0, 0)], upReq' \subseteq upReq
    PROVE  UpPageKept'
<1>1. /\ Page(phase, 0, 0) \in [phase : UpPhases, chunk : 0..UpChunks, try : 0..MaxChunkAttempts]
      /\ Page(phase, 0, 0).phase = phase
  BY UpPageTypes, ChunkedUploadAssumption DEF UpPhases
<1>2. upClient'[u] = Page(phase, 0, 0) /\ \A v \in Uploads \ {u} : upClient'[v] = upClient[v]
  BY DEF UpPageKept
<1>3. \A r \in upReq' : upClient'[r.up].phase # "new"
  BY <1>1, <1>2 DEF UpPageKept, UpRequests
<1>4. \A v \in Uploads : upClient'[v].phase = "sending" => upClient'[v].chunk # 0 /\ upClient'[v].try # 0
  BY <1>1, <1>2 DEF UpPageKept
<1> QED
  BY <1>1, <1>3, <1>4 DEF UpPageKept

LEMMA UpAnswerKeeps ==
    ASSUME UpPageKept, NEW r \in upReq, NEW ok \in BOOLEAN, Answer(r, ok)
    PROVE  UpPageKept' /\ upReq \ {r} \subseteq upReq'
<1>1. /\ r \in UpRequests /\ r.up \in Uploads /\ r.chunk \in 1..UpChunks
  BY DEF UpPageKept, UpRequests
<1>2. CASE ok /\ Waits(r.up, r) /\ r.chunk < UpChunks
  <2> DEFINE q == [up |-> r.up, chunk |-> r.chunk + 1, try |-> 1]
  <2>1. /\ upClient' = [upClient EXCEPT ![r.up] = Page("sending", r.chunk + 1, 1)]
        /\ upReq' = (upReq \ {r}) \cup {q}
    BY <1>2 DEF Answer
  <2>2. /\ Page("sending", r.chunk + 1, 1) \in [phase : UpPhases, chunk : 0..UpChunks, try : 0..MaxChunkAttempts]
        /\ Page("sending", r.chunk + 1, 1).phase = "sending" /\ Page("sending", r.chunk + 1, 1).chunk = r.chunk + 1
        /\ Page("sending", r.chunk + 1, 1).try = 1
    <3>1. r.chunk + 1 \in 0..UpChunks /\ 1 \in 0..MaxChunkAttempts
      BY <1>1, <1>2, ChunkedUploadAssumption
    <3> QED
      BY <3>1, UpPageTypes DEF UpPhases
  <2>3. q \in UpRequests /\ q.up = r.up
    BY <1>1, <1>2, ChunkedUploadAssumption DEF UpRequests
  <2> HIDE DEF q
  <2>4. /\ upClient'[r.up] = Page("sending", r.chunk + 1, 1)
        /\ \A v \in Uploads \ {r.up} : upClient'[v] = upClient[v]
    BY <1>1, <2>1 DEF UpPageKept
  <2>5. \A p \in upReq' : upClient'[p.up].phase # "new"
    BY <1>1, <2>1, <2>2, <2>3, <2>4 DEF UpPageKept, UpRequests
  <2>6. \A v \in Uploads : upClient'[v].phase = "sending" => upClient'[v].chunk # 0 /\ upClient'[v].try # 0
    BY <1>1, <2>2, <2>4 DEF UpPageKept
  <2> QED
    BY <1>1, <2>1, <2>2, <2>3, <2>5, <2>6 DEF UpPageKept
<1>3. CASE ok /\ Waits(r.up, r) /\ ~(r.chunk < UpChunks)
  <2>1. upClient' = [upClient EXCEPT ![r.up] = Page("completing", 0, 0)] /\ upReq' = upReq \ {r}
    BY <1>3 DEF Answer
  <2> QED
    BY <1>1, <2>1, UpPageTurns
<1>4. CASE ~(ok /\ Waits(r.up, r))
  <2>1. UNCHANGED upClient /\ upReq' = upReq \ {r}
    BY <1>4 DEF Answer
  <2> QED
    BY <2>1 DEF UpPageKept
<1> QED
  BY <1>2, <1>3, <1>4

\* The loop and the files when only requests and pages change.
LEMMA UpLoopStays ==
    ASSUME UpLoopKept, upLoop' = upLoop, upReq \subseteq upReq',
           \A u \in Uploads : upNext'[u] \in {upNext[u], NoSession},
           UpPageKept
    PROVE  UpLoopKept'
<1>1. upLoop # NoReq => upLoop.up \in Uploads
  BY DEF UpLoopKept, UpPageKept, UpRequests
<1> QED
  BY <1>1 DEF UpLoopKept

LEMMA UpFilesSame ==
    ASSUME UpFilesKept, UNCHANGED <<upNext, upPart, upOut, upTorn, upLoose>>
    PROVE  UpFilesKept'
  BY DEF UpFilesKept, UpCounted, UploadsAreWhole, DeliveredIsWhole, PartsHaveSessions

\* Without its session an upload's part is gone too.
LEMMA UpDiscardKeeps ==
    ASSUME UpFilesKept, NEW u \in Uploads, WithoutSessions({u}), UNCHANGED <<upOut, upTorn, upLoose>>
    PROVE  UpFilesKept' /\ \A v \in Uploads : upNext'[v] \in {upNext[v], NoSession}
<1>1. /\ upNext' \in [Uploads -> 0..(UpChunks + 1)] /\ upPart' \in [Uploads -> Seq(Nat) \cup {NoPart}]
      /\ \A v \in Uploads : upNext'[v] = (IF v = u THEN NoSession ELSE upNext[v])
      /\ \A v \in Uploads : upPart'[v] = (IF v = u /\ upNext[v] # NoSession THEN NoPart ELSE upPart[v])
  BY ChunkedUploadAssumption DEF WithoutSessions, UpFilesKept, NoSession
<1>2. \A v \in Uploads : UpCounted(v)'
  BY <1>1 DEF UpFilesKept, UpCounted
<1>3. UploadsAreWhole'
  BY <1>1 DEF UpFilesKept, UploadsAreWhole, DeliveredIsWhole, PartsHaveSessions
<1> QED
  BY <1>1, <1>2, <1>3 DEF UpFilesKept

LEMMA UpInitial == UpInit => UpInv
<1> SUFFICES ASSUME UpInit PROVE UpPageKept /\ UpFilesKept /\ UpLoopKept
  BY DEF UpInv
<1>1. UpPageKept
  <2>1. /\ Page("new", 0, 0) \in [phase : UpPhases, chunk : 0..UpChunks, try : 0..MaxChunkAttempts]
        /\ Page("new", 0, 0).phase = "new"
    BY UpPageTypes, ChunkedUploadAssumption DEF UpPhases
  <2> QED
    BY <2>1 DEF UpInit, UpPageKept
<1>2. UpFilesKept
  BY ChunkedUploadAssumption
     DEF UpInit, UpFilesKept, UpCounted, UploadsAreWhole, DeliveredIsWhole, PartsHaveSessions, NoSession
<1>3. UpLoopKept
  BY DEF UpInit, UpLoopKept
<1> QED
  BY <1>1, <1>2, <1>3

\* The page alone: it sends a chunk again, or stops.
LEMMA UpClientKeeps ==
    ASSUME UpInv, NEW u \in Uploads, ClientGivesUp(u) \/ ClientRetries(u)
    PROVE  UpInv'
<1>1. UpPageKept /\ UpFilesKept /\ UpLoopKept
  BY DEF UpInv
<1>2. UNCHANGED <<upNext, upPart, upLoop, upOut, upTorn, upLoose>>
  BY DEF ClientGivesUp, ClientRetries
<1>3. UpPageKept' /\ upReq \subseteq upReq'
  <2>1. CASE ClientStops(u) /\ UNCHANGED upReq
    <3>1. upClient' = [upClient EXCEPT ![u] = Page("stopped", 0, 0)]
      BY <2>1 DEF ClientStops
    <3> QED
      BY <1>1, <2>1, <3>1, UpPageTurns
  <2>2. CASE /\ upClient[u].phase = "sending" /\ upClient[u].try < MaxChunkAttempts
             /\ Send(u, upClient[u].chunk, upClient[u].try + 1)
    <3>1. upClient[u].chunk \in 1..UpChunks /\ upClient[u].try + 1 \in 1..MaxChunkAttempts
      BY <1>1, <2>2, ChunkedUploadAssumption DEF UpPageKept
    <3> QED
      BY <1>1, <2>2, <3>1, UpSendKeeps
  <2> QED
    BY <2>1, <2>2 DEF ClientGivesUp, ClientRetries
<1>4. UpLoopKept'
  BY <1>1, <1>2, <1>3, UpLoopStays
<1> QED
  BY <1>1, <1>2, <1>3, <1>4, UpFilesSame DEF UpInv

LEMMA UpInitUploadKeeps ==
    ASSUME UpInv, NEW u \in Uploads, InitUpload(u)
    PROVE  UpInv'
<1>1. UpPageKept /\ UpFilesKept /\ UpLoopKept
  BY DEF UpInv
<1>2. /\ upClient[u].phase = "new" /\ upNext' = [upNext EXCEPT ![u] = 1] /\ upPart' = [upPart EXCEPT ![u] = <<>>]
      /\ Send(u, 1, 1) /\ UNCHANGED <<upLoop, upOut, upTorn, upLoose>>
  BY DEF InitUpload
<1>3. UpPageKept' /\ upReq \subseteq upReq'
  <2>1. 1 \in 1..UpChunks /\ 1 \in 1..MaxChunkAttempts
    BY ChunkedUploadAssumption
  <2> QED
    BY <1>1, <1>2, <2>1, UpSendKeeps
<1>4. UpFilesKept'
  <2>1. /\ upNext'[u] = 1 /\ upPart'[u] = <<>>
        /\ \A v \in Uploads \ {u} : upNext'[v] = upNext[v] /\ upPart'[v] = upPart[v]
    BY <1>1, <1>2 DEF UpFilesKept
  <2>2. <<>> = UpUpTo(1) /\ <<>> # NoPart
    BY UpUpToEnds
  <2>3. upNext' \in [Uploads -> 0..(UpChunks + 1)] /\ upPart' \in [Uploads -> Seq(Nat) \cup {NoPart}]
    BY <1>1, <1>2, ChunkedUploadAssumption DEF UpFilesKept
  <2>4. \A v \in Uploads : UpCounted(v)'
    BY <1>1, <1>2, <2>1, <2>2 DEF UpFilesKept, UpCounted
  <2>5. UploadsAreWhole'
    BY <1>1, <1>2, <2>1 DEF UpFilesKept, UploadsAreWhole, DeliveredIsWhole, PartsHaveSessions, NoSession
  <2> QED
    BY <1>1, <1>2, <2>3, <2>4, <2>5 DEF UpFilesKept
<1>5. UpLoopKept'
  <2>1. upLoop # NoReq => upLoop.up \in Uploads \ {u}
    BY <1>1, <1>2 DEF UpLoopKept, UpPageKept, UpRequests
  <2> QED
    BY <1>1, <1>2, <1>3, <2>1 DEF UpLoopKept, UpFilesKept
<1> QED
  BY <1>3, <1>4, <1>5 DEF UpInv

\* A session that is discarded: idle, aborted, or a dump of no managed database.
LEMMA UpDiscardedKeeps ==
    ASSUME UpInv, NEW u \in Uploads, SweepExpired(u) \/ AbortUpload(u)
    PROVE  UpInv'
<1>1. UpPageKept /\ UpFilesKept /\ UpLoopKept
  BY DEF UpInv
<1>2. WithoutSessions({u}) /\ UNCHANGED <<upClient, upReq, upLoop, upOut, upTorn, upLoose>>
  BY DEF SweepExpired, AbortUpload
<1>3. UpPageKept'
  BY <1>1, <1>2 DEF UpPageKept
<1> QED
  BY <1>1, <1>2, <1>3, UpDiscardKeeps, UpLoopStays DEF UpInv

LEMMA UpTakeKeeps ==
    ASSUME UpInv, NEW r \in upReq, TakeChunk(r)
    PROVE  UpInv'
<1>1. UpPageKept /\ UpFilesKept /\ UpLoopKept
  BY DEF UpInv
<1>2. upLoop = NoReq /\ UNCHANGED <<upNext, upPart, upOut, upTorn, upLoose>>
  BY DEF TakeChunk
<1>3. CASE UNCHANGED upLoop /\ (Answer(r, FALSE) \/ Answer(r, TRUE))
  <2>1. UpPageKept'
    BY <1>1, <1>3, UpAnswerKeeps
  <2>2. UpLoopKept'
    BY <1>2, <1>3 DEF UpLoopKept
  <2> QED
    BY <1>1, <1>2, <2>1, <2>2, UpFilesSame DEF UpInv
<1>4. CASE /\ ~Unacceptable(r) /\ ~AlreadyApplied(r)
           /\ upLoop' = r /\ UNCHANGED <<upClient, upReq, upCalls>>
  <2>1. r.chunk = upNext[r.up]
    BY <1>1, <1>4, ChunkedUploadAssumption DEF Unacceptable, AlreadyApplied, UpPageKept, UpFilesKept, UpRequests
  <2>2. UpPageKept' /\ UpLoopKept'
    BY <1>1, <1>2, <1>4, <2>1 DEF UpPageKept, UpLoopKept
  <2> QED
    BY <1>1, <1>2, <2>2, UpFilesSame DEF UpInv
<1> QED
  BY <1>3, <1>4 DEF TakeChunk

\* A chunk, or a piece of one, is in the part before its session knows.
LEMMA UpAppendedIs ==
    ASSUME UpFilesKept, NEW u \in Uploads, NEW n \in Nat, Appended(u, <<n>>)
    PROVE  /\ upPart' \in [Uploads -> Seq(Nat) \cup {NoPart}] /\ upPart'[u] # NoPart
           /\ upPart[u] # NoPart => upPart'[u] = upPart[u] \o <<n>>
           /\ \A v \in Uploads \ {u} : upPart'[v] = upPart[v]
           /\ upLoose' = (IF upNext[u] = NoSession THEN upLoose \cup {u} ELSE upLoose)
<1> DEFINE new == IF upPart[u] = NoPart THEN <<n>> ELSE upPart[u] \o <<n>>
<1>1. upPart \in [Uploads -> Seq(Nat) \cup {NoPart}] /\ upPart' = [upPart EXCEPT ![u] = new]
      /\ upLoose' = (IF upNext[u] = NoSession THEN upLoose \cup {u} ELSE upLoose)
  BY DEF UpFilesKept, Appended
<1>2. new \in Seq(Nat) /\ new # NoPart
  <2>1. CASE upPart[u] = NoPart
    BY <2>1 DEF NoPart
  <2>2. CASE upPart[u] # NoPart
    <3>1. upPart[u] \in Seq(Nat) /\ new = upPart[u] \o <<n>>
      BY <1>1, <2>2
    <3>2. new \in Seq(Nat) /\ Len(new) = Len(upPart[u]) + 1 /\ new[Len(upPart[u]) + 1] = n
      BY <3>1
    <3>3. Len(new) = 1 => new[1] = n
      BY <3>1, <3>2
    <3>4. Len(NoPart) = 1 /\ NoPart[1] = -1
      BY DEF NoPart
    <3> HIDE DEF new
    <3> QED
      BY <3>2, <3>3, <3>4
  <2> QED
    BY <2>1, <2>2
<1>3. upPart[u] # NoPart => new = upPart[u] \o <<n>>
  OBVIOUS
<1> HIDE DEF new
<1> QED
  BY <1>1, <1>2, <1>3

LEMMA UpWriteKeeps ==
    ASSUME UpInv, WriteChunk
    PROVE  UpInv'
<1>1. UpPageKept /\ UpFilesKept /\ UpLoopKept
  BY DEF UpInv
<1>2. upLoop # NoReq
  BY DEF WriteChunk
<1>3. PICK r \in upReq : r = upLoop
  BY <1>1, <1>2 DEF UpLoopKept
<1>4. PICK u \in Uploads : u = r.up
  BY <1>1 DEF UpPageKept, UpRequests
<1>5. /\ Appended(u, <<r.chunk>>) /\ Counted(u) /\ Answer(r, TRUE)
      /\ upLoop' = NoReq /\ UNCHANGED <<upOut, upTorn>>
  BY <1>3, <1>4 DEF WriteChunk
<1>6. /\ r.chunk \in 1..UpChunks /\ r.chunk \in Nat /\ (upNext[u] # NoSession => r.chunk = upNext[u])
  BY <1>1, <1>2, <1>3, <1>4, ChunkedUploadAssumption DEF UpPageKept, UpRequests, UpLoopKept
<1>7. UpPageKept'
  BY <1>1, <1>5, UpAnswerKeeps
<1>8. UpLoopKept'
  BY <1>5 DEF UpLoopKept
<1>9. UpFilesKept'
  <2>1. /\ upPart' \in [Uploads -> Seq(Nat) \cup {NoPart}] /\ upPart'[u] # NoPart
        /\ upPart[u] # NoPart => upPart'[u] = upPart[u] \o <<r.chunk>>
        /\ \A v \in Uploads \ {u} : upPart'[v] = upPart[v]
        /\ upLoose' = (IF upNext[u] = NoSession THEN upLoose \cup {u} ELSE upLoose)
    BY <1>1, <1>5, <1>6, UpAppendedIs
  <2>2. /\ upNext' \in [Uploads -> 0..(UpChunks + 1)]
        /\ upNext'[u] = (IF upNext[u] = NoSession THEN NoSession ELSE upNext[u] + 1)
        /\ \A v \in Uploads \ {u} : upNext'[v] = upNext[v]
    <3>1. upNext \in [Uploads -> 0..(UpChunks + 1)]
      BY <1>1 DEF UpFilesKept
    <3>2. CASE upNext[u] = NoSession
      BY <1>5, <3>1, <3>2 DEF Counted
    <3>3. CASE upNext[u] # NoSession
      <4>1. upNext' = [upNext EXCEPT ![u] = upNext[u] + 1] /\ upNext[u] + 1 \in 0..(UpChunks + 1)
        BY <1>5, <1>6, <3>3, ChunkedUploadAssumption DEF Counted
      <4> QED
        BY <3>1, <3>3, <4>1
    <3> QED
      BY <3>2, <3>3
  <2>3. ASSUME NEW v \in Uploads PROVE UpCounted(v)'
    <3>1. CASE v # u
      BY <1>1, <1>5, <2>1, <2>2, <3>1 DEF UpFilesKept, UpCounted
    <3>2. CASE v = u /\ upNext[u] = NoSession
      BY <2>2, <3>2 DEF UpCounted
    <3>3. CASE v = u /\ upNext[u] # NoSession
      <4>1. UpUpTo(r.chunk) \o <<r.chunk>> = UpUpTo(r.chunk + 1)
        <5>1. r.chunk \in Nat /\ r.chunk # 0
          BY <1>6, ChunkedUploadAssumption
        <5> QED
          BY <5>1, UpUpToGrows
      <4>2. upPart[u] # NoPart /\ (u \notin upTorn => upPart[u] = UpUpTo(r.chunk))
        BY <1>1, <1>6, <3>3 DEF UpFilesKept, UpCounted
      <4> QED
        BY <1>5, <1>6, <2>1, <2>2, <3>3, <4>1, <4>2 DEF UpCounted
    <3> QED
      BY <3>1, <3>2, <3>3
  <2>4. UploadsAreWhole'
    <3>1. \A v \in Uploads : upPart'[v] # NoPart => upNext'[v] # NoSession \/ v \in upLoose'
      <4>1. upNext[u] # NoSession => upNext'[u] # NoSession
        BY <1>6, <2>2 DEF NoSession
      <4> QED
        BY <1>1, <2>1, <2>2, <4>1 DEF UpFilesKept, UploadsAreWhole, PartsHaveSessions
    <3> QED
      BY <1>1, <1>5, <3>1 DEF UpFilesKept, UploadsAreWhole, PartsHaveSessions, DeliveredIsWhole
  <2> QED
    BY <1>1, <1>5, <2>1, <2>2, <2>3, <2>4 DEF UpFilesKept
<1> QED
  BY <1>7, <1>8, <1>9 DEF UpInv

LEMMA UpWriteFailsKeeps ==
    ASSUME UpInv, WriteChunkFails
    PROVE  UpInv'
<1>1. UpPageKept /\ UpFilesKept /\ UpLoopKept
  BY DEF UpInv
<1>2. upLoop # NoReq
  BY DEF WriteChunkFails
<1>3. PICK r \in upReq : r = upLoop
  BY <1>1, <1>2 DEF UpLoopKept
<1>4. PICK u \in Uploads : u = r.up
  BY <1>1 DEF UpPageKept, UpRequests
<1>5. /\ \/ Appended(u, <<0>>) /\ upTorn' = upTorn \cup {u}
         \/ UNCHANGED <<upPart, upTorn, upLoose>>
      /\ Answer(r, FALSE) /\ upLoop' = NoReq /\ UNCHANGED <<upNext, upOut>>
  BY <1>3, <1>4 DEF WriteChunkFails
<1>6. UpPageKept' /\ UpLoopKept'
  BY <1>1, <1>5, UpAnswerKeeps DEF UpLoopKept
<1>7. CASE UNCHANGED <<upPart, upTorn, upLoose>>
  BY <1>1, <1>5, <1>6, <1>7, UpFilesSame DEF UpInv
<1>8. CASE Appended(u, <<0>>) /\ upTorn' = upTorn \cup {u}
  <2>1. /\ upPart' \in [Uploads -> Seq(Nat) \cup {NoPart}] /\ upPart'[u] # NoPart
        /\ \A v \in Uploads \ {u} : upPart'[v] = upPart[v]
        /\ upLoose' = (IF upNext[u] = NoSession THEN upLoose \cup {u} ELSE upLoose)
    BY <1>1, <1>8, UpAppendedIs
  <2>2. \A v \in Uploads : UpCounted(v)'
    BY <1>1, <1>5, <1>8, <2>1 DEF UpFilesKept, UpCounted
  <2>3. UploadsAreWhole'
    BY <1>1, <1>5, <1>8, <2>1 DEF UpFilesKept, UploadsAreWhole, PartsHaveSessions, DeliveredIsWhole
  <2>4. UpFilesKept'
    BY <1>1, <1>5, <1>8, <2>1, <2>2, <2>3 DEF UpFilesKept
  <2> QED
    BY <1>6, <2>4 DEF UpInv
<1> QED
  BY <1>5, <1>7, <1>8

\* The page hears of the end, if it still waits for it.
LEMMA UpFinishedKeeps ==
    ASSUME UpPageKept, NEW u \in Uploads, NEW phase \in {"done", "stopped"}, Finished(u, phase), UNCHANGED upReq
    PROVE  UpPageKept'
<1>1. CASE upClient[u].phase = "completing"
  <2>1. upClient' = [upClient EXCEPT ![u] = Page(phase, 0, 0)]
    BY <1>1 DEF Finished
  <2> QED
    BY <2>1, UpPageTurns
<1>2. CASE upClient[u].phase # "completing"
  <2>1. upClient' = upClient
    BY <1>2 DEF Finished, UpPageKept
  <2> QED
    BY <2>1 DEF UpPageKept
<1> QED
  BY <1>1, <1>2

LEMMA UpCompleteKeeps ==
    ASSUME UpInv, NEW u \in Uploads, CompleteUpload(u)
    PROVE  UpInv'
<1>1. UpPageKept /\ UpFilesKept /\ UpLoopKept
  BY DEF UpInv
<1>2. /\ upNext[u] = UpChunks + 1 /\ upPart[u] # NoPart /\ upOut' = [upOut EXCEPT ![u] = upPart[u]]
      /\ upPart' = [upPart EXCEPT ![u] = NoPart] /\ upNext' = [upNext EXCEPT ![u] = NoSession]
      /\ Finished(u, "done") /\ UNCHANGED <<upReq, upLoop, upTorn, upLoose>>
  BY DEF CompleteUpload, CompleteArrives
<1>3. UpPageKept'
  BY <1>1, <1>2, UpFinishedKeeps
<1>4. /\ upNext' \in [Uploads -> 0..(UpChunks + 1)] /\ upPart' \in [Uploads -> Seq(Nat) \cup {NoPart}]
      /\ upOut' \in [Uploads -> Seq(Nat) \cup {NoPart}]
      /\ upNext'[u] = NoSession /\ upPart'[u] = NoPart /\ upOut'[u] = upPart[u]
      /\ \A v \in Uploads \ {u} : upNext'[v] = upNext[v] /\ upPart'[v] = upPart[v] /\ upOut'[v] = upOut[v]
  BY <1>1, <1>2, ChunkedUploadAssumption DEF UpFilesKept, NoSession
<1>5. u \notin upTorn => upPart[u] = Whole
  <2>1. UpUpTo(UpChunks + 1) = Whole
    BY UpUpToEnds
  <2> QED
    BY <1>1, <1>2, <2>1, ChunkedUploadAssumption DEF UpFilesKept, UpCounted, NoSession
<1>6. UpFilesKept'
  <2>1. \A v \in Uploads : UpCounted(v)'
    BY <1>1, <1>2, <1>4 DEF UpFilesKept, UpCounted
  <2>2. UploadsAreWhole'
    BY <1>1, <1>2, <1>4, <1>5 DEF UpFilesKept, UploadsAreWhole, DeliveredIsWhole, PartsHaveSessions
  <2> QED
    BY <1>1, <1>2, <1>4, <2>1, <2>2 DEF UpFilesKept
<1>7. UpLoopKept'
  BY <1>1, <1>2, <1>4, UpLoopStays
<1> QED
  BY <1>3, <1>6, <1>7 DEF UpInv

LEMMA UpRefusedKeeps ==
    ASSUME UpInv, NEW u \in Uploads, CompleteRefused(u)
    PROVE  UpInv'
<1>1. UpPageKept /\ UpFilesKept /\ UpLoopKept
  BY DEF UpInv
<1>2. /\ UNCHANGED <<upNext, upPart>> \/ WithoutSessions({u})
      /\ Finished(u, "stopped") /\ UNCHANGED <<upReq, upLoop, upTorn, upLoose, upOut>>
  BY DEF CompleteRefused, CompleteArrives
<1>3. UpPageKept'
  BY <1>1, <1>2, UpFinishedKeeps
<1>4. UpFilesKept' /\ \A v \in Uploads : upNext'[v] \in {upNext[v], NoSession}
  BY <1>1, <1>2, UpDiscardKeeps, UpFilesSame
<1>5. UpLoopKept'
  BY <1>1, <1>2, <1>4, UpLoopStays
<1> QED
  BY <1>3, <1>4, <1>5 DEF UpInv

LEMMA UpImportKeeps ==
    ASSUME UpInv, NEW u \in Uploads, ImportDump(u)
    PROVE  UpInv'
<1>1. upOut' = [upOut EXCEPT ![u] = NoPart] /\ UNCHANGED <<upClient, upReq, upNext, upPart, upLoop, upTorn, upLoose>>
  BY DEF ImportDump
<1>2. UpPageKept /\ UpFilesKept /\ UpLoopKept
  BY DEF UpInv
<1>3. upOut' \in [Uploads -> Seq(Nat) \cup {NoPart}] /\ \A v \in Uploads : upOut'[v] \in {upOut[v], NoPart}
  BY <1>1, <1>2 DEF UpFilesKept
<1>4. UpFilesKept' /\ UpPageKept' /\ UpLoopKept'
  BY <1>1, <1>2, <1>3
     DEF UpFilesKept, UpPageKept, UpLoopKept, UpCounted, UploadsAreWhole, DeliveredIsWhole, PartsHaveSessions
<1> QED
  BY <1>4 DEF UpInv

LEMMA UpRestartKeeps ==
    ASSUME UpInv, UpRestart
    PROVE  UpInv'
<1>1. /\ upNext' = [u \in Uploads |-> NoSession] /\ upReq' = {} /\ upLoop' = NoReq
      /\ upLoose' = upLoose \cup {u \in Uploads : upPart[u] # NoPart}
      /\ UNCHANGED <<upClient, upPart, upOut, upTorn>>
  BY DEF UpRestart
<1>2. UpPageKept /\ UpFilesKept
  BY DEF UpInv
<1>3. UpPageKept' /\ UpLoopKept'
  BY <1>1, <1>2 DEF UpPageKept, UpLoopKept
<1>4. UpFilesKept'
  BY <1>1, <1>2, ChunkedUploadAssumption
     DEF UpFilesKept, UpCounted, UploadsAreWhole, DeliveredIsWhole, PartsHaveSessions, NoSession
<1> QED
  BY <1>3, <1>4 DEF UpInv

LEMMA UpNextKeeps == UpInv /\ [UpNext]_upVars => UpInv'
<1> SUFFICES ASSUME UpInv, [UpNext]_upVars PROVE UpInv'
  OBVIOUS
<1>1. ASSUME NEW u \in Uploads, ClientGivesUp(u) \/ ClientRetries(u) PROVE UpInv'
  BY <1>1, UpClientKeeps
<1>2. ASSUME NEW u \in Uploads, InitUpload(u) PROVE UpInv'
  BY <1>2, UpInitUploadKeeps
<1>3. ASSUME NEW u \in Uploads, SweepExpired(u) \/ AbortUpload(u) PROVE UpInv'
  BY <1>3, UpDiscardedKeeps
<1>4. ASSUME NEW u \in Uploads, CompleteUpload(u) PROVE UpInv'
  BY <1>4, UpCompleteKeeps
<1>5. ASSUME NEW u \in Uploads, CompleteRefused(u) PROVE UpInv'
  BY <1>5, UpRefusedKeeps
<1>6. ASSUME NEW u \in Uploads, ImportDump(u) PROVE UpInv'
  BY <1>6, UpImportKeeps
<1>7. ASSUME NEW r \in upReq, TakeChunk(r) PROVE UpInv'
  BY <1>7, UpTakeKeeps
<1>8. CASE WriteChunk
  BY <1>8, UpWriteKeeps
<1>9. CASE WriteChunkFails
  BY <1>9, UpWriteFailsKeeps
<1>10. CASE UpRestart
  BY <1>10, UpRestartKeeps
<1>11. CASE UNCHANGED upVars
  <2>1. UpPageKept /\ UpFilesKept /\ UpLoopKept
    BY DEF UpInv
  <2>2. UpFilesKept' /\ UpPageKept' /\ UpLoopKept'
    BY <1>11, <2>1, UpFilesSame DEF UpPageKept, UpLoopKept, upVars
  <2> QED
    BY <2>2 DEF UpInv
<1> QED
  BY <1>1, <1>2, <1>3, <1>4, <1>5, <1>6, <1>7, <1>8, <1>9, <1>10, <1>11 DEF UpNext

\* The invariant holds of uploads whatever is lost, late, sent again or
\* restarted.
THEOREM UpInvariance == UpSpec => []UpInv
<1>1. UpInv /\ [UpNext]_upVars => UpInv'
  BY UpNextKeeps
<1> QED
  BY UpInitial, <1>1, PTL DEF UpSpec

\* Phases, chunks and counts are in their ranges, and the loop writes what was
\* sent.
THEOREM UpTypeCorrect == UpSpec => []UpTypeOK
<1>1. UpInv => UpTypeOK
  BY ChunkedUploadAssumption DEF UpInv, UpPageKept, UpFilesKept, UpLoopKept, UpRequests, UpTypeOK, NoSession
<1> QED
  BY UpInvariance, <1>1, PTL

\* For any number of uploads, chunks and attempts: a file that is put in place
\* is whole unless a write failed in its middle, and a part that has lost its
\* session did so in a restart or during a write.
THEOREM UploadsWhole == UpSpec => []UploadsAreWhole
<1>1. UpInv => UploadsAreWhole
  BY DEF UpInv, UpFilesKept
<1> QED
  BY UpInvariance, <1>1, PTL

(***************************************************************************)
(* TerminalSession, for any terminals, descriptors and output              *)
(***************************************************************************)

\* The number is still the terminal's own pty.
HasPty(s) == tmPhase[s] \in {"open", "raised"} /\ ~(tmLoop.s = s /\ tmLoop.step = "join")

TmTypes ==
    /\ tmFd \in [TmFds -> TmSessions \cup {"file", "free"}]
    /\ tmPhase \in [TmSessions -> {"new", "open", "closed", "raised", "stuck", "late"}]
    /\ tmNum \in [TmSessions -> TmFds \cup {TmNone}]
    /\ tmShell \in [TmSessions -> BOOLEAN] /\ tmJob \in [TmSessions -> BOOLEAN]
    /\ tmOut \in [TmSessions -> Nat] /\ tmMade \in [TmSessions -> Nat]
    /\ tmReader \in [TmSessions -> {"none", "check", "select", "read", "blocked", "gone"}]
    /\ tmStop \in [TmSessions -> BOOLEAN]
    /\ tmPump \in [TmSessions -> {"none", "runs", "ended", "cancelled"}]
    /\ tmQueue \in [TmSessions -> Seq(TmSessions \cup {"file", "end"})]
    /\ tmSent \in [TmSessions -> Seq(TmSessions \cup {"file"})]

\* A number refers to the terminal whose number it is, while that is open; and
\* while a thread is waited for whose number is free, no terminal takes it.
FdsAreOwn ==
    /\ \A s \in TmSessions : HasPty(s) => tmNum[s] \in TmFds /\ tmFd[tmNum[s]] = s
    /\ \A n \in TmFds : \A s \in TmSessions : tmFd[n] = s => HasPty(s) /\ n = tmNum[s]
    /\ tmLoop.step = "join" => tmFd[tmNum[tmLoop.s]] \notin TmSessions

\* The one close there may be.
ClosesOne ==
    \/ tmLoop = TmFree
    \/ /\ tmLoop.s \in TmSessions
       /\ tmLoop.step \in {"term", "kill", "close", "join", "raised"}
       /\ tmPhase[tmLoop.s] = "open" /\ tmStop[tmLoop.s]
       /\ tmLoop.step \in {"close", "join"} => ~tmShell[tmLoop.s]

\* The phases of a terminal.
PhaseIs(s) ==
    /\ tmPhase[s] = "new" => /\ tmReader[s] = "none" /\ tmPump[s] = "none" /\ ~tmStop[s]
                             /\ ~tmShell[s] /\ ~tmJob[s]
    /\ tmPhase[s] # "new" => tmNum[s] \in TmFds /\ tmReader[s] # "none" /\ tmPump[s] # "none"
    /\ tmPhase[s] \in {"closed", "stuck", "late"} => ~tmShell[s]
    /\ tmPhase[s] = "closed" => tmReader[s] = "gone"
    /\ tmPhase[s] = "stuck" => tmReader[s] \in {"blocked", "check", "gone"}
    /\ tmPhase[s] \in {"closed", "raised", "stuck", "late"} => tmStop[s]
    /\ tmReader[s] = "blocked" => tmStop[s]
    /\ ~tmStop[s] => tmLoop.s # s

PhasesAre == \A s \in TmSessions : PhaseIs(s)

\* The sentinel is on its way.
EndIsIn(s) == tmReader[s] = "gone" /\ tmPump[s] = "runs"

\* What a terminal that nobody has closed has written is in the pty, in the
\* queue or sent; the sentinel comes last, when there is nobody left to write.
AllIsIn(s) ==
    ~tmStop[s] =>
        /\ tmMade[s] = tmOut[s] + Len(tmQueue[s]) - (IF EndIsIn(s) THEN 1 ELSE 0) + Len(tmSent[s])
        /\ \A i \in 1..Len(tmQueue[s]) : tmQueue[s][i] = "end" <=> i = Len(tmQueue[s]) /\ EndIsIn(s)
        /\ EndIsIn(s) => tmQueue[s] # <<>>
        /\ tmPump[s] = "ended" => tmReader[s] = "gone" /\ tmQueue[s] = <<>>
        /\ tmPump[s] # "cancelled"
        /\ tmReader[s] = "gone" => tmOut[s] = 0 /\ ~tmShell[s] /\ ~tmJob[s]
        /\ tmReader[s] = "read" /\ tmOut[s] = 0 => ~tmShell[s] /\ ~tmJob[s]

\* Output only of the terminal itself, and none before it opens.
OwnOutput(s) ==
    /\ tmQueue[s] \in Seq({s, "file", "end"}) /\ tmSent[s] \in Seq({s, "file"})
    /\ tmPhase[s] = "new" =>
           tmQueue[s] = <<>> /\ tmSent[s] = <<>> /\ tmOut[s] = 0 /\ tmMade[s] = 0

\* What is true of the output as long as no thread is late.
DataIs(s) == OwnOutput(s) /\ AllIsIn(s)

OutputIsKept == NoneIsLate => \A s \in TmSessions : DataIs(s)

TmInv == TmTypes /\ FdsAreOwn /\ ClosesOne /\ PhasesAre /\ OutputIsKept

\* A step of another terminal; only a late thread may take some of the output.
TmSame(u) ==
    /\ tmPhase'[u] = tmPhase[u] /\ tmNum'[u] = tmNum[u]
    /\ tmShell'[u] = tmShell[u] /\ tmJob'[u] = tmJob[u]
    /\ NoneIsLate => tmOut'[u] = tmOut[u]
    /\ tmMade'[u] = tmMade[u]
    /\ tmReader'[u] = tmReader[u] /\ tmStop'[u] = tmStop[u]
    /\ tmQueue'[u] = tmQueue[u] /\ tmPump'[u] = tmPump[u] /\ tmSent'[u] = tmSent[u]

-----------------------------------------------------------------------------
\* No terminal is what else a number refers to, what ends a queue or what the
\* loop does when it is free.
LEMMA TmNames ==
    ASSUME NEW s \in TmSessions
    PROVE  s # "file" /\ s # "free" /\ s # "end" /\ s # "none"
BY TerminalSessionAssumption

\* What comes of a queue by a step.
LEMMA TmQueued ==
    ASSUME NEW S, NEW q \in Seq(S), NEW x \in S
    PROVE  /\ q \o <<x>> \in Seq(S) /\ Len(q \o <<x>>) = Len(q) + 1
           /\ \A i \in 1..Len(q) : (q \o <<x>>)[i] = q[i]
           /\ (q \o <<x>>)[Len(q) + 1] = x
           /\ Append(q, x) \in Seq(S) /\ Len(Append(q, x)) = Len(q) + 1
           /\ q \o <<>> = q /\ Len(q) \in Nat
OBVIOUS

LEMMA TmTaken ==
    ASSUME NEW S, NEW q \in Seq(S), q # <<>>
    PROVE  /\ Tail(q) \in Seq(S) /\ Len(Tail(q)) = Len(q) - 1 /\ Len(q) >= 1
           /\ Head(q) \in S /\ Head(q) = q[1]
           /\ \A i \in 1..Len(q) - 1 : Tail(q)[i] = q[i + 1]
           /\ Tail(q) = <<>> <=> Len(q) = 1
<1>1. /\ Tail(q) \in Seq(S) /\ Len(Tail(q)) = Len(q) - 1 /\ Len(q) >= 1
      /\ Head(q) \in S /\ Head(q) = q[1]
      /\ \A i \in 1..Len(q) - 1 : Tail(q)[i] = q[i + 1]
  OBVIOUS
<1>2. \A t \in Seq(S) : t = <<>> <=> Len(t) = 0
  OBVIOUS
<1>3. Len(q) \in Nat
  OBVIOUS
<1>. QED
  BY <1>1, <1>2, <1>3

LEMMA TmLengths ==
    ASSUME TmTypes, NEW s \in TmSessions
    PROVE  /\ tmQueue[s] \in Seq(TmSessions \cup {"file", "end"})
           /\ tmSent[s] \in Seq(TmSessions \cup {"file"})
           /\ Len(tmQueue[s]) \in Nat /\ Len(tmSent[s]) \in Nat
           /\ tmOut[s] \in Nat /\ tmMade[s] \in Nat
<1>1. /\ tmQueue[s] \in Seq(TmSessions \cup {"file", "end"})
      /\ tmSent[s] \in Seq(TmSessions \cup {"file"})
  BY DEF TmTypes
<1>2. tmOut[s] \in Nat /\ tmMade[s] \in Nat
  BY DEF TmTypes
<1>3. \A S : \A q \in Seq(S) : Len(q) \in Nat
  OBVIOUS
<1>. QED
  BY <1>1, <1>2, <1>3

\* A terminal's step leaves the others.
LEMMA TmStepKeeps ==
    ASSUME TmInv, NEW s \in TmSessions, tmLoop'.s \in {s, "none", tmLoop.s},
           \A u \in TmSessions \ {s} : TmSame(u),
           tmPhase[s] = "late" => tmPhase'[s] = "late",
           TmTypes', FdsAreOwn', ClosesOne', PhaseIs(s)', NoneIsLate /\ NoneIsLate' => DataIs(s)'
    PROVE  TmInv'
<1>1. ASSUME NEW u \in TmSessions, u # s PROVE PhaseIs(u)'
  <2>1. TmSame(u) /\ PhaseIs(u)
    BY <1>1 DEF TmInv, PhasesAre
  <2>2. ~tmStop'[u] => tmLoop'.s # u
    BY <2>1, <1>1, TmNames DEF TmSame, PhaseIs
  <2>. QED
    BY <2>1, <2>2 DEF TmSame, PhaseIs
<1>2. ASSUME NoneIsLate' PROVE NoneIsLate
  <2>1. \A u \in TmSessions \ {s} : tmPhase'[u] = tmPhase[u]
    BY DEF TmSame
  <2>. QED
    BY <1>2, <2>1 DEF NoneIsLate
<1>3. ASSUME NEW u \in TmSessions, u # s, NoneIsLate PROVE DataIs(u)'
  <2>1. TmSame(u) /\ DataIs(u)
    BY <1>3 DEF TmInv, OutputIsKept
  <2>2. EndIsIn(u)' = EndIsIn(u)
    BY <2>1 DEF TmSame, EndIsIn
  <2>3. tmOut'[u] = tmOut[u]
    BY <1>3, <2>1 DEF TmSame
  <2>4. OwnOutput(u)'
    BY <2>1, <2>3 DEF TmSame, DataIs, OwnOutput
  <2>5. AllIsIn(u)'
    <3>1. /\ tmStop'[u] = tmStop[u] /\ tmMade'[u] = tmMade[u] /\ tmQueue'[u] = tmQueue[u]
          /\ tmSent'[u] = tmSent[u] /\ tmPump'[u] = tmPump[u] /\ tmReader'[u] = tmReader[u]
          /\ tmShell'[u] = tmShell[u] /\ tmJob'[u] = tmJob[u]
      BY <2>1 DEF TmSame
    <3>2. AllIsIn(u)
      BY <2>1 DEF DataIs
    <3>. QED
      BY <2>2, <2>3, <3>1, <3>2 DEF AllIsIn
  <2>. QED
    BY <2>4, <2>5 DEF DataIs
<1>. QED
  BY <1>1, <1>2, <1>3 DEF TmInv, PhasesAre, OutputIsKept

\* A thread that reads has its terminal's own number, or a number that is no
\* terminal's any more, once its terminal is closed, unless it is late.
LEMMA TmReadsItsOwn ==
    ASSUME TmInv, NEW s \in TmSessions
    PROVE  /\ ~tmStop[s] /\ tmReader[s] # "none" => tmFd[tmNum[s]] = s
           /\ NoneIsLate /\ tmReader[s] \in {"select", "read"} /\ tmFd[tmNum[s]] \in TmSessions
                 => tmFd[tmNum[s]] = s
<1>1. PhaseIs(s) /\ tmPhase[s] \in {"new", "open", "closed", "raised", "stuck", "late"}
  BY DEF TmInv, PhasesAre, TmTypes
<1>2. ~tmStop[s] /\ tmReader[s] # "none" => HasPty(s)
  BY <1>1 DEF PhaseIs, HasPty
<1>3. NoneIsLate /\ tmReader[s] \in {"select", "read"} => tmPhase[s] \in {"open", "raised"}
  BY <1>1 DEF PhaseIs, NoneIsLate
<1>4. HasPty(s) => tmFd[tmNum[s]] = s
  BY DEF TmInv, FdsAreOwn
<1>5. ~HasPty(s) /\ tmPhase[s] \in {"open", "raised"} => tmFd[tmNum[s]] \notin TmSessions
  BY DEF TmInv, FdsAreOwn, HasPty
<1>. QED
  BY <1>2, <1>3, <1>4, <1>5

LEMMA TmInitial == TmInit => TmInv
<1>. SUFFICES ASSUME TmInit PROVE TmInv
  OBVIOUS
<1>1. \A S : <<>> \in Seq(S)
  OBVIOUS
<1>2. TmTypes
  BY <1>1 DEF TmInit, TmTypes
<1>3. \A s \in TmSessions : ~HasPty(s)
  BY DEF TmInit, HasPty
<1>4. FdsAreOwn
  BY <1>3, TmNames DEF TmInit, FdsAreOwn, TmFree
<1>5. ClosesOne
  BY DEF TmInit, ClosesOne
<1>6. PhasesAre
  BY TmNames DEF TmInit, PhasesAre, PhaseIs, TmFree
<1>7. \A s \in TmSessions : OwnOutput(s) /\ AllIsIn(s)
  BY <1>1 DEF TmInit, OwnOutput, AllIsIn, EndIsIn
<1>. QED
  BY <1>2, <1>4, <1>5, <1>6, <1>7 DEF TmInv, OutputIsKept, DataIs

\* Numbers and terminals keep their own.
LEMMA FdsSame ==
    ASSUME TmInv, UNCHANGED <<tmFd, tmNum>>, tmLoop'.step = "join" => tmLoop' = tmLoop,
           \A s \in TmSessions : HasPty(s)' = HasPty(s)
    PROVE  FdsAreOwn'
BY DEF TmInv, FdsAreOwn

LEMMA ClosesSame ==
    ASSUME TmInv, UNCHANGED <<tmPhase, tmStop, tmLoop>>,
           \A s \in TmSessions : tmShell'[s] => tmShell[s]
    PROVE  ClosesOne'
BY DEF TmInv, ClosesOne

LEMMA TmFilesKeep ==
    ASSUME TmInv, OtherFiles
    PROVE  TmInv'
<1>0. UNCHANGED <<tmPhase, tmNum, tmStop, tmLoop, tmShells, tmOutput, tmReaders, tmPumps>>
  BY DEF OtherFiles
<1>. USE <1>0 DEF tmShells, tmOutput, tmReaders, tmPumps
<1>1. PICK n \in TmFds :
         \/ tmFd[n] = "free" /\ tmFd' = [tmFd EXCEPT ![n] = "file"]
         \/ tmFd[n] = "file" /\ tmFd' = [tmFd EXCEPT ![n] = "free"]
  BY DEF OtherFiles, TmLowest, TmPut
<1>2. /\ tmFd[n] \notin TmSessions /\ tmFd'[n] \notin TmSessions
      /\ \A m \in TmFds \ {n} : tmFd'[m] = tmFd[m]
  BY <1>1, TmNames DEF TmInv, TmTypes
<1>3. \A s \in TmSessions : HasPty(s)' = HasPty(s)
  BY DEF HasPty
<1>4. TmTypes'
  BY <1>1 DEF TmInv, TmTypes
<1>5. FdsAreOwn'
  <2>1. ASSUME NEW s \in TmSessions, HasPty(s) PROVE tmNum[s] \in TmFds /\ tmFd'[tmNum[s]] = s
    BY <2>1, <1>2 DEF TmInv, FdsAreOwn
  <2>2. ASSUME NEW m \in TmFds, NEW s \in TmSessions, tmFd'[m] = s PROVE HasPty(s) /\ m = tmNum[s]
    BY <2>2, <1>2 DEF TmInv, FdsAreOwn
  <2>3. ASSUME tmLoop.step = "join" PROVE tmFd'[tmNum[tmLoop.s]] \notin TmSessions
    <3>1. tmLoop.s \in TmSessions /\ tmPhase[tmLoop.s] = "open"
      BY <2>3 DEF TmInv, ClosesOne, TmFree
    <3>2. tmNum[tmLoop.s] \in TmFds
      BY <3>1 DEF TmInv, PhasesAre, PhaseIs
    <3>. QED
      BY <2>3, <3>2, <1>2 DEF TmInv, FdsAreOwn
  <2>. QED
    BY <2>1, <2>2, <2>3, <1>3 DEF FdsAreOwn
<1>6. ClosesOne'
  BY ClosesSame
<1>7. \A s \in TmSessions : PhaseIs(s)' = PhaseIs(s)
  BY DEF PhaseIs
<1>8. \A s \in TmSessions : AllIsIn(s)' = AllIsIn(s) /\ OwnOutput(s)' = OwnOutput(s)
  BY DEF AllIsIn, EndIsIn, OwnOutput
<1>9. NoneIsLate' = NoneIsLate
  BY DEF NoneIsLate
<1>. QED
  BY <1>4, <1>5, <1>6, <1>7, <1>8, <1>9 DEF TmInv, PhasesAre, OutputIsKept, DataIs

LEMMA TmOpenKeeps ==
    ASSUME TmInv, NEW s \in TmSessions, OpenTerminal(s)
    PROVE  TmInv'
<1>0. /\ tmLoop = TmFree /\ tmPhase[s] = "new"
      /\ UNCHANGED <<tmJob, tmOut, tmMade, tmStop, tmQueue, tmSent, tmLoop>>
      /\ tmPhase' = [tmPhase EXCEPT ![s] = "open"] /\ tmShell' = [tmShell EXCEPT ![s] = TRUE]
      /\ tmReader' = [tmReader EXCEPT ![s] = "check"] /\ tmPump' = [tmPump EXCEPT ![s] = "runs"]
  BY DEF OpenTerminal, TmPut, tmOutput
<1>1. PICK n \in TmFds : /\ tmFd[n] = "free" /\ tmFd' = [tmFd EXCEPT ![n] = s]
                         /\ tmNum' = [tmNum EXCEPT ![s] = n]
  BY DEF OpenTerminal, TmPut, TmLowest
<1>. USE <1>0
<1>2. TmTypes
  BY DEF TmInv
<1>3. TmTypes'
  BY <1>1, <1>2 DEF TmTypes
<1>4. \A u \in TmSessions \ {s} : TmSame(u)
  BY <1>1, <1>2 DEF TmTypes, TmSame
<1>5. /\ tmPhase'[s] = "open" /\ tmNum'[s] = n /\ tmShell'[s] /\ tmReader'[s] = "check"
      /\ tmPump'[s] = "runs"
  BY <1>1, <1>2 DEF TmTypes
<1>6. FdsAreOwn'
  <2>1. tmLoop'.step # "join" /\ tmLoop'.s # s /\ ~HasPty(s)
    BY TmNames DEF TmFree, HasPty
  <2>2. HasPty(s)' /\ tmFd'[n] = s
    BY <1>1, <1>2, <1>5, <2>1 DEF HasPty, TmTypes
  <2>3. \A u \in TmSessions \ {s} : HasPty(u)' = HasPty(u) /\ tmNum'[u] = tmNum[u]
    BY <1>4 DEF HasPty, TmSame
  <2>4. \A m \in TmFds \ {n} : tmFd'[m] = tmFd[m]
    BY <1>1, <1>2 DEF TmTypes
  <2>5. ASSUME NEW u \in TmSessions \ {s}, HasPty(u) PROVE tmNum[u] \in TmFds \ {n} /\ tmFd[tmNum[u]] = u
    BY <2>5, <1>1, TmNames DEF TmInv, FdsAreOwn
  <2>6. ASSUME NEW m \in TmFds \ {n}, NEW u \in TmSessions, tmFd[m] = u
        PROVE  u # s /\ HasPty(u) /\ m = tmNum[u]
    BY <2>6, <2>1 DEF TmInv, FdsAreOwn
  <2>. QED
    BY <1>5, <2>1, <2>2, <2>3, <2>4, <2>5, <2>6 DEF FdsAreOwn
<1>7. ClosesOne'
  BY DEF ClosesOne
<1>8. PhaseIs(s)
  BY DEF TmInv, PhasesAre
<1>9. PhaseIs(s)'
  BY <1>5, TmNames DEF PhaseIs, TmFree
<1>10. ASSUME NoneIsLate PROVE DataIs(s)'
  <2>1. OwnOutput(s)
    BY <1>10 DEF TmInv, OutputIsKept, DataIs
  <2>2. tmQueue[s] = <<>> /\ tmSent[s] = <<>> /\ tmOut[s] = 0 /\ tmMade[s] = 0
    BY <2>1 DEF OwnOutput
  <2>3. AllIsIn(s)'
    BY <1>5, <2>2 DEF AllIsIn, EndIsIn
  <2>4. OwnOutput(s)'
    BY <1>5, <2>1 DEF OwnOutput
  <2>. QED
    BY <2>3, <2>4 DEF DataIs
<1>. QED
  BY <1>3, <1>4, <1>6, <1>7, <1>9, <1>10, TmStepKeeps

LEMMA TmWriteKeeps ==
    ASSUME TmInv, NEW s \in TmSessions, ShellWrites(s)
    PROVE  TmInv'
<1>0. /\ tmShell[s] \/ tmJob[s]
      /\ UNCHANGED <<tmFd, tmPhase, tmNum, tmStop, tmLoop, tmShell, tmJob, tmReader, tmQueue, tmPump, tmSent>>
      /\ tmOut' = [tmOut EXCEPT ![s] = tmOut[s] + 1] /\ tmMade' = [tmMade EXCEPT ![s] = tmMade[s] + 1]
  BY DEF ShellWrites, TmPut, tmShells, tmReaders, tmPumps
<1>. USE <1>0
<1>2. TmTypes
  BY DEF TmInv
<1>3. TmTypes'
  <2>1. tmOut' \in [TmSessions -> Nat] /\ tmMade' \in [TmSessions -> Nat]
    BY <1>2 DEF TmTypes
  <2>. QED
    BY <1>2, <2>1 DEF TmTypes
<1>4. /\ \A u \in TmSessions \ {s} : TmSame(u)
      /\ tmOut'[s] = tmOut[s] + 1 /\ tmMade'[s] = tmMade[s] + 1 /\ tmOut[s] \in Nat /\ tmMade[s] \in Nat
  BY <1>2 DEF TmTypes, TmSame
<1>6. FdsAreOwn'
  BY FdsSame DEF HasPty
<1>7. ClosesOne'
  BY ClosesSame
<1>8. PhaseIs(s)
  BY DEF TmInv, PhasesAre
<1>9. PhaseIs(s)'
  BY <1>8 DEF PhaseIs
<1>10. ASSUME NoneIsLate, ~tmStop[s] PROVE AllIsIn(s)'
  <2>0. AllIsIn(s)
    BY <1>10 DEF TmInv, OutputIsKept, DataIs
  <2>1. Len(tmQueue[s]) \in Nat /\ Len(tmSent[s]) \in Nat
    BY <1>2 DEF TmTypes
  <2>2. EndIsIn(s)' = EndIsIn(s)
    BY DEF EndIsIn
  <2>3. ~tmStop[s] => tmReader[s] # "gone" /\ ~EndIsIn(s)
    BY <2>0 DEF AllIsIn, EndIsIn
  <2>4. ~tmStop[s] => tmMade[s] = tmOut[s] + Len(tmQueue[s]) - 0 + Len(tmSent[s])
    BY <2>0, <2>3 DEF AllIsIn
  <2>5. ASSUME NEW q \in Nat, NEW t \in Nat, tmMade[s] = tmOut[s] + q - 0 + t
        PROVE  tmMade'[s] = tmOut'[s] + q - 0 + t /\ tmOut'[s] # 0
    BY <1>4, <2>5
  <2>6. ~tmStop[s] => tmMade'[s] = tmOut'[s] + Len(tmQueue[s]) - 0 + Len(tmSent[s]) /\ tmOut'[s] # 0
    BY <2>1, <2>4, <2>5
  <2>. QED
    BY <2>0, <2>2, <2>3, <2>6 DEF AllIsIn
<1>11. ASSUME NoneIsLate PROVE DataIs(s)'
  <2>1. OwnOutput(s) /\ tmPhase[s] # "new"
    BY <1>8, <1>11 DEF PhaseIs, TmInv, OutputIsKept, DataIs
  <2>2. OwnOutput(s)'
    BY <2>1 DEF OwnOutput
  <2>3. AllIsIn(s)'
    BY <1>10, <1>11 DEF AllIsIn
  <2>. QED
    BY <2>2, <2>3 DEF DataIs
<1>. QED
  BY <1>3, <1>4, <1>6, <1>7, <1>9, <1>11, TmStepKeeps

\* Processes of a terminal end, or the shell starts one.
LEMMA TmProcessesKeep ==
    ASSUME TmInv, NEW s \in TmSessions, NEW shell \in BOOLEAN, NEW job \in BOOLEAN,
           TmProcesses(s, shell, job), shell => tmShell[s], job => tmShell[s] \/ tmJob[s],
           tmLoop'.s \in {s, "none", tmLoop.s}, FdsAreOwn', ClosesOne',
           ~tmStop[s] => tmLoop'.s # s
    PROVE  TmInv'
<1>0. /\ UNCHANGED <<tmFd, tmPhase, tmNum, tmStop, tmOut, tmMade, tmReader, tmQueue, tmPump, tmSent>>
      /\ tmShell' = [tmShell EXCEPT ![s] = shell] /\ tmJob' = [tmJob EXCEPT ![s] = job]
  BY DEF TmProcesses, TmPut, tmOutput, tmReaders, tmPumps
<1>. USE <1>0
<1>2. TmTypes
  BY DEF TmInv
<1>3. TmTypes'
  BY <1>2 DEF TmTypes
<1>4. /\ \A u \in TmSessions \ {s} : TmSame(u)
      /\ tmShell'[s] = shell /\ tmJob'[s] = job
  BY <1>2 DEF TmTypes, TmSame
<1>8. PhaseIs(s)
  BY DEF TmInv, PhasesAre
<1>9. PhaseIs(s)'
  BY <1>4, <1>8 DEF PhaseIs
<1>10. ASSUME NoneIsLate PROVE DataIs(s)'
  <2>1. DataIs(s)
    BY <1>10 DEF TmInv, OutputIsKept
  <2>. QED
    BY <1>4, <2>1 DEF DataIs, OwnOutput, AllIsIn, EndIsIn
<1>. QED
  BY <1>3, <1>4, <1>9, <1>10, TmStepKeeps

LEMMA TmForksAndExitsKeep ==
    ASSUME TmInv, NEW s \in TmSessions, ShellForks(s) \/ ProcessExits(s)
    PROVE  TmInv'
<1>1. tmShell[s] \in BOOLEAN /\ tmJob[s] \in BOOLEAN
  BY DEF TmInv, TmTypes
<1>2. PICK shell \in BOOLEAN, job \in BOOLEAN :
         /\ TmProcesses(s, shell, job)
         /\ shell => tmShell[s]
         /\ job => tmShell[s] \/ tmJob[s]
  BY <1>1 DEF ShellForks, ProcessExits
<1>3. tmLoop' = tmLoop
  BY DEF ShellForks, ProcessExits
<1>4. UNCHANGED <<tmFd, tmPhase, tmNum, tmStop>> /\ tmShell' = [tmShell EXCEPT ![s] = shell]
  BY <1>2 DEF TmProcesses, TmPut
<1>5. FdsAreOwn'
  BY <1>3, <1>4, FdsSame DEF HasPty
<1>6. \A u \in TmSessions : tmShell'[u] => tmShell[u]
  BY <1>2, <1>4 DEF TmInv, TmTypes
<1>7. ClosesOne'
  BY <1>3, <1>4, <1>6, ClosesSame
<1>8. ~tmStop[s] => tmLoop'.s # s
  BY <1>3 DEF TmInv, PhasesAre, PhaseIs
<1>. QED
  BY <1>2, <1>3, <1>5, <1>7, <1>8, TmProcessesKeep

\* A step of the thread of a terminal: what of it concerns all terminals.
LEMMA TmReadsKeep ==
    ASSUME TmInv, NEW s \in TmSessions, tmReader[s] \notin {"none", "gone"},
           NEW step \in {"check", "select", "read", "blocked", "gone"},
           NEW item \in Seq(TmSessions \cup {"file", "end"}),
           TmReads(s, step, item), tmOut' \in [TmSessions -> Nat],
           NoneIsLate => \A u \in TmSessions \ {s} : tmOut'[u] = tmOut[u],
           tmPhase[s] = "stuck" => step \in {"check", "gone"},
           step = "blocked" => tmStop[s],
           NoneIsLate => item \in Seq({s, "file", "end"}),
           NoneIsLate /\ ~tmStop[s] => AllIsIn(s)'
    PROVE  TmInv'
<1>0. /\ UNCHANGED <<tmFd, tmPhase, tmNum, tmStop, tmLoop, tmShell, tmJob, tmMade, tmPump, tmSent>>
      /\ tmReader' = [tmReader EXCEPT ![s] = step] /\ tmQueue' = [tmQueue EXCEPT ![s] = tmQueue[s] \o item]
  BY DEF TmReads, TmPut, tmShells, tmPumps
<1>. USE <1>0
<1>2. TmTypes
  BY DEF TmInv
<1>3. TmTypes'
  <2>1. tmQueue[s] \o item \in Seq(TmSessions \cup {"file", "end"})
    <3>1. tmQueue[s] \in Seq(TmSessions \cup {"file", "end"})
      BY <1>2, TmLengths
    <3>. QED
      BY <3>1
  <2>2. tmQueue' \in [TmSessions -> Seq(TmSessions \cup {"file", "end"})]
    BY <1>2, <2>1 DEF TmTypes
  <2>3. tmReader' \in [TmSessions -> {"none", "check", "select", "read", "blocked", "gone"}]
    BY <1>2 DEF TmTypes
  <2>. QED
    BY <1>2, <2>2, <2>3 DEF TmTypes
<1>4. /\ \A u \in TmSessions \ {s} : TmSame(u)
      /\ tmReader'[s] = step /\ tmQueue'[s] = tmQueue[s] \o item
  BY <1>2 DEF TmTypes, TmSame
<1>6. FdsAreOwn'
  BY FdsSame DEF HasPty
<1>7. ClosesOne'
  BY ClosesSame
<1>8. PhaseIs(s)
  BY DEF TmInv, PhasesAre
<1>9. PhaseIs(s)'
  BY <1>4, <1>8 DEF PhaseIs
<1>10. ASSUME NoneIsLate PROVE DataIs(s)'
  <2>1. OwnOutput(s) /\ tmPhase[s] # "new"
    BY <1>8, <1>10 DEF PhaseIs, TmInv, OutputIsKept, DataIs
  <2>2. tmQueue'[s] \in Seq({s, "file", "end"})
    <3>1. tmQueue[s] \in Seq({s, "file", "end"}) /\ item \in Seq({s, "file", "end"})
      BY <1>10, <2>1 DEF OwnOutput
    <3>. QED
      BY <1>4, <3>1
  <2>3. OwnOutput(s)'
    BY <2>1, <2>2 DEF OwnOutput
  <2>4. AllIsIn(s)'
    BY <1>10 DEF AllIsIn
  <2>. QED
    BY <2>3, <2>4 DEF DataIs
<1>. QED
  BY <1>3, <1>4, <1>6, <1>7, <1>9, <1>10, TmStepKeeps

\* The thread goes on without having read.
LEMMA TmGoesOnKeeps ==
    ASSUME TmInv, NEW s \in TmSessions, tmReader[s] \notin {"none", "gone"},
           NEW step \in {"check", "select", "read", "blocked"}, TmReads(s, step, <<>>), UNCHANGED tmOut,
           tmPhase[s] = "stuck" => step = "check",
           step = "blocked" => tmStop[s],
           ~tmStop[s] /\ step = "read" /\ tmOut[s] = 0 => ~tmShell[s] /\ ~tmJob[s]
    PROVE  TmInv'
<1>1. /\ <<>> \in Seq({s, "file", "end"}) /\ <<>> \in Seq(TmSessions \cup {"file", "end"})
      /\ TmTypes
  BY DEF TmInv
<1>2. tmQueue[s] \o <<>> = tmQueue[s]
  <2>1. tmQueue[s] \in Seq(TmSessions \cup {"file", "end"})
    BY <1>1, TmLengths
  <2>. QED
    BY <2>1
<1>3. tmReader'[s] = step /\ tmQueue'[s] = tmQueue[s]
  BY <1>1, <1>2 DEF TmReads, TmPut, TmTypes
<1>4. UNCHANGED <<tmStop, tmShell, tmJob, tmMade, tmPump, tmSent>>
  BY DEF TmReads, tmShells, tmPumps
<1>5. ASSUME NoneIsLate PROVE AllIsIn(s)'
  <2>1. ~EndIsIn(s) /\ ~EndIsIn(s)'
    BY <1>3 DEF EndIsIn
  <2>2. AllIsIn(s)
    BY <1>5 DEF TmInv, OutputIsKept, DataIs
  <2>. QED
    BY <1>3, <1>4, <2>1, <2>2 DEF AllIsIn
<1>6. /\ tmOut' \in [TmSessions -> Nat] /\ \A u \in TmSessions : tmOut'[u] = tmOut[u]
      /\ step \in {"check", "select", "read", "blocked", "gone"}
  BY <1>1 DEF TmTypes
<1>. QED
  BY <1>1, <1>5, <1>6, TmReadsKeep

\* The thread ends: at the end of the output, or once it has been stopped.
LEMMA TmGoneKeeps ==
    ASSUME TmInv, NEW s \in TmSessions, tmReader[s] \notin {"none", "gone"},
           TmReads(s, "gone", <<"end">>), UNCHANGED tmOut,
           ~tmStop[s] => tmReader[s] = "read" /\ tmOut[s] = 0
    PROVE  TmInv'
<1>1. /\ <<"end">> \in Seq({s, "file", "end"}) /\ <<"end">> \in Seq(TmSessions \cup {"file", "end"})
      /\ TmTypes
  BY DEF TmInv
<1>2. tmQueue[s] \in Seq(TmSessions \cup {"file", "end"}) /\ Len(tmSent[s]) \in Nat
  BY <1>1, TmLengths
<1>3. tmReader'[s] = "gone" /\ tmQueue'[s] = tmQueue[s] \o <<"end">>
  BY <1>1 DEF TmReads, TmPut, TmTypes
<1>4. UNCHANGED <<tmStop, tmShell, tmJob, tmMade, tmPump, tmSent>>
  BY DEF TmReads, tmShells, tmPumps
<1>5. NoneIsLate => AllIsIn(s)
  BY DEF TmInv, OutputIsKept, DataIs
<1>6. ASSUME NoneIsLate, ~tmStop[s] PROVE AllIsIn(s)'
  <2>1. tmPump[s] \notin {"none", "ended", "cancelled"} /\ tmPump[s] \in {"none", "runs", "ended", "cancelled"}
    <3>1. PhaseIs(s)
      BY DEF TmInv, PhasesAre
    <3>2. tmPump[s] # "none"
      BY <3>1 DEF PhaseIs
    <3>. QED
      BY <1>1, <1>5, <1>6, <3>2 DEF AllIsIn, TmTypes
  <2>2. ~EndIsIn(s) /\ EndIsIn(s)'
    BY <1>3, <1>4, <2>1 DEF EndIsIn
  <2>3. /\ Len(tmQueue'[s]) = Len(tmQueue[s]) + 1 /\ tmQueue'[s][Len(tmQueue[s]) + 1] = "end"
        /\ \A i \in 1..Len(tmQueue[s]) : tmQueue'[s][i] = tmQueue[s][i]
        /\ Len(tmQueue[s]) \in Nat
    BY <1>2, <1>3, TmQueued
  <2>4. \A i \in 1..Len(tmQueue[s]) : tmQueue[s][i] # "end"
    BY <1>5, <1>6, <2>2 DEF AllIsIn
  <2>5. \A i \in 1..Len(tmQueue'[s]) : tmQueue'[s][i] = "end" <=> i = Len(tmQueue'[s]) /\ EndIsIn(s)'
    BY <2>2, <2>3, <2>4
  <2>6. tmQueue'[s] # <<>>
    BY <2>3
  <2>7. tmOut[s] = 0 /\ ~tmShell[s] /\ ~tmJob[s] /\ tmPump[s] # "ended" /\ tmPump[s] # "cancelled"
    BY <1>5, <1>6, <2>1 DEF AllIsIn
  <2>8. tmMade[s] = tmOut[s] + Len(tmQueue[s]) - 0 + Len(tmSent[s])
    BY <1>5, <1>6, <2>2 DEF AllIsIn
  <2>9. tmMade'[s] = tmOut'[s] + Len(tmQueue'[s]) - 1 + Len(tmSent'[s])
    <3>1. tmOut[s] \in Nat
      BY <1>1 DEF TmTypes
    <3>. QED
      BY <1>2, <1>4, <2>3, <2>8, <3>1
  <2>. QED
    BY <1>3, <1>4, <2>2, <2>5, <2>6, <2>7, <2>9 DEF AllIsIn
<1>. QED
  BY <1>1, <1>6, TmReadsKeep DEF TmTypes

\* The thread has read from what its number refers to.
LEMMA TmHasReadKeeps ==
    ASSUME TmInv, NEW s \in TmSessions, tmReader[s] \in {"read", "blocked"},
           NEW f \in TmSessions \cup {"file"},
           TmReads(s, "check", <<f>>),
           \/ f \in TmSessions /\ tmOut[f] > 0 /\ tmOut' = TmPut(tmOut, f, tmOut[f] - 1)
           \/ f = "file" /\ tmStop[s] /\ UNCHANGED tmOut,
           NoneIsLate => f \in {s, "file"}
    PROVE  TmInv'
<1>1. /\ <<f>> \in Seq(TmSessions \cup {"file", "end"})
      /\ f \in {s, "file"} => <<f>> \in Seq({s, "file", "end"})
      /\ TmTypes
  BY DEF TmInv
<1>2. tmQueue[s] \in Seq(TmSessions \cup {"file", "end"}) /\ Len(tmSent[s]) \in Nat /\ tmOut[s] \in Nat
  BY <1>1, TmLengths
<1>3. tmReader'[s] = "check" /\ tmQueue'[s] = tmQueue[s] \o <<f>>
  BY <1>1 DEF TmReads, TmPut, TmTypes
<1>4. UNCHANGED <<tmStop, tmShell, tmJob, tmMade, tmPump, tmSent>>
  BY DEF TmReads, tmShells, tmPumps
<1>5. NoneIsLate => AllIsIn(s)
  BY DEF TmInv, OutputIsKept, DataIs
<1>6. /\ tmOut' \in [TmSessions -> Nat]
      /\ NoneIsLate => \A u \in TmSessions \ {s} : tmOut'[u] = tmOut[u]
  <2>1. f \in TmSessions /\ tmOut[f] > 0 => tmOut[f] - 1 \in Nat
    BY <1>1 DEF TmTypes
  <2>2. CASE f \in TmSessions /\ tmOut[f] > 0 /\ tmOut' = TmPut(tmOut, f, tmOut[f] - 1)
    <3>1. tmOut' = [tmOut EXCEPT ![f] = tmOut[f] - 1] /\ tmOut \in [TmSessions -> Nat]
      BY <1>1, <2>2 DEF TmTypes, TmPut
    <3>2. tmOut' \in [TmSessions -> Nat] /\ \A u \in TmSessions \ {f} : tmOut'[u] = tmOut[u]
      BY <2>1, <2>2, <3>1
    <3>3. NoneIsLate => f = s
      BY <2>2, TmNames
    <3>. QED
      BY <3>2, <3>3
  <2>3. CASE UNCHANGED tmOut
    BY <1>1, <2>3 DEF TmTypes
  <2>. QED
    BY <2>2, <2>3
<1>7. ASSUME NoneIsLate, ~tmStop[s] PROVE AllIsIn(s)'
  <2>1. f = s /\ tmOut'[s] = tmOut[s] - 1 /\ f # "end"
    BY <1>1, <1>7, TmNames DEF TmTypes, TmPut
  <2>2. ~EndIsIn(s) /\ ~EndIsIn(s)'
    BY <1>3 DEF EndIsIn
  <2>3. /\ Len(tmQueue'[s]) = Len(tmQueue[s]) + 1 /\ tmQueue'[s][Len(tmQueue[s]) + 1] = f
        /\ \A i \in 1..Len(tmQueue[s]) : tmQueue'[s][i] = tmQueue[s][i]
        /\ Len(tmQueue[s]) \in Nat
    BY <1>2, <1>3, TmQueued
  <2>4. \A i \in 1..Len(tmQueue[s]) : tmQueue[s][i] # "end"
    BY <1>5, <1>7, <2>2 DEF AllIsIn
  <2>5. \A i \in 1..Len(tmQueue'[s]) : tmQueue'[s][i] # "end"
    BY <2>1, <2>3, <2>4
  <2>7. tmPump[s] # "ended" /\ tmPump[s] # "cancelled"
    BY <1>5, <1>7 DEF AllIsIn
  <2>8. tmMade[s] = tmOut[s] + Len(tmQueue[s]) - 0 + Len(tmSent[s])
    BY <1>5, <1>7, <2>2 DEF AllIsIn
  <2>9. tmMade'[s] = tmOut'[s] + Len(tmQueue'[s]) - 0 + Len(tmSent'[s])
    <3>1. \A q, t, o \in Nat : o + q - 0 + t = (o - 1) + (q + 1) - 0 + t
      OBVIOUS
    <3>2. tmOut[s] + Len(tmQueue[s]) - 0 + Len(tmSent[s])
             = (tmOut[s] - 1) + (Len(tmQueue[s]) + 1) - 0 + Len(tmSent[s])
      BY <1>2, <2>3, <3>1
    <3>3. tmMade'[s] = tmMade[s] /\ tmSent'[s] = tmSent[s]
      BY <1>4
    <3>. QED
      BY <2>1, <2>3, <2>8, <3>2, <3>3
  <2>. QED
    BY <1>3, <1>4, <2>2, <2>5, <2>7, <2>9 DEF AllIsIn
<1>. QED
  BY <1>1, <1>6, <1>7, TmReadsKeep

LEMMA TmThreadKeeps ==
    ASSUME TmInv, NEW s \in TmSessions,
           CheckStop(s) \/ SelectReturns(s) \/ ReadPty(s) \/ BlockedReturns(s)
    PROVE  TmInv'
<1>1. tmReader[s] \in {"check", "select", "read", "blocked"}
  BY DEF CheckStop, SelectReturns, ReadPty, BlockedReturns
<1>2. /\ ~tmStop[s] => tmFd[tmNum[s]] = s
      /\ NoneIsLate /\ tmReader[s] = "read" /\ tmFd[tmNum[s]] \in TmSessions => tmFd[tmNum[s]] = s
  BY <1>1, TmReadsItsOwn
<1>a. PhaseIs(s)
  BY DEF TmInv, PhasesAre
<1>3. CASE CheckStop(s)
  <2>1. tmPhase[s] = "stuck" => tmStop[s]
    BY <1>a DEF PhaseIs
  <2>. QED
    BY <1>1, <1>3, <2>1, TmGoneKeeps, TmGoesOnKeeps DEF CheckStop
<1>4. CASE SelectReturns(s)
  <2>1. UNCHANGED tmOut /\ tmPhase[s] # "stuck" /\ tmReader[s] = "select"
    BY <1>4, <1>a DEF SelectReturns, PhaseIs
  <2>2. \/ TmReads(s, "read", <<>>) /\ (tmFd[tmNum[s]] = s => tmOut[s] > 0 \/ ~(tmShell[s] \/ tmJob[s]))
        \/ TmReads(s, "check", <<>>)
        \/ TmReads(s, "gone", <<"end">>) /\ tmFd[tmNum[s]] # s
    BY <1>4 DEF SelectReturns
  <2>. QED
    BY <1>1, <1>2, <2>1, <2>2, TmGoneKeeps, TmGoesOnKeeps
<1>5. CASE ReadPty(s)
  <2>. DEFINE f == tmFd[tmNum[s]]
  <2>0. tmReader[s] = "read" /\ tmPhase[s] # "stuck"
    BY <1>5, <1>a DEF ReadPty, PhaseIs
  <2>1. CASE f \in TmSessions /\ tmOut[f] > 0 /\ TmReads(s, "check", <<f>>)
             /\ tmOut' = TmPut(tmOut, f, tmOut[f] - 1)
    BY <1>2, <2>0, <2>1, TmHasReadKeeps
  <2>2. CASE f = "file" /\ TmReads(s, "check", <<f>>) /\ UNCHANGED tmOut
    <3>1. tmStop[s]
      BY <1>2, <2>2, TmNames
    <3>. QED
      BY <2>0, <2>2, <3>1, TmHasReadKeeps
  <2>3. CASE f = "file" /\ TmReads(s, "blocked", <<>>) /\ UNCHANGED tmOut
    <3>1. tmStop[s]
      BY <1>2, <2>3, TmNames
    <3>. QED
      BY <2>0, <2>3, <3>1, TmGoesOnKeeps
  <2>4. CASE ~(f \in TmSessions /\ tmOut[f] > 0) /\ TmReads(s, "gone", <<"end">>) /\ UNCHANGED tmOut
    <3>1. ~tmStop[s] => tmOut[s] = 0
      <4>1. tmOut[s] \in Nat
        BY DEF TmInv, TmTypes
      <4>. QED
        BY <1>2, <2>4, <4>1
    <3>. QED
      BY <2>0, <2>4, <3>1, TmGoneKeeps
  <2>. QED
    BY <1>5, <2>1, <2>2, <2>3, <2>4 DEF ReadPty
<1>6. CASE BlockedReturns(s)
  <2>1. tmReader[s] = "blocked" /\ tmStop[s] /\ UNCHANGED tmOut
    BY <1>6, <1>a DEF BlockedReturns, PhaseIs
  <2>2. CASE TmReads(s, "check", <<"file">>)
    BY <2>1, <2>2, TmHasReadKeeps
  <2>3. CASE TmReads(s, "gone", <<"end">>)
    BY <2>1, <2>3, TmGoneKeeps
  <2>. QED
    BY <1>6, <2>2, <2>3 DEF BlockedReturns
<1>. QED
  BY <1>3, <1>4, <1>5, <1>6

LEMMA TmPumpKeeps ==
    ASSUME TmInv, NEW s \in TmSessions, PumpOutput(s)
    PROVE  TmInv'
<1>0. /\ tmPump[s] = "runs" /\ tmQueue[s] # <<>>
      /\ UNCHANGED <<tmFd, tmPhase, tmNum, tmStop, tmLoop, tmShell, tmJob, tmOut, tmMade, tmReader>>
      /\ tmQueue' = [tmQueue EXCEPT ![s] = Tail(tmQueue[s])]
  BY DEF PumpOutput, TmPut, tmShells, tmOutput
<1>. USE <1>0
<1>1. TmTypes
  BY DEF TmInv
<1>2. /\ tmQueue[s] \in Seq(TmSessions \cup {"file", "end"})
      /\ tmSent[s] \in Seq(TmSessions \cup {"file"})
      /\ Len(tmQueue[s]) \in Nat /\ Len(tmSent[s]) \in Nat /\ tmOut[s] \in Nat
  BY <1>1, TmLengths
<1>3. /\ Tail(tmQueue[s]) \in Seq(TmSessions \cup {"file", "end"})
      /\ Len(Tail(tmQueue[s])) = Len(tmQueue[s]) - 1
      /\ Len(tmQueue[s]) >= 1 /\ Head(tmQueue[s]) \in TmSessions \cup {"file", "end"}
      /\ Head(tmQueue[s]) = tmQueue[s][1]
      /\ \A i \in 1..Len(tmQueue[s]) - 1 : Tail(tmQueue[s])[i] = tmQueue[s][i + 1]
      /\ Tail(tmQueue[s]) = <<>> <=> Len(tmQueue[s]) = 1
  BY <1>2, TmTaken
<1>4. tmQueue'[s] = Tail(tmQueue[s]) /\ \A u \in TmSessions \ {s} : tmQueue'[u] = tmQueue[u]
  BY <1>1 DEF TmTypes
<1>5. tmQueue' \in [TmSessions -> Seq(TmSessions \cup {"file", "end"})]
  BY <1>1, <1>3 DEF TmTypes
<1>6. FdsAreOwn'
  BY FdsSame DEF HasPty
<1>7. ClosesOne'
  BY ClosesSame
<1>8. PhaseIs(s) /\ tmPhase[s] # "new" /\ (NoneIsLate => OwnOutput(s) /\ AllIsIn(s))
  BY DEF TmInv, PhasesAre, PhaseIs, OutputIsKept, DataIs
<1>b. NoneIsLate => /\ tmQueue'[s] \in Seq({s, "file", "end"}) /\ tmSent[s] \in Seq({s, "file"})
                    /\ Head(tmQueue[s]) \in {s, "file", "end"}
  <2>1. NoneIsLate => tmQueue[s] \in Seq({s, "file", "end"}) /\ tmSent[s] \in Seq({s, "file"})
    BY <1>8 DEF OwnOutput
  <2>. QED
    BY <1>4, <2>1, TmTaken
<1>9. CASE Head(tmQueue[s]) = "end"
  <2>1. tmPump' = [tmPump EXCEPT ![s] = "ended"] /\ tmSent' = tmSent
    BY <1>9 DEF PumpOutput, TmPut
  <2>2. TmTypes'
    BY <1>1, <1>5, <2>1 DEF TmTypes
  <2>3. tmPump'[s] = "ended" /\ \A u \in TmSessions \ {s} : TmSame(u)
    BY <1>1, <1>4, <2>1 DEF TmTypes, TmSame
  <2>4. PhaseIs(s)'
    BY <1>8, <2>1, <2>3 DEF PhaseIs
  <2>5. ASSUME NoneIsLate, ~tmStop[s] PROVE AllIsIn(s)'
    <3>1. 1 = Len(tmQueue[s]) /\ EndIsIn(s)
      <4>1. \A i \in 1..Len(tmQueue[s]) : tmQueue[s][i] = "end" <=> i = Len(tmQueue[s]) /\ EndIsIn(s)
        BY <1>8, <2>5 DEF AllIsIn
      <4>2. 1 \in 1..Len(tmQueue[s]) /\ tmQueue[s][1] = "end"
        BY <1>2, <1>3, <1>9
      <4>. QED
        BY <4>1, <4>2
    <3>2. /\ tmQueue'[s] = <<>> /\ Len(tmQueue'[s]) = 0
          /\ \A i \in 1..Len(tmQueue'[s]) : FALSE
      <4>1. tmQueue'[s] = <<>>
        BY <1>3, <1>4, <3>1
      <4>2. Len(<<>>) = 0 /\ \A i \in 1..0 : FALSE
        OBVIOUS
      <4>. QED
        BY <4>1, <4>2
    <3>3. tmReader[s] = "gone" /\ ~EndIsIn(s)'
      BY <2>3, <3>1 DEF EndIsIn
    <3>4. tmMade[s] = tmOut[s] + 1 - 1 + Len(tmSent[s])
      BY <1>8, <2>5, <3>1 DEF AllIsIn
    <3>5. tmMade'[s] = tmOut'[s] + 0 - 0 + Len(tmSent'[s])
      BY <1>2, <2>1, <3>4
    <3>6. tmOut[s] = 0 /\ ~tmShell[s] /\ ~tmJob[s]
      BY <1>8, <2>5, <3>3 DEF AllIsIn
    <3>7. tmMade'[s] = tmOut'[s] + Len(tmQueue'[s]) - 0 + Len(tmSent'[s])
      BY <3>2, <3>5
    <3>. QED
      BY <2>3, <3>2, <3>3, <3>6, <3>7 DEF AllIsIn
  <2>6. NoneIsLate => DataIs(s)'
    BY <1>8, <1>b, <2>1, <2>5 DEF DataIs, OwnOutput, AllIsIn
  <2>. QED
    BY <1>6, <1>7, <2>2, <2>3, <2>4, <2>6, TmStepKeeps
<1>10. CASE Head(tmQueue[s]) # "end"
  <2>1. tmSent' = [tmSent EXCEPT ![s] = Append(tmSent[s], Head(tmQueue[s]))] /\ tmPump' = tmPump
    BY <1>10 DEF PumpOutput, TmPut
  <2>2. /\ Append(tmSent[s], Head(tmQueue[s])) \in Seq(TmSessions \cup {"file"})
        /\ Len(Append(tmSent[s], Head(tmQueue[s]))) = Len(tmSent[s]) + 1
    <3>1. Head(tmQueue[s]) \in TmSessions \cup {"file"}
      BY <1>3, <1>10
    <3>. QED
      BY <1>2, <3>1, TmQueued
  <2>3. /\ tmSent'[s] = Append(tmSent[s], Head(tmQueue[s]))
        /\ \A u \in TmSessions \ {s} : tmSent'[u] = tmSent[u]
        /\ tmSent' \in [TmSessions -> Seq(TmSessions \cup {"file"})]
    BY <1>1, <2>1, <2>2 DEF TmTypes
  <2>4. NoneIsLate => tmSent'[s] \in Seq({s, "file"})
    <3>1. NoneIsLate => Head(tmQueue[s]) \in {s, "file"} /\ tmSent[s] \in Seq({s, "file"})
      BY <1>b, <1>10
    <3>. QED
      BY <2>3, <3>1, TmQueued
  <2>5. TmTypes'
    BY <1>1, <1>5, <2>1, <2>3 DEF TmTypes
  <2>6. \A u \in TmSessions \ {s} : TmSame(u)
    BY <1>1, <1>4, <2>1, <2>3 DEF TmTypes, TmSame
  <2>7. PhaseIs(s)'
    BY <1>8, <2>1 DEF PhaseIs
  <2>8. ASSUME NoneIsLate, ~tmStop[s] PROVE AllIsIn(s)'
    <3>. DEFINE n == Len(tmQueue[s])
    <3>1. EndIsIn(s)' = EndIsIn(s)
      BY <2>1 DEF EndIsIn
    <3>2. \A i \in 1..n : tmQueue[s][i] = "end" <=> i = n /\ EndIsIn(s)
      BY <1>8, <2>8 DEF AllIsIn
    <3>3. EndIsIn(s) => n > 1
      BY <1>2, <1>3, <1>10, <3>2
    <3>4. Len(tmQueue'[s]) = n - 1 /\ \A i \in 1..n - 1 : tmQueue'[s][i] = tmQueue[s][i + 1]
      BY <1>3, <1>4
    <3>5. \A i \in 1..n - 1 : tmQueue'[s][i] = "end" <=> i = n - 1 /\ EndIsIn(s)
      BY <1>2, <3>2, <3>4
    <3>6. EndIsIn(s) => tmQueue'[s] # <<>>
      BY <1>3, <1>4, <3>3
    <3>7. tmMade'[s] = tmOut'[s] + Len(tmQueue'[s]) - (IF EndIsIn(s) THEN 1 ELSE 0) + Len(tmSent'[s])
      <4>1. ASSUME NEW e \in {0, 1}, tmMade[s] = tmOut[s] + n - e + Len(tmSent[s])
            PROVE  tmMade[s] = tmOut[s] + (n - 1) - e + (Len(tmSent[s]) + 1)
        <5>1. \A o, q, t \in Nat : o + q - e + t = o + (q - 1) - e + (t + 1)
          OBVIOUS
        <5>. QED
          BY <1>2, <4>1, <5>1
      <4>2. tmMade[s] = tmOut[s] + n - (IF EndIsIn(s) THEN 1 ELSE 0) + Len(tmSent[s])
        BY <1>8, <2>8 DEF AllIsIn
      <4>3. (IF EndIsIn(s) THEN 1 ELSE 0) \in {0, 1}
        OBVIOUS
      <4>4. tmMade[s] = tmOut[s] + (n - 1) - (IF EndIsIn(s) THEN 1 ELSE 0) + (Len(tmSent[s]) + 1)
        BY <4>1, <4>2, <4>3
      <4>. QED
        BY <2>2, <2>3, <3>4, <4>4
    <3>8. /\ tmPump[s] # "ended" /\ tmPump[s] # "cancelled"
          /\ tmReader[s] = "gone" => tmOut[s] = 0 /\ ~tmShell[s] /\ ~tmJob[s]
          /\ tmReader[s] = "read" /\ tmOut[s] = 0 => ~tmShell[s] /\ ~tmJob[s]
      BY <1>8, <2>8 DEF AllIsIn
    <3>. HIDE DEF n
    <3>. QED
      BY <2>1, <2>8, <3>1, <3>4, <3>5, <3>6, <3>7, <3>8 DEF AllIsIn
  <2>9. NoneIsLate => DataIs(s)'
    BY <1>8, <1>b, <2>4, <2>8 DEF DataIs, OwnOutput, AllIsIn
  <2>. QED
    BY <1>6, <1>7, <2>5, <2>6, <2>7, <2>9, TmStepKeeps
<1>. QED
  BY <1>9, <1>10

LEMMA TmCloseBeginsKeeps ==
    ASSUME TmInv, NEW s \in TmSessions, CloseBegins(s)
    PROVE  TmInv'
<1>0. /\ tmLoop = TmFree /\ tmPhase[s] = "open"
      /\ UNCHANGED <<tmFd, tmPhase, tmNum, tmShell, tmJob, tmOut, tmMade, tmReader, tmQueue, tmPump, tmSent>>
      /\ tmStop' = [tmStop EXCEPT ![s] = TRUE]
      /\ tmLoop' = [s |-> s, step |-> IF tmShell[s] THEN "term" ELSE "close"]
  BY DEF CloseBegins, TmPut, tmShells, tmOutput, tmReaders, tmPumps
<1>. USE <1>0
<1>1. TmTypes
  BY DEF TmInv
<1>2. TmTypes'
  BY <1>1 DEF TmTypes
<1>3. tmStop'[s] /\ \A u \in TmSessions \ {s} : TmSame(u)
  BY <1>1 DEF TmTypes, TmSame
<1>4. tmLoop'.s = s /\ tmLoop'.step \in {"term", "close"} /\ (tmLoop'.step = "close" => ~tmShell[s])
  OBVIOUS
<1>5. FdsAreOwn'
  <2>1. \A u \in TmSessions : HasPty(u)' = HasPty(u)
    BY <1>4 DEF HasPty, TmFree
  <2>. QED
    BY <1>4, <2>1, FdsSame
<1>6. ClosesOne'
  BY <1>3, <1>4 DEF ClosesOne
<1>7. PhaseIs(s) /\ (NoneIsLate => OwnOutput(s))
  BY DEF TmInv, PhasesAre, OutputIsKept, DataIs
<1>8. PhaseIs(s)' /\ (NoneIsLate => DataIs(s)')
  BY <1>3, <1>7 DEF PhaseIs, DataIs, OwnOutput, AllIsIn
<1>. QED
  BY <1>2, <1>3, <1>4, <1>5, <1>6, <1>8, TmStepKeeps

LEMMA TmSignalsKeep ==
    ASSUME TmInv, NEW s \in TmSessions, SendTerm(s) \/ SendKill(s)
    PROVE  TmInv'
<1>1. /\ tmLoop.s = s /\ tmLoop.step \in {"term", "kill"} /\ tmLoop # TmFree
      /\ tmShell[s] \in BOOLEAN /\ tmJob[s] \in BOOLEAN
  <2>1. tmLoop = [s |-> s, step |-> "term"] \/ tmLoop = [s |-> s, step |-> "kill"]
    BY DEF SendTerm, SendKill, TmCloses
  <2>2. tmLoop.s = s /\ tmLoop.step \in {"term", "kill"} /\ tmLoop # TmFree
    BY <2>1 DEF TmFree
  <2>. QED
    BY <2>2 DEF TmInv, TmTypes
<1>2. PICK shell \in BOOLEAN, job \in BOOLEAN, step \in {"kill", "close", "raised"} :
         /\ TmProcesses(s, shell, job) /\ tmLoop' = [s |-> s, step |-> step]
         /\ shell => tmShell[s]
         /\ job => tmShell[s] \/ tmJob[s]
         /\ step = "close" => ~shell
  <2>1. CASE SendTerm(s)
    <3>1. PICK shell \in {FALSE, tmShell[s]}, job \in {FALSE, tmJob[s]} :
             /\ TmProcesses(s, shell, job)
             /\ tmLoop' = [s |-> s, step |-> IF shell THEN "kill" ELSE "close"]
      BY <2>1 DEF SendTerm
    <3>2. shell \in BOOLEAN /\ job \in BOOLEAN /\ (shell => tmShell[s]) /\ (job => tmJob[s])
      BY <1>1
    <3>3. CASE shell
      <4>1. tmLoop' = [s |-> s, step |-> "kill"]
        BY <3>1, <3>3
      <4>. QED
        BY <3>1, <3>2, <4>1
    <3>4. CASE ~shell
      <4>1. tmLoop' = [s |-> s, step |-> "close"]
        BY <3>1, <3>4
      <4>. QED
        BY <3>1, <3>2, <3>4, <4>1
    <3>. QED
      BY <3>3, <3>4
  <2>2. CASE SendKill(s)
    BY <1>1, <2>2 DEF SendKill
  <2>. QED
    BY <2>1, <2>2
<1>3. UNCHANGED <<tmFd, tmPhase, tmNum, tmStop>> /\ tmShell' = [tmShell EXCEPT ![s] = shell]
  BY <1>2 DEF TmProcesses, TmPut
<1>4. FdsAreOwn'
  <2>1. \A u \in TmSessions : HasPty(u)' = HasPty(u)
    BY <1>1, <1>2, <1>3 DEF HasPty
  <2>. QED
    BY <1>2, <1>3, <2>1, FdsSame
<1>5. tmPhase[s] = "open" /\ tmStop[s]
  BY <1>1 DEF TmInv, ClosesOne
<1>6. ClosesOne'
  <2>1. tmShell'[s] = shell
    BY <1>3 DEF TmInv, TmTypes
  <2>. QED
    BY <1>2, <1>3, <1>5, <2>1 DEF ClosesOne
<1>. QED
  BY <1>2, <1>4, <1>5, <1>6, TmProcessesKeep

LEMMA TmCloseFdKeeps ==
    ASSUME TmInv, NEW s \in TmSessions, CloseFd(s)
    PROVE  TmInv'
<1>0. /\ tmLoop.s = s /\ tmLoop.step = "close" /\ tmLoop # TmFree
      /\ UNCHANGED <<tmPhase, tmNum, tmStop, tmShell, tmMade, tmReader, tmQueue, tmPump, tmSent>>
      /\ tmJob' = [tmJob EXCEPT ![s] = FALSE] /\ tmOut' = [tmOut EXCEPT ![s] = 0]
      /\ tmFd' = [tmFd EXCEPT ![tmNum[s]] = "free"] /\ tmLoop' = [s |-> s, step |-> "join"]
  BY DEF CloseFd, TmCloses, TmPut, TmFree, tmShells, tmOutput, tmReaders, tmPumps
<1>. USE <1>0
<1>1. TmTypes
  BY DEF TmInv
<1>2. TmTypes' /\ \A u \in TmSessions \ {s} : TmSame(u)
  <2>1. tmOut' \in [TmSessions -> Nat] /\ tmJob' \in [TmSessions -> BOOLEAN]
    BY <1>1 DEF TmTypes
  <2>. QED
    BY <1>1, <2>1 DEF TmTypes, TmSame
<1>3. tmPhase[s] = "open" /\ tmStop[s] /\ ~tmShell[s]
  BY DEF TmInv, ClosesOne
<1>4. HasPty(s) /\ tmNum[s] \in TmFds /\ tmFd[tmNum[s]] = s /\ ~HasPty(s)'
  <2>1. HasPty(s)
    BY <1>3 DEF HasPty
  <2>2. ~HasPty(s)'
    BY DEF HasPty
  <2>. QED
    BY <2>1, <2>2 DEF TmInv, FdsAreOwn
<1>5. FdsAreOwn'
  <2>1. \A u \in TmSessions \ {s} : HasPty(u)' = HasPty(u)
    BY DEF HasPty
  <2>2. tmFd'[tmNum[s]] = "free" /\ \A m \in TmFds \ {tmNum[s]} : tmFd'[m] = tmFd[m]
    BY <1>1, <1>4 DEF TmTypes
  <2>3. ASSUME NEW u \in TmSessions \ {s}, HasPty(u) PROVE tmNum[u] \in TmFds \ {tmNum[s]} /\ tmFd[tmNum[u]] = u
    BY <1>4, <2>3 DEF TmInv, FdsAreOwn
  <2>4. ASSUME NEW m \in TmFds, NEW u \in TmSessions, tmFd'[m] = u
        PROVE  u # s /\ HasPty(u) /\ m = tmNum[u]
    <3>1. m # tmNum[s] /\ tmFd[m] = u
      BY <2>2, <2>4, TmNames
    <3>. QED
      BY <3>1 DEF TmInv, FdsAreOwn
  <2>5. tmFd'[tmNum'[tmLoop'.s]] \notin TmSessions
    BY <2>2, TmNames
  <2>. QED
    BY <1>4, <2>1, <2>2, <2>3, <2>4, <2>5 DEF FdsAreOwn
<1>6. ClosesOne'
  BY <1>3 DEF ClosesOne
<1>7. PhaseIs(s) /\ (NoneIsLate => OwnOutput(s))
  BY DEF TmInv, PhasesAre, OutputIsKept, DataIs
<1>8. PhaseIs(s)'
  BY <1>3, <1>7 DEF PhaseIs
<1>9. NoneIsLate => DataIs(s)'
  BY <1>3, <1>7 DEF DataIs, OwnOutput, AllIsIn
<1>. QED
  BY <1>2, <1>5, <1>6, <1>8, <1>9, TmStepKeeps

LEMMA TmEndsKeeps ==
    ASSUME TmInv, NEW s \in TmSessions, JoinReader(s) \/ JoinExpires(s) \/ CloseRaised(s)
    PROVE  TmInv'
<1>0. PICK phase \in {"closed", "raised", "stuck", "late"} :
         /\ tmPhase' = [tmPhase EXCEPT ![s] = phase] /\ tmPump' = [tmPump EXCEPT ![s] = "cancelled"]
         /\ phase = "closed" => tmReader[s] = "gone"
         /\ phase = "stuck" => tmReader[s] = "blocked"
         /\ tmLoop.step = (IF phase = "raised" THEN "raised" ELSE "join")
  <2>1. CASE JoinReader(s)
    BY <2>1 DEF JoinReader, TmEnded, TmPut, TmCloses
  <2>2. CASE JoinExpires(s)
    <3>1. CASE tmReader[s] = "blocked"
      BY <2>2, <3>1 DEF JoinExpires, TmEnded, TmPut, TmCloses
    <3>2. CASE tmReader[s] # "blocked"
      BY <2>2, <3>2 DEF JoinExpires, TmEnded, TmPut, TmCloses
    <3>. QED
      BY <3>1, <3>2
  <2>3. CASE CloseRaised(s)
    BY <2>3 DEF CloseRaised, TmEnded, TmPut, TmCloses
  <2>. QED
    BY <2>1, <2>2, <2>3
<1>1. /\ tmLoop.s = s /\ tmLoop' = TmFree
      /\ tmQueue' = [tmQueue EXCEPT ![s] = <<>>] /\ tmSent' = [tmSent EXCEPT ![s] = <<>>]
      /\ UNCHANGED <<tmFd, tmNum, tmStop, tmShell, tmJob, tmOut, tmMade, tmReader>>
  BY DEF JoinReader, JoinExpires, CloseRaised, TmEnded, TmCloses, TmPut, tmShells, tmOutput
<1>. USE <1>0, <1>1
<1>2. TmTypes
  BY DEF TmInv
<1>3. TmTypes'
  <2>1. \A S : <<>> \in Seq(S)
    OBVIOUS
  <2>2. /\ tmQueue' \in [TmSessions -> Seq(TmSessions \cup {"file", "end"})]
        /\ tmSent' \in [TmSessions -> Seq(TmSessions \cup {"file"})]
    BY <1>2, <2>1 DEF TmTypes
  <2>. QED
    BY <1>2, <2>2 DEF TmTypes
<1>4. /\ \A u \in TmSessions \ {s} : TmSame(u)
      /\ tmPhase'[s] = phase
      /\ tmPump'[s] = "cancelled"
      /\ tmQueue'[s] = <<>> /\ tmSent'[s] = <<>>
  BY <1>2 DEF TmTypes, TmSame
<1>5. tmPhase[s] = "open" /\ tmStop[s] /\ (phase # "raised" => ~tmShell[s])
  BY TmNames DEF TmInv, ClosesOne, TmFree
<1>6. FdsAreOwn'
  <2>1. HasPty(s)' = HasPty(s)
    BY <1>4, <1>5, TmNames DEF HasPty, TmFree
  <2>2. ASSUME NEW u \in TmSessions \ {s} PROVE HasPty(u)' = HasPty(u)
    BY <1>4, TmNames DEF HasPty, TmFree, TmSame
  <2>3. tmLoop'.step # "join"
    BY DEF TmFree
  <2>. QED
    BY <2>1, <2>2, <2>3, FdsSame
<1>7. ClosesOne'
  BY DEF ClosesOne
<1>8. PhaseIs(s) /\ (NoneIsLate => OwnOutput(s))
  BY DEF TmInv, PhasesAre, OutputIsKept, DataIs
<1>9. PhaseIs(s)' /\ (NoneIsLate => DataIs(s)')
  <2>1. PhaseIs(s)'
    BY <1>4, <1>5, <1>8 DEF PhaseIs
  <2>2. OwnOutput(s)'
    <3>1. \A S : <<>> \in Seq(S)
      OBVIOUS
    <3>. QED
      BY <1>4, <3>1 DEF OwnOutput
  <2>3. AllIsIn(s)'
    BY <1>5 DEF AllIsIn
  <2>. QED
    BY <2>1, <2>2, <2>3 DEF DataIs
<1>10. tmLoop'.s = "none"
  BY DEF TmFree
<1>. QED
  BY <1>3, <1>4, <1>5, <1>6, <1>7, <1>9, <1>10, TmStepKeeps

LEMMA TmNextKeeps == TmInv /\ [TmNext]_tmVars => TmInv'
<1>. SUFFICES ASSUME TmInv, [TmNext]_tmVars PROVE TmInv'
  OBVIOUS
<1>1. CASE OtherFiles
  BY <1>1, TmFilesKeep
<1>2. ASSUME NEW s \in TmSessions,
             \/ OpenTerminal(s) \/ ShellWrites(s) \/ ShellForks(s) \/ ProcessExits(s)
             \/ CheckStop(s) \/ SelectReturns(s) \/ ReadPty(s) \/ BlockedReturns(s) \/ PumpOutput(s)
             \/ CloseBegins(s) \/ SendTerm(s) \/ SendKill(s) \/ CloseFd(s)
             \/ JoinReader(s) \/ JoinExpires(s) \/ CloseRaised(s)
      PROVE  TmInv'
  BY <1>2, TmOpenKeeps, TmWriteKeeps, TmForksAndExitsKeep, TmThreadKeeps, TmPumpKeeps,
     TmCloseBeginsKeeps, TmSignalsKeep, TmCloseFdKeeps, TmEndsKeeps
<1>3. CASE UNCHANGED tmVars
  <2>1. UNCHANGED <<tmFd, tmPhase, tmNum, tmStop, tmLoop, tmShell, tmJob, tmOut, tmMade,
                    tmReader, tmQueue, tmPump, tmSent>>
    BY <1>3 DEF tmVars, tmShells, tmOutput, tmReaders, tmPumps
  <2>2. TmTypes'
    BY <2>1 DEF TmInv, TmTypes
  <2>3. FdsAreOwn' /\ ClosesOne'
    BY <2>1, FdsSame, ClosesSame DEF HasPty
  <2>4. PhasesAre'
    BY <2>1 DEF TmInv, PhasesAre, PhaseIs
  <2>5. OutputIsKept'
    <3>1. ASSUME NEW s \in TmSessions, NoneIsLate PROVE OwnOutput(s)' /\ AllIsIn(s)'
      <4>1. AllIsIn(s) /\ OwnOutput(s) /\ EndIsIn(s)' = EndIsIn(s)
        BY <2>1, <3>1 DEF TmInv, OutputIsKept, DataIs, EndIsIn
      <4>. QED
        BY <2>1, <4>1 DEF AllIsIn, OwnOutput
    <3>2. NoneIsLate' = NoneIsLate
      BY <2>1 DEF NoneIsLate
    <3>. QED
      BY <3>1, <3>2 DEF OutputIsKept, DataIs
  <2>. QED
    BY <2>2, <2>3, <2>4, <2>5 DEF TmInv
<1>. QED
  BY <1>1, <1>2, <1>3 DEF TmNext

-----------------------------------------------------------------------------
\* The invariant holds whatever the terminals, the descriptors and the bound:
\* a number is a terminal's own until close() gives it back, while the thread is
\* waited for nobody opens another, and, as long as no thread has been given up
\* between its calls, all output of a terminal that nobody has closed is in its
\* pty, its queue or its websocket.
THEOREM TmInvariance == TmSpec => []TmInv
<1>. QED
  BY TmInitial, TmNextKeeps, PTL DEF TmSpec

\* The state has its types, and an open terminal its own pty.
THEOREM TmTypeCorrect == TmSpec => []TmTypeOK
<1>1. TmInv => TmTypeOK
  <2>. SUFFICES ASSUME TmInv PROVE TmTypeOK
    OBVIOUS
  <2>1. ASSUME NEW s \in TmSessions, tmPhase[s] = "open", tmLoop.s # s PROVE tmFd[tmNum[s]] = s
    BY <2>1 DEF TmInv, FdsAreOwn, HasPty
  <2>. QED
    BY <2>1 DEF TmInv, TmTypes, TmTypeOK
<1>. QED
  BY <1>1, TmInvariance, PTL

\* As long as no thread has been given up between its calls, a terminal never
\* takes or shows another's output (the thread that reads by number, and
\* _close_fd), and one that ends of itself has sent all that was written
\* (pump_output); a close() that returns always leaves no shell and no
\* descriptor, and no thread whose join has not expired.
THEOREM TerminalsClean == TmSpec => []TerminalsAreClean
<1>. SUFFICES TmInv => TerminalsAreClean
  BY TmInvariance, PTL
<1>. SUFFICES ASSUME TmInv PROVE TerminalsAreClean
  OBVIOUS
<1>0. TmTypes /\ (NoneIsLate => \A s \in TmSessions : OwnOutput(s) /\ AllIsIn(s))
  BY DEF TmInv, OutputIsKept, DataIs
<1>1. TerminalsKeepApart
  <2>1. ASSUME NoneIsLate, NEW s \in TmSessions, NEW u \in TmSessions, s # u,
               NEW q \in {tmQueue[s], tmSent[s]}, NEW i \in DOMAIN q
        PROVE  q[i] # u
    <3>1. tmQueue[s] \in Seq({s, "file", "end"}) /\ tmSent[s] \in Seq({s, "file"})
      BY <1>0, <2>1 DEF OwnOutput
    <3>2. q[i] \in {s, "file", "end"}
      BY <3>1
    <3>. QED
      BY <2>1, <3>2, TmNames
  <2>. QED
    BY <2>1 DEF TerminalsKeepApart
<1>2. EofShowsAll
  <2>1. ASSUME NoneIsLate, NEW s \in TmSessions, tmPump[s] = "ended", ~tmStop[s]
        PROVE  Len(tmSent[s]) = tmMade[s]
    <3>1. AllIsIn(s) /\ ~EndIsIn(s)
      BY <1>0, <2>1 DEF EndIsIn
    <3>2. tmQueue[s] = <<>> /\ tmOut[s] = 0
      BY <2>1, <3>1 DEF AllIsIn
    <3>3. tmMade[s] = 0 + Len(<<>>) - 0 + Len(tmSent[s])
      BY <2>1, <3>1, <3>2 DEF AllIsIn
    <3>4. Len(tmSent[s]) \in Nat
      BY <1>0, TmLengths
    <3>. QED
      BY <3>3, <3>4
  <2>. QED
    BY <2>1 DEF EofShowsAll
<1>3. ClosedIsReleased
  <2>1. ASSUME NEW s \in TmSessions, tmPhase[s] \in {"closed", "stuck", "late"}
        PROVE  ~tmShell[s] /\ \A n \in TmFds : tmFd[n] # s
    <3>1. PhaseIs(s) /\ ~HasPty(s)
      BY <2>1 DEF TmInv, PhasesAre, HasPty
    <3>. QED
      BY <2>1, <3>1 DEF PhaseIs, TmInv, FdsAreOwn
  <2>2. ASSUME NEW s \in TmSessions, tmPhase[s] = "closed" PROVE tmReader[s] = "gone"
    BY <2>2 DEF TmInv, PhasesAre, PhaseIs
  <2>. QED
    BY <2>1, <2>2 DEF ClosedIsReleased
<1>. QED
  BY <1>1, <1>2, <1>3 DEF TerminalsAreClean

-----------------------------------------------------------------------------
(*************************************************************************)
(* FileTree, for any threads, names, contents, depth and number of       *)
(* operations: whose everything is in the end, and that no data is lost  *)
(* that nobody asked to lose.  First what the paths are.                 *)
(*************************************************************************)

LEMMA NamesInOrder ==
    ASSUME NEW n \in Nat, NEW s \in [1..n -> FtNames]
    PROVE  s \in Seq(FtNames) /\ Len(s) = n
  OBVIOUS

LEMMA PathsJoined ==
    ASSUME NEW s \in Seq(FtNames), NEW t \in Seq(FtNames)
    PROVE  /\ s \o t \in Seq(FtNames) /\ Len(s \o t) = Len(s) + Len(t)
           /\ Len(s) \in Nat /\ Len(t) \in Nat
           /\ \A i \in 1..(Len(s) + Len(t)) : (s \o t)[i] = IF i <= Len(s) THEN s[i] ELSE t[i - Len(s)]
  OBVIOUS

LEMMA PathIs ==
    ASSUME NEW p
    PROVE  p \in FtPaths <=> p \in Seq(FtNames) /\ Len(p) \in 1..FtDepth
<1>1. ASSUME p \in FtPaths PROVE p \in Seq(FtNames) /\ Len(p) \in 1..FtDepth
  <2>1. PICK n \in 1..FtDepth : p \in [1..n -> FtNames]
    BY <1>1 DEF FtPaths
  <2>2. n \in Nat
    BY FileTreeAssumption
  <2> QED
    BY <2>1, <2>2
<1>2. ASSUME p \in Seq(FtNames), Len(p) \in 1..FtDepth PROVE p \in FtPaths
  <2>1. p \in [1..Len(p) -> FtNames]
    BY <1>2
  <2> QED
    BY <1>2, <2>1 DEF FtPaths
<1> QED
  BY <1>1, <1>2

\* Paths that agree at every place are the same.
LEMMA SamePath ==
    ASSUME NEW p \in Seq(FtNames), NEW q \in Seq(FtNames), Len(p) = Len(q), \A i \in 1..Len(p) : p[i] = q[i]
    PROVE  p = q
<1>1. p = [i \in 1..Len(p) |-> p[i]] /\ q = [i \in 1..Len(p) |-> q[i]]
  OBVIOUS
<1> QED
  BY <1>1

LEMMA PrefixIs ==
    ASSUME NEW p \in Seq(FtNames), NEW q \in Seq(FtNames)
    PROVE  IsPrefix(p, q) <=> Len(p) <= Len(q) /\ \A i \in 1..Len(p) : p[i] = q[i]
<1>1. ASSUME Len(p) <= Len(q)
      PROVE  /\ SubSeq(p, 1, Len(p)) \in Seq(FtNames) /\ Len(SubSeq(p, 1, Len(p))) = Len(p)
             /\ SubSeq(q, 1, Len(p)) \in Seq(FtNames) /\ Len(SubSeq(q, 1, Len(p))) = Len(p)
             /\ \A i \in 1..Len(p) : SubSeq(p, 1, Len(p))[i] = p[i] /\ SubSeq(q, 1, Len(p))[i] = q[i]
  BY <1>1
<1>2. ASSUME IsPrefix(p, q), NEW i \in 1..Len(p) PROVE p[i] = q[i]
  BY <1>1, <1>2 DEF IsPrefix
<1>3. ASSUME Len(p) <= Len(q), \A i \in 1..Len(p) : p[i] = q[i] PROVE IsPrefix(p, q)
  BY <1>1, <1>3, SamePath DEF IsPrefix
<1> QED
  BY <1>2, <1>3 DEF IsPrefix

\* A path is its folder's and a name.
LEMMA ParentIs ==
    ASSUME NEW p \in Seq(FtNames), p # <<>>
    PROVE  /\ FtParent(p) \in Seq(FtNames) /\ Len(p) \in Nat /\ Len(p) >= 1 /\ Len(FtParent(p)) = Len(p) - 1
           /\ Last(p) \in FtNames /\ Last(p) = p[Len(p)]
           /\ \A i \in 1..(Len(p) - 1) : FtParent(p)[i] = p[i]
           /\ FtParent(p) # p
<1>1. Len(p) \in Nat /\ Len(p) >= 1 /\ Len(p) - 1 \in Nat /\ p[Len(p)] \in FtNames
  OBVIOUS
<1>2. /\ SubSeq(p, 1, Len(p) - 1) \in Seq(FtNames) /\ Len(SubSeq(p, 1, Len(p) - 1)) = Len(p) - 1
      /\ \A i \in 1..(Len(p) - 1) : SubSeq(p, 1, Len(p) - 1)[i] = p[i]
  <2>1. SubSeq(p, 1, Len(p) - 1) = [i \in 1..(Len(p) - 1) |-> p[i]]
    BY <1>1
  <2>2. \A i \in 1..(Len(p) - 1) : p[i] \in FtNames
    BY <1>1
  <2>3. [i \in 1..(Len(p) - 1) |-> p[i]] \in [1..(Len(p) - 1) -> FtNames]
    BY <2>2
  <2> QED
    BY <1>1, <2>1, <2>3, NamesInOrder
<1>3. FtParent(p) = SubSeq(p, 1, Len(p) - 1) /\ Last(p) = p[Len(p)]
  BY DEF FtParent, Front, Last
<1>4. FtParent(p) # p
  BY <1>1, <1>2, <1>3
<1> QED
  BY <1>1, <1>2, <1>3, <1>4

LEMMA ChildIs ==
    ASSUME NEW p \in Seq(FtNames), NEW n \in FtNames
    PROVE  /\ Append(p, n) \in Seq(FtNames) /\ Append(p, n) # <<>> /\ Len(Append(p, n)) = Len(p) + 1
           /\ FtParent(Append(p, n)) = p /\ Last(Append(p, n)) = n
           /\ \A i \in 1..Len(p) : Append(p, n)[i] = p[i]
<1> DEFINE c == Append(p, n)
<1>1. /\ c \in Seq(FtNames) /\ c # <<>> /\ Len(c) = Len(p) + 1 /\ Len(p) \in Nat
      /\ \A i \in 1..Len(p) : c[i] = p[i]
      /\ c[Len(p) + 1] = n
  OBVIOUS
<1> HIDE DEF c
<1>2. /\ FtParent(c) \in Seq(FtNames) /\ Len(FtParent(c)) = Len(p) /\ Last(c) = n
      /\ \A i \in 1..Len(p) : FtParent(c)[i] = c[i]
  <2>1. /\ FtParent(c) \in Seq(FtNames) /\ Len(FtParent(c)) = Len(c) - 1 /\ Last(c) = c[Len(c)]
        /\ \A i \in 1..(Len(c) - 1) : FtParent(c)[i] = c[i]
    BY <1>1, ParentIs
  <2>2. Len(c) - 1 = Len(p)
    BY <1>1
  <2> QED
    BY <1>1, <2>1, <2>2
<1>3. FtParent(c) = p
  BY <1>1, <1>2, SamePath
<1> QED
  BY <1>1, <1>2, <1>3 DEF c

LEMMA PathOfChild ==
    ASSUME NEW p \in FtPaths
    PROVE  /\ p \in Seq(FtNames) /\ p # <<>> /\ Len(p) \in 1..FtDepth /\ FtDepth \in Nat
           /\ FtParent(p) = <<>> \/ FtParent(p) \in FtPaths
           /\ \A n \in FtNames : Append(FtParent(p), n) \in FtPaths
<1>1. p \in Seq(FtNames) /\ p # <<>> /\ Len(p) \in 1..FtDepth /\ FtDepth \in Nat
  BY PathIs, FileTreeAssumption
<1>2. FtParent(p) \in Seq(FtNames) /\ Len(FtParent(p)) = Len(p) - 1 /\ Len(p) \in Nat
  BY <1>1, ParentIs
<1>3. FtParent(p) = <<>> \/ FtParent(p) \in FtPaths
  <2>1. CASE Len(p) = 1
    BY <1>2, <2>1
  <2>2. CASE Len(p) # 1
    BY <1>1, <1>2, <2>2, PathIs
  <2> QED
    BY <2>1, <2>2
<1>4. ASSUME NEW n \in FtNames PROVE Append(FtParent(p), n) \in FtPaths
  <2>1. Append(FtParent(p), n) \in Seq(FtNames) /\ Len(Append(FtParent(p), n)) = Len(p)
    BY <1>2, ChildIs
  <2> QED
    BY <1>1, <2>1, PathIs
<1> QED
  BY <1>1, <1>3, <1>4

\* Children of one folder with one name are one.
LEMMA SameChild ==
    ASSUME NEW p \in Seq(FtNames), NEW q \in Seq(FtNames), p # <<>>, q # <<>>,
           FtParent(p) = FtParent(q), Last(p) = Last(q)
    PROVE  p = q
<1>1. /\ Len(p) = Len(q) /\ Len(p) \in Nat /\ Len(q) \in Nat /\ p[Len(p)] = q[Len(q)]
      /\ \A i \in 1..(Len(p) - 1) : p[i] = q[i]
  <2>1. /\ Len(p) \in Nat /\ Len(FtParent(p)) = Len(p) - 1 /\ Last(p) = p[Len(p)]
        /\ \A i \in 1..(Len(p) - 1) : FtParent(p)[i] = p[i]
    BY ParentIs
  <2>2. /\ Len(q) \in Nat /\ Len(FtParent(q)) = Len(q) - 1 /\ Last(q) = q[Len(q)]
        /\ \A i \in 1..(Len(q) - 1) : FtParent(q)[i] = q[i]
    BY ParentIs
  <2>3. Len(p) = Len(q)
    BY <2>1, <2>2
  <2> QED
    BY <2>1, <2>2, <2>3
<1>2. ASSUME NEW i \in 1..Len(p) PROVE p[i] = q[i]
  BY <1>1, <1>2
<1> QED
  BY <1>1, <1>2, SamePath

LEMMA PrefixOfParent ==
    ASSUME NEW p \in Seq(FtNames), NEW q \in Seq(FtNames), q # <<>>
    PROVE  /\ IsPrefix(p, q) => p = q \/ IsPrefix(p, FtParent(q))
           /\ IsPrefix(p, FtParent(q)) => IsPrefix(p, q) /\ p # q
           /\ IsPrefix(q, q) /\ IsPrefix(FtParent(q), q)
           /\ p # <<>> /\ IsPrefix(p, FtParent(q)) => FtParent(q) # <<>>
<1>1. /\ FtParent(q) \in Seq(FtNames) /\ Len(FtParent(q)) = Len(q) - 1 /\ Len(q) \in Nat /\ Len(q) >= 1
      /\ \A i \in 1..(Len(q) - 1) : FtParent(q)[i] = q[i]
      /\ Len(p) \in Nat
  BY ParentIs
<1>2. ASSUME IsPrefix(p, q), p # q PROVE IsPrefix(p, FtParent(q))
  <2>1. Len(p) <= Len(q) /\ \A i \in 1..Len(p) : p[i] = q[i]
    BY <1>2, PrefixIs
  <2>2. Len(p) # Len(q)
    BY <1>2, <2>1, SamePath
  <2>3. Len(p) <= Len(FtParent(q)) /\ \A i \in 1..Len(p) : p[i] = FtParent(q)[i]
    BY <1>1, <2>1, <2>2
  <2> QED
    BY <1>1, <2>3, PrefixIs
<1>3. ASSUME IsPrefix(p, FtParent(q)) PROVE IsPrefix(p, q) /\ p # q
  <2>1. Len(p) <= Len(q) - 1 /\ \A i \in 1..Len(p) : p[i] = FtParent(q)[i]
    BY <1>1, <1>3, PrefixIs
  <2>2. Len(p) <= Len(q) /\ \A i \in 1..Len(p) : p[i] = q[i]
    BY <1>1, <2>1
  <2> QED
    BY <1>1, <2>1, <2>2, PrefixIs
<1>4. IsPrefix(q, q) /\ IsPrefix(FtParent(q), q)
  <2>1. IsPrefix(q, q)
    BY <1>1, PrefixIs
  <2>2. Len(FtParent(q)) <= Len(q) /\ \A i \in 1..Len(FtParent(q)) : FtParent(q)[i] = q[i]
    BY <1>1
  <2> QED
    BY <1>1, <2>1, <2>2, PrefixIs
<1>5. p # <<>> /\ IsPrefix(p, FtParent(q)) => FtParent(q) # <<>>
  BY <1>1, PrefixIs
<1> QED
  BY <1>2, <1>3, <1>4, <1>5

LEMMA PrefixChain ==
    ASSUME NEW p \in Seq(FtNames), NEW q \in Seq(FtNames), NEW r \in Seq(FtNames), IsPrefix(p, q), IsPrefix(q, r)
    PROVE  IsPrefix(p, r) /\ (IsPrefix(q, p) => p = q)
<1>1. /\ Len(p) <= Len(q) /\ \A i \in 1..Len(p) : p[i] = q[i]
      /\ Len(q) <= Len(r) /\ \A i \in 1..Len(q) : q[i] = r[i]
      /\ Len(p) \in Nat /\ Len(q) \in Nat /\ Len(r) \in Nat
  BY PrefixIs
<1>2. Len(p) <= Len(r) /\ \A i \in 1..Len(p) : p[i] = r[i]
  BY <1>1
<1>3. ASSUME IsPrefix(q, p) PROVE p = q
  <2>1. Len(p) = Len(q)
    BY <1>1, <1>3, PrefixIs
  <2> QED
    BY <1>1, <2>1, SamePath
<1> QED
  BY <1>2, <1>3, PrefixIs

\* What moving a tree makes of the paths in it, and that moving it back brings them back.
LEMMA MovedIs ==
    ASSUME NEW p \in Seq(FtNames), NEW d \in Seq(FtNames), NEW q \in Seq(FtNames), IsPrefix(p, q)
    PROVE  /\ Moved(q, p, d) \in Seq(FtNames) /\ Len(Moved(q, p, d)) = Len(d) + Len(q) - Len(p)
           /\ \A i \in 1..Len(d) : Moved(q, p, d)[i] = d[i]
           /\ \A i \in 1..(Len(q) - Len(p)) : Moved(q, p, d)[Len(d) + i] = q[Len(p) + i]
           /\ IsPrefix(d, Moved(q, p, d))
           /\ Len(p) \in Nat /\ Len(d) \in Nat /\ Len(q) \in Nat /\ Len(q) >= Len(p)
<1> DEFINE rest == SubSeq(q, Len(p) + 1, Len(q))
           m == Moved(q, p, d)
<1>1. /\ Len(p) \in Nat /\ Len(d) \in Nat /\ Len(q) \in Nat /\ Len(q) >= Len(p)
  BY PrefixIs
<1>2. /\ rest \in Seq(FtNames) /\ Len(rest) = Len(q) - Len(p)
      /\ \A i \in 1..(Len(q) - Len(p)) : rest[i] = q[Len(p) + i]
  BY <1>1
<1> HIDE DEF rest
<1>3. m = d \o rest
  BY DEF Moved, rest
<1>4. /\ m \in Seq(FtNames) /\ Len(m) = Len(d) + Len(rest)
      /\ \A i \in 1..Len(d) : m[i] = d[i]
      /\ \A i \in 1..Len(rest) : m[Len(d) + i] = rest[i]
  <2>1. /\ m \in Seq(FtNames) /\ Len(m) = Len(d) + Len(rest) /\ Len(rest) \in Nat
        /\ \A i \in 1..(Len(d) + Len(rest)) : m[i] = IF i <= Len(d) THEN d[i] ELSE rest[i - Len(d)]
    <3>1. /\ d \o rest \in Seq(FtNames) /\ Len(d \o rest) = Len(d) + Len(rest) /\ Len(rest) \in Nat
          /\ \A i \in 1..(Len(d) + Len(rest)) : (d \o rest)[i] = IF i <= Len(d) THEN d[i] ELSE rest[i - Len(d)]
      BY <1>2, PathsJoined
    <3> HIDE DEF m
    <3> QED
      BY <1>3, <3>1
  <2>2. \A i \in 1..Len(d) : m[i] = d[i]
    BY <1>1, <2>1
  <2>3. ASSUME NEW i \in 1..Len(rest) PROVE m[Len(d) + i] = rest[i]
    <3>1. /\ Len(d) + i \in 1..(Len(d) + Len(rest)) /\ ~(Len(d) + i <= Len(d))
          /\ Len(d) + i - Len(d) = i
      BY <1>1, <2>1
    <3> QED
      BY <2>1, <3>1
  <2> QED
    BY <2>1, <2>2, <2>3
<1> HIDE DEF m
<1>5. Len(m) = Len(d) + Len(q) - Len(p) /\ Len(d) <= Len(m)
  BY <1>1, <1>2, <1>4
<1>6. IsPrefix(d, m)
  BY <1>4, <1>5, PrefixIs
<1>7. \A i \in 1..(Len(q) - Len(p)) : m[Len(d) + i] = q[Len(p) + i]
  BY <1>2, <1>4
<1> QED
  BY <1>1, <1>4, <1>5, <1>6, <1>7 DEF m

LEMMA MovedBack ==
    ASSUME NEW p \in Seq(FtNames), NEW d \in Seq(FtNames), NEW q \in Seq(FtNames), IsPrefix(p, q)
    PROVE  Moved(Moved(q, p, d), d, p) = q
<1> DEFINE m == Moved(q, p, d)
           b == Moved(m, d, p)
<1>1. /\ m \in Seq(FtNames) /\ Len(m) = Len(d) + Len(q) - Len(p) /\ IsPrefix(d, m)
      /\ \A i \in 1..(Len(q) - Len(p)) : m[Len(d) + i] = q[Len(p) + i]
      /\ Len(p) \in Nat /\ Len(d) \in Nat /\ Len(q) \in Nat /\ Len(q) >= Len(p)
  BY MovedIs
<1> HIDE DEF m
<1>2. /\ b \in Seq(FtNames) /\ Len(b) = Len(p) + Len(m) - Len(d)
      /\ \A i \in 1..Len(p) : b[i] = p[i]
      /\ \A i \in 1..(Len(m) - Len(d)) : b[Len(p) + i] = m[Len(d) + i]
  BY <1>1, MovedIs
<1> HIDE DEF b
<1>3. Len(b) = Len(q) /\ Len(m) - Len(d) = Len(q) - Len(p)
  BY <1>1, <1>2
<1>4. \A i \in 1..Len(p) : q[i] = p[i]
  BY PrefixIs
<1>5. ASSUME NEW i \in 1..Len(b) PROVE b[i] = q[i]
  <2>1. CASE i <= Len(p)
    BY <1>1, <1>2, <1>4, <2>1
  <2>2. CASE i > Len(p)
    <3> DEFINE k == i - Len(p)
    <3>1. k \in 1..(Len(q) - Len(p)) /\ i = Len(p) + k
      BY <1>1, <1>3, <1>5, <2>2
    <3> HIDE DEF k
    <3>2. b[Len(p) + k] = m[Len(d) + k] /\ m[Len(d) + k] = q[Len(p) + k]
      BY <1>1, <1>2, <1>3, <3>1
    <3> QED
      BY <3>1, <3>2
  <2> QED
    BY <1>1, <1>3, <2>1, <2>2
<1>6. b = q
  BY <1>2, <1>3, <1>5, SamePath
<1> QED
  BY <1>6 DEF b, m

LEMMA MovedItself ==
    ASSUME NEW p \in Seq(FtNames), NEW d \in Seq(FtNames)
    PROVE  Moved(p, p, d) = d /\ \A q \in Seq(FtNames) : IsPrefix(p, q) => Moved(q, p, p) = q
<1>1. IsPrefix(p, p) /\ Len(p) \in Nat
  BY PrefixIs
<1>2. Moved(p, p, d) = d
  <2>1. /\ Moved(p, p, d) \in Seq(FtNames) /\ Len(Moved(p, p, d)) = Len(d) + Len(p) - Len(p) /\ Len(d) \in Nat
        /\ \A i \in 1..Len(d) : Moved(p, p, d)[i] = d[i]
    BY <1>1, MovedIs
  <2>2. Len(Moved(p, p, d)) = Len(d)
    BY <1>1, <2>1
  <2> QED
    BY <2>1, <2>2, SamePath
<1>3. ASSUME NEW q \in Seq(FtNames), IsPrefix(p, q) PROVE Moved(q, p, p) = q
  <2> DEFINE m == Moved(q, p, p)
  <2>1. /\ m \in Seq(FtNames) /\ Len(m) = Len(p) + Len(q) - Len(p)
        /\ \A i \in 1..Len(p) : m[i] = p[i]
        /\ \A i \in 1..(Len(q) - Len(p)) : m[Len(p) + i] = q[Len(p) + i]
        /\ Len(q) \in Nat /\ Len(q) >= Len(p)
    BY <1>3, MovedIs
  <2> HIDE DEF m
  <2>2. \A i \in 1..Len(p) : q[i] = p[i]
    BY <1>3, PrefixIs
  <2>3. Len(m) = Len(q)
    BY <1>1, <2>1
  <2>4. ASSUME NEW i \in 1..Len(m) PROVE m[i] = q[i]
    <3>1. CASE i <= Len(p)
      BY <1>1, <2>1, <2>2, <2>3, <3>1
    <3>2. CASE i > Len(p)
      <4> DEFINE k == i - Len(p)
      <4>1. k \in 1..(Len(q) - Len(p)) /\ i = Len(p) + k
        BY <1>1, <2>1, <2>3, <2>4, <3>2
      <4> HIDE DEF k
      <4> QED
        BY <2>1, <4>1
    <3> QED
      BY <1>1, <2>3, <3>1, <3>2
  <2>5. m = q
    BY <2>1, <2>3, <2>4, SamePath
  <2> QED
    BY <2>5 DEF m
<1> QED
  BY <1>2, <1>3

LEMMA MovedParent ==
    ASSUME NEW p \in Seq(FtNames), NEW d \in Seq(FtNames), NEW q \in Seq(FtNames), IsPrefix(p, q), q # p,
           p # <<>>, d # <<>>
    PROVE  q # <<>> /\ IsPrefix(p, FtParent(q)) /\ FtParent(Moved(q, p, d)) = Moved(FtParent(q), p, d)
<1>1. /\ Len(p) \in Nat /\ Len(p) >= 1 /\ Len(q) \in Nat /\ Len(q) >= Len(p) /\ Len(d) \in Nat /\ Len(d) >= 1
      /\ q # <<>>
  BY PrefixIs
<1>2. IsPrefix(p, FtParent(q))
  BY <1>1, PrefixOfParent
<1>3. /\ FtParent(q) \in Seq(FtNames) /\ Len(FtParent(q)) = Len(q) - 1
      /\ \A i \in 1..(Len(q) - 1) : FtParent(q)[i] = q[i]
  BY <1>1, ParentIs
<1>4. Len(p) <= Len(q) - 1
  BY <1>2, <1>3, PrefixIs
<1> DEFINE m == Moved(q, p, d)
           n == Moved(FtParent(q), p, d)
<1>5. /\ m \in Seq(FtNames) /\ Len(m) = Len(d) + Len(q) - Len(p)
      /\ \A i \in 1..Len(d) : m[i] = d[i]
      /\ \A i \in 1..(Len(q) - Len(p)) : m[Len(d) + i] = q[Len(p) + i]
  BY MovedIs
<1>6. /\ n \in Seq(FtNames) /\ Len(n) = Len(d) + (Len(q) - 1) - Len(p)
      /\ \A i \in 1..Len(d) : n[i] = d[i]
      /\ \A i \in 1..((Len(q) - 1) - Len(p)) : n[Len(d) + i] = FtParent(q)[Len(p) + i]
  <2>1. /\ n \in Seq(FtNames) /\ Len(n) = Len(d) + Len(FtParent(q)) - Len(p)
        /\ \A i \in 1..Len(d) : n[i] = d[i]
        /\ \A i \in 1..(Len(FtParent(q)) - Len(p)) : n[Len(d) + i] = FtParent(q)[Len(p) + i]
    BY <1>2, <1>3, MovedIs
  <2> HIDE DEF n
  <2> QED
    BY <1>3, <2>1
<1> HIDE DEF m, n
<1>7. m # <<>> /\ Len(m) - 1 = Len(n)
  BY <1>1, <1>4, <1>5, <1>6
<1>8. /\ FtParent(m) \in Seq(FtNames) /\ Len(FtParent(m)) = Len(n)
      /\ \A i \in 1..Len(n) : FtParent(m)[i] = m[i]
  <2>1. /\ FtParent(m) \in Seq(FtNames) /\ Len(FtParent(m)) = Len(m) - 1
        /\ \A i \in 1..(Len(m) - 1) : FtParent(m)[i] = m[i]
    BY <1>5, <1>7, ParentIs
  <2> QED
    BY <1>7, <2>1
<1>9. ASSUME NEW i \in 1..Len(n) PROVE m[i] = n[i]
  <2>1. CASE i <= Len(d)
    BY <1>1, <1>5, <1>6, <1>9, <2>1
  <2>2. CASE i > Len(d)
    <3> DEFINE k == i - Len(d)
    <3>1. k \in 1..((Len(q) - 1) - Len(p)) /\ k \in 1..(Len(q) - Len(p)) /\ i = Len(d) + k
      BY <1>1, <1>4, <1>6, <1>9, <2>2
    <3>2. Len(p) + k \in 1..(Len(q) - 1)
      BY <1>1, <3>1
    <3> HIDE DEF k
    <3> QED
      BY <1>3, <1>5, <1>6, <3>1, <3>2
  <2> QED
    BY <1>1, <1>6, <1>9, <2>1, <2>2
<1>10. FtParent(m) = n
  BY <1>6, <1>8, <1>9, SamePath
<1> QED
  BY <1>1, <1>2, <1>10 DEF m, n

-----------------------------------------------------------------------------
FtSteps  == {"write", "mkdir", "touch", "zip", "rename", "move", "copy", "extract", "delete", "rm", "fill", "chown"}
FtOwners == {FtSite, FtRoot}
FtNodes  == [kind : {"dir"}, owner : FtOwners]
            \cup [kind : {"file"}, data : FtData \cup {FtHtml, FtText}, owner : FtOwners]
FtTasks  == [step : FtSteps, src : FtPaths, dst : FtPaths, left : SUBSET (Seq(FtNames) \ {<<>>}),
             stale : BOOLEAN, owner : FtOwners]

FtTypes ==
    /\ DOMAIN ftTree \subseteq FtPaths /\ ftTree \in [DOMAIN ftTree -> FtNodes]
    /\ ftThread \in [FtThreads -> FtTasks \cup {FtIdle}]

\* Everything has a folder to be in.
RootedIn(tree) ==
    \A p \in DOMAIN tree :
        FtParent(p) = <<>> \/ (FtParent(p) \in DOMAIN tree /\ tree[FtParent(p)].kind = "dir")

\* What an operation has looked for is still not there, unless the tree has
\* changed since; a copy or an extraction has its folder to itself.
NotThereYet(task, tree) ==
    /\ task.step \in {"mkdir", "touch", "zip", "rename", "move", "copy", "extract"} /\ ~task.stale =>
          task.dst \notin DOMAIN tree
    /\ task.step = "fill" =>
          /\ Len(task.dst) < FtDepth
          /\ \A q \in task.left :
                FtParent(q) = task.src /\ (~task.stale => Append(task.dst, Last(q)) \notin DOMAIN tree)

FtLooked == \A t \in FtThreads : ftThread[t] # FtIdle => NotThereYet(ftThread[t], ftTree)

\* It will be the site's.
WillRestore(task, p) ==
    task # FtIdle /\ task.step \in {"fill", "chown"} /\ (task.stale \/ IsPrefix(task.dst, p))

OwedToTheSite ==
    ftBroken = {} =>
        \A p \in DOMAIN ftTree :
            ftTree[p].owner # FtSite => \E t \in FtThreads : WillRestore(ftThread[t], p)

FtInv == FtTypes /\ RootedIn(ftTree) /\ FtLooked /\ OwedToTheSite

-----------------------------------------------------------------------------
LEMMA NodeIs ==
    ASSUME NEW n \in FtNodes
    PROVE  /\ n.owner \in FtOwners /\ n.kind \in {"dir", "file"}
           /\ \A o \in FtOwners : /\ [n EXCEPT !.owner = o] \in FtNodes
                                  /\ [n EXCEPT !.owner = o].owner = o
                                  /\ [n EXCEPT !.owner = o].kind = n.kind
                                  /\ n.kind = "file" => [n EXCEPT !.owner = o].data = n.data
           /\ n.kind = "file" => n.data \in FtData \cup {FtHtml, FtText}
<1>1. CASE n \in [kind : {"dir"}, owner : FtOwners]
  BY <1>1 DEF FtNodes
<1>2. CASE n \in [kind : {"file"}, data : FtData \cup {FtHtml, FtText}, owner : FtOwners]
  BY <1>2 DEF FtNodes
<1> QED
  BY <1>1, <1>2 DEF FtNodes

LEMMA NewNodes ==
    ASSUME NEW o \in FtOwners
    PROVE  /\ FtDir(o) \in FtNodes /\ FtDir(o).owner = o /\ FtDir(o).kind = "dir"
           /\ \A c \in FtData \cup {FtHtml, FtText} :
                 /\ FtFile(c, o) \in FtNodes /\ FtFile(c, o).owner = o
                 /\ FtFile(c, o).kind = "file" /\ FtFile(c, o).data = c
BY DEF FtDir, FtFile, FtNodes

LEMMA FtIdleIs == FtIdle.step = "idle" /\ FtIdle \notin FtTasks /\ \A task \in FtTasks : task.step # "idle" /\ task # FtIdle
<1>1. FtIdle.step = "idle"
  BY DEF FtIdle
<1>2. \A task \in FtTasks : task.step # "idle"
  BY DEF FtTasks, FtSteps
<1> QED
  BY <1>1, <1>2

LEMMA FtStates ==
    ASSUME FtTypes
    PROVE  /\ \A p \in DOMAIN ftTree : ftTree[p] \in FtNodes /\ p \in FtPaths /\ p \in Seq(FtNames) /\ p # <<>>
           /\ \A p : FtIsDir(p) <=> p = <<>> \/ (p \in DOMAIN ftTree /\ ftTree[p].kind = "dir")
           /\ \A p : FtIsFile(p) <=> p \in DOMAIN ftTree /\ ftTree[p].kind = "file"
           /\ \A t \in FtThreads : ftThread[t] \in FtTasks \cup {FtIdle}
           /\ \A t \in FtThreads, step \in FtSteps : FtAt(t, step) => ftThread[t] \in FtTasks
<1>1. \A p \in DOMAIN ftTree : ftTree[p] \in FtNodes /\ p \in FtPaths /\ p \in Seq(FtNames) /\ p # <<>>
  BY PathOfChild DEF FtTypes
<1>2. \A t \in FtThreads : ftThread[t] \in FtTasks \cup {FtIdle}
  BY DEF FtTypes
<1>3. "idle" \notin FtSteps
  BY DEF FtSteps
<1>4. \A t \in FtThreads, step \in FtSteps : FtAt(t, step) => ftThread[t] \in FtTasks
  BY <1>2, <1>3, FtIdleIs DEF FtAt
<1> QED
  BY <1>1, <1>2, <1>4 DEF FtIsDir, FtIsFile, FtHas

\* Every set of numbers that has one has a least.
LEMMA LeastLength ==
    ASSUME NEW T, T \subseteq Nat, T # {}
    PROVE  \E x \in T : \A y \in T : x <= y
<1> DEFINE Less == {p \in Nat \X Nat : p[1] < p[2]}
<1>1. IsWellFoundedOn(Less, Nat)
  BY NatLessThanWellFounded DEF OpToRel
<1>2. PICK x \in T : \A y \in T : <<y, x>> \notin Less
  BY <1>1, WFMin
<1>3. ASSUME NEW y \in T PROVE x <= y
  <2>1. <<y, x>> \in Nat \X Nat /\ <<y, x>>[1] = y /\ <<y, x>>[2] = x
    OBVIOUS
  <2>2. ~(y < x)
    BY <1>2, <2>1
  <2> QED
    BY <2>2
<1> QED
  BY <1>3

\* Nothing lies under a path that is not there, a file, or an empty folder.
LEMMA NothingUnder ==
    ASSUME FtTypes, RootedIn(ftTree), NEW d \in FtPaths, ~FtIsDir(d) \/ FtChildren(d) = {}
    PROVE  \A q \in DOMAIN ftTree : IsPrefix(d, q) => q = d
<1> SUFFICES ASSUME NEW q \in DOMAIN ftTree, IsPrefix(d, q), q # d PROVE FALSE
  OBVIOUS
<1> DEFINE S == {r \in DOMAIN ftTree : IsPrefix(d, r) /\ r # d}
           T == {Len(r) : r \in S}
<1>0. d \in Seq(FtNames) /\ d # <<>>
  BY PathOfChild
<1>1. \A r \in S : Len(r) \in Nat /\ r \in Seq(FtNames) /\ r # <<>> /\ r \in DOMAIN ftTree
  <2>1. \A r \in DOMAIN ftTree : r \in Seq(FtNames) /\ r # <<>>
    BY FtStates
  <2> QED
    BY <2>1, ParentIs
<1>2. T \subseteq Nat /\ T # {}
  BY <1>1
<1> HIDE DEF T
<1>3. PICK n \in T : \A m \in T : n <= m
  BY <1>2, LeastLength
<1>4. PICK r \in S : n = Len(r)
  BY <1>3 DEF T
<1>5. /\ FtParent(r) \in Seq(FtNames) /\ Len(FtParent(r)) = n - 1 /\ n \in Nat /\ n >= 1 /\ FtParent(r) # r
  BY <1>1, <1>4, ParentIs
<1>6. IsPrefix(d, FtParent(r)) /\ FtParent(r) # <<>>
  BY <1>0, <1>1, PrefixOfParent
<1>7. FtParent(r) \in DOMAIN ftTree /\ ftTree[FtParent(r)].kind = "dir"
  BY <1>6 DEF RootedIn
<1>8. CASE FtParent(r) = d
  <2>1. FtIsDir(d) /\ r \in FtChildren(d)
    BY <1>5, <1>7, <1>8 DEF FtIsDir, FtHas, FtChildren
  <2> QED
    BY <2>1
<1>9. CASE FtParent(r) # d
  <2>1. n - 1 \in T
    BY <1>5, <1>6, <1>7, <1>9 DEF T
  <2> QED
    BY <1>3, <1>5, <2>1
<1> QED
  BY <1>8, <1>9

LEMMA PutIs ==
    ASSUME FtTypes, RootedIn(ftTree), NEW d \in FtPaths, NEW n \in FtNodes, FtIsDir(FtParent(d)), ~FtIsDir(d)
    PROVE  LET tree == FtPut(d, n) IN
           /\ DOMAIN tree = DOMAIN ftTree \cup {d} /\ DOMAIN tree \subseteq FtPaths
           /\ tree \in [DOMAIN tree -> FtNodes] /\ tree[d] = n
           /\ \A p \in DOMAIN ftTree \ {d} : tree[p] = ftTree[p]
           /\ RootedIn(tree)
<1> DEFINE tree == FtPut(d, n)
<1>1. /\ tree = [p \in DOMAIN ftTree \cup {d} |-> IF p = d THEN n ELSE ftTree[p]]
  BY DEF FtPut
<1> HIDE DEF tree
<1>2. /\ DOMAIN tree = DOMAIN ftTree \cup {d} /\ tree[d] = n
      /\ \A p \in DOMAIN ftTree \ {d} : tree[p] = ftTree[p]
  BY <1>1
<1>3. DOMAIN tree \subseteq FtPaths /\ tree \in [DOMAIN tree -> FtNodes]
  BY <1>1, <1>2 DEF FtTypes
<1>4. ASSUME NEW p \in DOMAIN tree, FtParent(p) # <<>>
      PROVE  FtParent(p) \in DOMAIN tree /\ tree[FtParent(p)].kind = "dir"
  <2>1. FtIsDir(FtParent(p))
    BY <1>2, <1>4 DEF RootedIn, FtIsDir, FtHas
  <2>2. FtParent(p) # d /\ FtParent(p) \in DOMAIN ftTree /\ ftTree[FtParent(p)].kind = "dir"
    BY <1>4, <2>1 DEF FtIsDir, FtHas
  <2> QED
    BY <1>2, <2>2
<1> QED
  BY <1>2, <1>3, <1>4 DEF RootedIn, tree

LEMMA CutIs ==
    ASSUME FtTypes, RootedIn(ftTree), NEW d, FtChildren(d) = {}
    PROVE  LET tree == FtCut({d}) IN
           /\ DOMAIN tree = DOMAIN ftTree \ {d} /\ DOMAIN tree \subseteq FtPaths
           /\ tree \in [DOMAIN tree -> FtNodes]
           /\ \A p \in DOMAIN tree : tree[p] = ftTree[p]
           /\ RootedIn(tree)
<1> DEFINE tree == FtCut({d})
<1>1. /\ DOMAIN tree = DOMAIN ftTree \ {d} /\ tree \in [DOMAIN tree -> FtNodes]
      /\ \A p \in DOMAIN tree : tree[p] = ftTree[p]
  BY DEF FtCut, FtTypes
<1> HIDE DEF tree
<1>2. ASSUME NEW p \in DOMAIN tree, FtParent(p) # <<>>
      PROVE  FtParent(p) \in DOMAIN tree /\ tree[FtParent(p)].kind = "dir"
  <2>1. FtParent(p) # d
    BY <1>1, <1>2 DEF FtChildren
  <2>2. FtParent(p) \in DOMAIN ftTree /\ ftTree[FtParent(p)].kind = "dir"
    BY <1>1, <1>2 DEF RootedIn
  <2> QED
    BY <1>1, <2>1, <2>2
<1> QED
  BY <1>1, <1>2 DEF RootedIn, tree, FtTypes

\* rename(2) moves what it moves, and loses at most what was at the new name.
LEMMA RenamedIs ==
    ASSUME FtTypes, RootedIn(ftTree), NEW p \in FtPaths, NEW d \in FtPaths, Renames(p, d),
           NEW tree, tree = FtRenamed(p, d)
    PROVE  /\ DOMAIN tree \subseteq FtPaths /\ tree \in [DOMAIN tree -> FtNodes] /\ RootedIn(tree)
           /\ \A x \in DOMAIN tree : \E q \in DOMAIN ftTree : tree[x] = ftTree[q]
           /\ d \notin DOMAIN ftTree => \A q \in DOMAIN ftTree : \E x \in DOMAIN tree : tree[x] = ftTree[q]
<1> DEFINE kept == DOMAIN ftTree \ (Under(p) \cup {d})
           new  == {Moved(q, p, d) : q \in Under(p)}
<1>1. /\ tree = [q \in kept \cup new |-> IF q \in new THEN ftTree[Moved(q, d, p)] ELSE ftTree[q]]
      /\ DOMAIN tree = kept \cup new
  BY DEF FtRenamed
<1>2. /\ p \in Seq(FtNames) /\ p # <<>> /\ d \in Seq(FtNames) /\ d # <<>>
      /\ \A q \in DOMAIN ftTree : q \in Seq(FtNames) /\ q # <<>> /\ q \in FtPaths /\ ftTree[q] \in FtNodes
  BY PathOfChild, FtStates
<1>3. /\ p \in Under(p) /\ \A q \in Under(p) : q \in DOMAIN ftTree /\ IsPrefix(p, q)
      /\ \A q \in DOMAIN ftTree : IsPrefix(p, q) => q \in Under(p)
  BY <1>2, PrefixOfParent DEF Under, Renames, FtHas
<1>4. \A q \in DOMAIN ftTree : IsPrefix(d, q) => q = d
  <2>1. FtIsDir(d) => FtHas(d)
    BY <1>2 DEF FtIsDir
  <2>2. ~FtIsDir(d) \/ FtChildren(d) = {}
    BY <2>1 DEF Renames
  <2> QED
    BY <2>2, NothingUnder
<1>5. ASSUME NEW q \in Under(p)
      PROVE  /\ Moved(q, p, d) \in FtPaths /\ IsPrefix(d, Moved(q, p, d)) /\ Moved(Moved(q, p, d), d, p) = q
             /\ Moved(q, p, d) \notin kept
  <2>1. /\ Moved(q, p, d) \in Seq(FtNames) /\ IsPrefix(d, Moved(q, p, d)) /\ Moved(Moved(q, p, d), d, p) = q
        /\ Len(Moved(q, p, d)) = Len(d) + Len(q) - Len(p)
        /\ Len(p) \in Nat /\ Len(d) \in Nat /\ Len(q) \in Nat /\ Len(q) >= Len(p)
    BY <1>2, <1>3, MovedIs, MovedBack
  <2>2. Len(Moved(q, p, d)) <= FtDepth
    BY DEF Renames
  <2>3. Len(d) >= 1
    BY <1>2
  <2>4. Moved(q, p, d) \in FtPaths
    <3> HIDE DEF new
    <3>1. Len(Moved(q, p, d)) \in 1..FtDepth
      BY <2>1, <2>2, <2>3, FileTreeAssumption
    <3> QED
      BY <2>1, <3>1, PathIs
  <2>5. Moved(q, p, d) \notin kept
    BY <1>4, <2>1
  <2> QED
    BY <2>1, <2>4, <2>5
<1>6. /\ \A q \in Under(p) : Moved(q, p, d) \in DOMAIN tree /\ tree[Moved(q, p, d)] = ftTree[q]
      /\ \A q \in kept : q \in DOMAIN tree /\ tree[q] = ftTree[q]
  BY <1>1, <1>5
<1>7. \A x \in DOMAIN tree : x \in kept \/ \E q \in Under(p) : x = Moved(q, p, d)
  BY <1>1
<1>8. \A x \in DOMAIN tree : x \in FtPaths /\ \E q \in DOMAIN ftTree : tree[x] = ftTree[q]
  BY <1>2, <1>3, <1>5, <1>6, <1>7
<1>9. tree \in [DOMAIN tree -> FtNodes]
  <2>1. \A x \in DOMAIN tree : tree[x] \in FtNodes
    BY <1>2, <1>8
  <2>2. tree = [x \in DOMAIN tree |-> tree[x]]
    BY <1>1
  <2> HIDE DEF kept, new
  <2> QED
    BY <2>1, <2>2
<1> HIDE DEF new
<1>10. ASSUME NEW f, f \in DOMAIN ftTree, ftTree[f].kind = "dir", ~IsPrefix(p, f), f # d
       PROVE  f \in DOMAIN tree /\ tree[f].kind = "dir"
  <2>1. f \in kept
    BY <1>3, <1>10
  <2> QED
    BY <1>6, <1>10, <2>1
<1>11. ASSUME NEW x \in DOMAIN tree, FtParent(x) # <<>>
       PROVE  FtParent(x) \in DOMAIN tree /\ tree[FtParent(x)].kind = "dir"
  <2>1. CASE x = d
    <3>1. FtParent(d) \in DOMAIN ftTree /\ ftTree[FtParent(d)].kind = "dir" /\ FtParent(d) # d
      BY <1>2, <1>11, <2>1, ParentIs DEF Renames, FtIsDir, FtHas
    <3>2. ~IsPrefix(p, FtParent(d))
      BY <1>2, PrefixOfParent DEF Renames
    <3> QED
      BY <1>10, <2>1, <3>1, <3>2
  <2>2. CASE x \in kept
    <3>1. FtParent(x) \in DOMAIN ftTree /\ ftTree[FtParent(x)].kind = "dir" /\ x \in DOMAIN ftTree
      BY <1>11, <2>2 DEF RootedIn
    <3>2. ~IsPrefix(p, FtParent(x))
      <4>1. ~IsPrefix(p, x)
        BY <1>3, <2>2
      <4> QED
        BY <1>2, <3>1, <4>1, PrefixOfParent
    <3>3. FtParent(x) # d
      <4>1. x # d
        BY <2>2
      <4>2. IsPrefix(FtParent(x), x)
        BY <1>2, <3>1, PrefixOfParent
      <4> QED
        BY <1>4, <3>1, <4>1, <4>2
    <3> QED
      BY <1>10, <3>1, <3>2, <3>3
  <2>3. ASSUME NEW q \in Under(p), x = Moved(q, p, d), x # d
        PROVE  FtParent(x) \in DOMAIN tree /\ tree[FtParent(x)].kind = "dir"
    <3>1. q # p
      BY <1>2, <2>3, MovedItself
    <3>2. IsPrefix(p, FtParent(q)) /\ FtParent(x) = Moved(FtParent(q), p, d)
      BY <1>2, <1>3, <2>3, <3>1, MovedParent
    <3>3. FtParent(q) # <<>>
      BY <1>2, <1>3, <3>2, PrefixOfParent
    <3>4. FtParent(q) \in DOMAIN ftTree /\ ftTree[FtParent(q)].kind = "dir"
      BY <1>3, <3>3 DEF RootedIn
    <3>5. FtParent(q) \in Under(p)
      BY <1>3, <3>2, <3>4
    <3> QED
      BY <1>6, <3>2, <3>4, <3>5
  <2> QED
    BY <1>7, <2>1, <2>2, <2>3
<1>12. ASSUME d \notin DOMAIN ftTree, NEW q \in DOMAIN ftTree PROVE \E x \in DOMAIN tree : tree[x] = ftTree[q]
  <2>1. CASE q \in Under(p)
    BY <1>6, <2>1
  <2>2. CASE q \notin Under(p)
    BY <1>6, <1>12, <2>2
  <2> QED
    BY <2>1, <2>2
<1> QED
  BY <1>8, <1>9, <1>11, <1>12 DEF RootedIn

-----------------------------------------------------------------------------
LEMMA TaskIs ==
    ASSUME FtTypes, NEW t \in FtThreads, ftThread[t] \in FtTasks
    PROVE  /\ ftThread[t].step \in FtSteps /\ ftThread[t].left \subseteq Seq(FtNames) \ {<<>>}
           /\ FtSrc(t) \in FtPaths /\ FtDst(t) \in FtPaths
           /\ ftThread[t].stale \in BOOLEAN /\ ftThread[t].owner \in FtOwners
           /\ FtSrc(t) = ftThread[t].src /\ FtDst(t) = ftThread[t].dst
           /\ ftThread[t] # FtIdle
BY FtIdleIs DEF FtTasks, FtSrc, FtDst

LEMMA ThenIs ==
    ASSUME FtTypes, NEW t \in FtThreads, ftThread[t] \in FtTasks, NEW step \in FtSteps
    PROVE  /\ FtThen(t, step) \in FtTasks /\ FtThen(t, step).step = step
           /\ FtThen(t, step).dst = ftThread[t].dst /\ FtThen(t, step).src = ftThread[t].src
           /\ FtThen(t, step).left = ftThread[t].left /\ FtThen(t, step).stale = ftThread[t].stale
BY DEF FtThen, FtTasks

LEMMA ToBeDone ==
    ASSUME NEW task \in FtTasks, NEW left \in SUBSET (Seq(FtNames) \ {<<>>})
    PROVE  /\ [task EXCEPT !.left = left] \in FtTasks /\ [task EXCEPT !.left = left].left = left
           /\ [task EXCEPT !.left = left].step = task.step /\ [task EXCEPT !.left = left].dst = task.dst
           /\ [task EXCEPT !.left = left].src = task.src /\ [task EXCEPT !.left = left].stale = task.stale
BY DEF FtTasks

LEMMA StaleIs ==
    ASSUME FtTypes, NEW t \in FtThreads, NEW r \in FtTasks \cup {FtIdle}, FtStale(t, r)
    PROVE  /\ ftThread' \in [FtThreads -> FtTasks \cup {FtIdle}] /\ ftThread'[t] = r
           /\ \A s \in FtThreads \ {t} :
                 /\ ftThread[s] = FtIdle => ftThread'[s] = FtIdle
                 /\ ftThread[s] # FtIdle =>
                       /\ ftThread'[s] # FtIdle /\ ftThread'[s].stale /\ ftThread'[s].step = ftThread[s].step
                       /\ ftThread'[s].src = ftThread[s].src /\ ftThread'[s].dst = ftThread[s].dst
                       /\ ftThread'[s].left = ftThread[s].left
<1>1. \A s \in FtThreads : ftThread[s] \in FtTasks \cup {FtIdle}
  BY DEF FtTypes
<1>2. ASSUME NEW task \in FtTasks
      PROVE  /\ [task EXCEPT !.stale = TRUE] \in FtTasks /\ [task EXCEPT !.stale = TRUE].stale
             /\ [task EXCEPT !.stale = TRUE].step = task.step /\ [task EXCEPT !.stale = TRUE].src = task.src
             /\ [task EXCEPT !.stale = TRUE].dst = task.dst /\ [task EXCEPT !.stale = TRUE].left = task.left
  BY DEF FtTasks
<1>3. /\ ftThread' = [s \in FtThreads |->
                        IF s = t THEN r
                        ELSE IF ftThread[s] = FtIdle THEN FtIdle ELSE [ftThread[s] EXCEPT !.stale = TRUE]]
  BY DEF FtStale
<1>4. ASSUME NEW s \in FtThreads, ftThread[s] # FtIdle PROVE [ftThread[s] EXCEPT !.stale = TRUE] \in FtTasks
  BY <1>1, <1>2, <1>4
<1>5. ftThread' \in [FtThreads -> FtTasks \cup {FtIdle}]
  BY <1>3, <1>4
<1> QED
  BY <1>1, <1>2, <1>3, <1>4, <1>5, FtIdleIs

\* What a call leaves, when nothing but its tree and its own next step is to
\* be looked at: every other operation under way is out of date.
LEMMA ActsKeeps ==
    ASSUME FtInv, NEW t \in FtThreads, NEW tree, NEW r \in FtTasks \cup {FtIdle}, Acts(t, tree, r),
           DOMAIN tree \subseteq FtPaths, tree \in [DOMAIN tree -> FtNodes], RootedIn(tree),
           r # FtIdle => NotThereYet(r, tree),
           \A p \in DOMAIN tree : tree[p].owner # FtSite =>
               \/ WillRestore(r, p)
               \/ \E q \in DOMAIN ftTree : /\ ftTree[q].owner # FtSite
                                           /\ WillRestore(ftThread[t], q) => WillRestore(r, p)
    PROVE  FtInv'
<1>1. /\ ftTree' = tree /\ FtStale(t, r) /\ ftBroken' = ftBroken
      /\ FtTypes /\ RootedIn(ftTree) /\ FtLooked /\ OwedToTheSite
  BY DEF Acts, FtInv
<1>2. /\ ftThread' \in [FtThreads -> FtTasks \cup {FtIdle}] /\ ftThread'[t] = r
      /\ \A s \in FtThreads \ {t} :
            /\ ftThread[s] = FtIdle => ftThread'[s] = FtIdle
            /\ ftThread[s] # FtIdle =>
                  /\ ftThread'[s] # FtIdle /\ ftThread'[s].stale /\ ftThread'[s].step = ftThread[s].step
                  /\ ftThread'[s].src = ftThread[s].src /\ ftThread'[s].dst = ftThread[s].dst
                  /\ ftThread'[s].left = ftThread[s].left
  BY <1>1, StaleIs
<1>3. FtTypes'
  BY <1>1, <1>2 DEF FtTypes
<1>4. FtLooked'
  <2>1. ASSUME NEW s \in FtThreads \ {t}, ftThread'[s] # FtIdle PROVE NotThereYet(ftThread'[s], tree)
    <3>1. NotThereYet(ftThread[s], ftTree)
      BY <1>1, <1>2, <2>1 DEF FtLooked
    <3> QED
      BY <1>2, <2>1, <3>1 DEF NotThereYet
  <2> QED
    BY <1>1, <1>2, <2>1 DEF FtLooked
<1>5. ASSUME ftBroken = {}, NEW p \in DOMAIN tree, tree[p].owner # FtSite
      PROVE  \E s \in FtThreads : WillRestore(ftThread'[s], p)
  <2>1. CASE WillRestore(r, p)
    BY <1>2, <2>1
  <2>2. CASE ~WillRestore(r, p)
    <3>1. PICK q \in DOMAIN ftTree : ftTree[q].owner # FtSite /\ ~WillRestore(ftThread[t], q)
      BY <1>5, <2>2
    <3>2. PICK s \in FtThreads : WillRestore(ftThread[s], q)
      BY <1>1, <1>5, <3>1 DEF OwedToTheSite
    <3>3. s \in FtThreads \ {t}
      BY <3>1, <3>2
    <3>4. WillRestore(ftThread'[s], p)
      BY <1>2, <3>2, <3>3 DEF WillRestore
    <3> QED
      BY <3>4
  <2> QED
    BY <2>1, <2>2
<1>6. OwedToTheSite'
  BY <1>1, <1>5 DEF OwedToTheSite
<1> QED
  BY <1>1, <1>3, <1>4, <1>6 DEF FtInv

\* An operation that ends half-way owes nothing any more: where it was is
\* remembered.
LEMMA EndedHalfWayKeeps ==
    ASSUME FtInv, NEW t \in FtThreads, FtStale(t, FtIdle), ftBroken' # {},
           DOMAIN ftTree' \subseteq FtPaths, ftTree' \in [DOMAIN ftTree' -> FtNodes], RootedIn(ftTree)'
    PROVE  FtInv'
<1>1. FtTypes /\ FtLooked
  BY DEF FtInv
<1>2. /\ ftThread' \in [FtThreads -> FtTasks \cup {FtIdle}] /\ ftThread'[t] = FtIdle
      /\ \A s \in FtThreads \ {t} :
            /\ ftThread[s] = FtIdle => ftThread'[s] = FtIdle
            /\ ftThread[s] # FtIdle =>
                  /\ ftThread'[s] # FtIdle /\ ftThread'[s].stale /\ ftThread'[s].step = ftThread[s].step
                  /\ ftThread'[s].src = ftThread[s].src /\ ftThread'[s].dst = ftThread[s].dst
                  /\ ftThread'[s].left = ftThread[s].left
  BY <1>1, StaleIs
<1>3. FtTypes'
  BY <1>1, <1>2 DEF FtTypes
<1>4. FtLooked'
  <2>1. ASSUME NEW s \in FtThreads \ {t}, ftThread'[s] # FtIdle PROVE NotThereYet(ftThread'[s], ftTree')
    <3>1. NotThereYet(ftThread[s], ftTree)
      BY <1>1, <1>2, <2>1 DEF FtLooked
    <3> QED
      BY <1>2, <2>1, <3>1 DEF NotThereYet
  <2> QED
    BY <1>2, <2>1 DEF FtLooked
<1>5. OwedToTheSite'
  BY DEF OwedToTheSite
<1> QED
  BY <1>3, <1>4, <1>5 DEF FtInv

-----------------------------------------------------------------------------
LEMMA FtOpIs ==
    ASSUME FtTypes, NEW step \in FtSteps, NEW src \in FtPaths, NEW dst \in FtPaths
    PROVE  /\ FtOp(step, src, dst) \in FtTasks /\ FtOp(step, src, dst).step = step
           /\ FtOp(step, src, dst).dst = dst
<1>1. \A p : FtOwner(p) \in FtOwners
  BY FtStates, NodeIs DEF FtOwner, FtHas, FtOwners
<1> QED
  BY <1>1 DEF FtOp, FtTasks

\* A request is answered with a task, for what it has looked for.
LEMMA AskKeeps ==
    ASSUME FtInv, NEW t \in FtThreads, NEW step \in FtSteps, step # "fill",
           NEW src \in FtPaths, NEW dst \in FtPaths, FtAsk(t, FtOp(step, src, dst)),
           step \in {"mkdir", "touch", "zip", "rename", "move", "copy", "extract"} => ~FtHas(dst)
    PROVE  FtInv'
<1> DEFINE r == FtOp(step, src, dst)
<1>1. /\ FtTypes /\ RootedIn(ftTree) /\ FtLooked /\ OwedToTheSite
      /\ r \in FtTasks /\ r.step = step /\ r.dst = dst
  BY FtOpIs DEF FtInv
<1> HIDE DEF r
<1>2. /\ ftThread[t] = FtIdle /\ ftThread' = [ftThread EXCEPT ![t] = r]
      /\ ftTree' = ftTree /\ ftBroken' = ftBroken
  BY DEF FtAsk, r
<1>3. NotThereYet(r, ftTree)
  BY <1>1 DEF NotThereYet, FtHas
<1>4. FtTypes'
  BY <1>1, <1>2 DEF FtTypes
<1>5. \A s \in FtThreads : ftThread'[s] = IF s = t THEN r ELSE ftThread[s]
  BY <1>1, <1>2 DEF FtTypes
<1>6. FtLooked'
  BY <1>1, <1>2, <1>3, <1>5 DEF FtLooked
<1>7. OwedToTheSite'
  <2>1. \A p : ~WillRestore(ftThread[t], p)
    BY <1>2 DEF WillRestore
  <2> QED
    BY <1>1, <1>2, <1>5, <2>1 DEF OwedToTheSite
<1> QED
  BY <1>1, <1>2, <1>4, <1>6, <1>7 DEF FtInv

LEMMA FtAsksKeep ==
    ASSUME FtInv, NEW t \in FtThreads,
           AskWrite(t) \/ AskNew(t) \/ AskRename(t) \/ AskMoveOrCopy(t) \/ AskBeside(t) \/ AskUnlink(t)
    PROVE  FtInv'
<1>0. FtTypes
  BY DEF FtInv
<1>1. CASE AskWrite(t)
  <2>1. PICK p \in FtPaths : FtAsk(t, FtOp("write", p, p))
    BY <1>1 DEF AskWrite
  <2> QED
    BY <2>1, AskKeeps DEF FtSteps
<1>2. CASE AskNew(t)
  <2>1. PICK p \in FtPaths, step \in {"mkdir", "touch", "zip"} : ~FtHas(p) /\ FtAsk(t, FtOp(step, p, p))
    BY <1>2 DEF AskNew
  <2> QED
    BY <2>1, AskKeeps DEF FtSteps
<1>3. CASE AskRename(t)
  <2>1. PICK p \in FtPaths, n \in FtNames :
            ~FtHas(Append(FtParent(p), n)) /\ FtAsk(t, FtOp("rename", p, Append(FtParent(p), n)))
    BY <1>3 DEF AskRename
  <2>2. Append(FtParent(p), n) \in FtPaths
    BY PathOfChild
  <2> QED
    BY <2>1, <2>2, AskKeeps DEF FtSteps
<1>4. CASE AskMoveOrCopy(t)
  <2>1. PICK p \in DOMAIN ftTree, q \in {<<>>} \cup DOMAIN ftTree, step \in {"move", "copy"} :
            /\ ~FtHas(Append(q, Last(p))) /\ Len(Append(q, Last(p))) <= FtDepth
            /\ FtAsk(t, FtOp(step, p, Append(q, Last(p))))
    BY <1>4 DEF AskMoveOrCopy
  <2>2. p \in FtPaths /\ Append(q, Last(p)) \in FtPaths
    <3>0. <<>> \in Seq(FtNames)
      OBVIOUS
    <3>1. p \in FtPaths /\ p \in Seq(FtNames) /\ p # <<>> /\ q \in Seq(FtNames)
      BY <1>0, <3>0, FtStates
    <3>2. Last(p) \in FtNames
      BY <3>1, ParentIs
    <3>3. Append(q, Last(p)) \in Seq(FtNames) /\ Len(Append(q, Last(p))) = Len(q) + 1 /\ Len(q) \in Nat
      BY <3>1, <3>2, ChildIs
    <3>4. Len(Append(q, Last(p))) \in 1..FtDepth
      BY <2>1, <3>3, FileTreeAssumption
    <3> QED
      BY <3>1, <3>3, <3>4, PathIs
  <2> QED
    BY <2>1, <2>2, AskKeeps DEF FtSteps
<1>5. CASE AskBeside(t)
  <2>1. PICK p \in DOMAIN ftTree, n \in FtNames, step \in {"copy", "extract"} :
            ~FtHas(Append(FtParent(p), n)) /\ FtAsk(t, FtOp(step, p, Append(FtParent(p), n)))
    BY <1>5 DEF AskBeside
  <2>2. p \in FtPaths /\ Append(FtParent(p), n) \in FtPaths
    BY <1>0, FtStates, PathOfChild
  <2> QED
    BY <2>1, <2>2, AskKeeps DEF FtSteps
<1>6. CASE AskUnlink(t)
  <2>1. PICK p \in FtPaths : FtAsk(t, FtOp("delete", p, p))
    BY <1>6 DEF AskUnlink
  <2> QED
    BY <2>1, AskKeeps DEF FtSteps
<1> QED
  BY <1>1, <1>2, <1>3, <1>4, <1>5, <1>6

\* A call that puts one new thing there, which it will give to the site.
LEMMA PutKeeps ==
    ASSUME FtInv, NEW t \in FtThreads, NEW d \in FtPaths, NEW n \in FtNodes, FtIsDir(FtParent(d)), ~FtIsDir(d),
           NEW r \in FtTasks, Acts(t, FtPut(d, n), r), NotThereYet(r, FtPut(d, n)),
           r.step \in {"fill", "chown"}, IsPrefix(r.dst, d) \/ n.owner = FtSite,
           \A p \in DOMAIN ftTree : WillRestore(ftThread[t], p) => WillRestore(r, p)
    PROVE  FtInv'
<1> DEFINE tree == FtPut(d, n)
<1>1. FtTypes /\ RootedIn(ftTree)
  BY DEF FtInv
<1>2. /\ DOMAIN tree = DOMAIN ftTree \cup {d} /\ DOMAIN tree \subseteq FtPaths
      /\ tree \in [DOMAIN tree -> FtNodes] /\ tree[d] = n
      /\ \A p \in DOMAIN ftTree \ {d} : tree[p] = ftTree[p]
      /\ RootedIn(tree)
  BY <1>1, PutIs
<1>3. Acts(t, tree, r) /\ NotThereYet(r, tree)
  OBVIOUS
<1> HIDE DEF tree
<1>4. ASSUME NEW p \in DOMAIN tree, tree[p].owner # FtSite
      PROVE  \/ WillRestore(r, p)
             \/ \E q \in DOMAIN ftTree : /\ ftTree[q].owner # FtSite
                                         /\ WillRestore(ftThread[t], q) => WillRestore(r, p)
  <2>1. CASE p = d
    BY <1>2, <1>4, <2>1, FtIdleIs DEF WillRestore
  <2>2. CASE p # d
    BY <1>2, <1>4, <2>2
  <2> QED
    BY <2>1, <2>2
<1> QED
  BY <1>2, <1>3, <1>4, ActsKeeps

LEMMA CutKeeps ==
    ASSUME FtInv, NEW t \in FtThreads, NEW d, FtChildren(d) = {},
           NEW r \in FtTasks \cup {FtIdle}, Acts(t, FtCut({d}), r), r # FtIdle => NotThereYet(r, FtCut({d})),
           ftThread[t].step \notin {"fill", "chown"}
    PROVE  FtInv'
<1> DEFINE tree == FtCut({d})
<1>1. FtTypes /\ RootedIn(ftTree)
  BY DEF FtInv
<1>2. /\ DOMAIN tree = DOMAIN ftTree \ {d} /\ DOMAIN tree \subseteq FtPaths
      /\ tree \in [DOMAIN tree -> FtNodes]
      /\ \A p \in DOMAIN tree : tree[p] = ftTree[p]
      /\ RootedIn(tree)
  BY <1>1, CutIs
<1>3. Acts(t, tree, r) /\ (r # FtIdle => NotThereYet(r, tree))
  OBVIOUS
<1> HIDE DEF tree
<1>4. ASSUME NEW p \in DOMAIN tree, tree[p].owner # FtSite
      PROVE  \/ WillRestore(r, p)
             \/ \E q \in DOMAIN ftTree : /\ ftTree[q].owner # FtSite
                                         /\ WillRestore(ftThread[t], q) => WillRestore(r, p)
  BY <1>2, <1>4 DEF WillRestore
<1> QED
  BY <1>2, <1>3, <1>4, ActsKeeps

LEMMA FileRenameKeeps ==
    ASSUME FtInv, NEW t \in FtThreads, NEW p \in FtPaths, NEW d \in FtPaths, Renames(p, d),
           NEW r \in FtTasks \cup {FtIdle}, Acts(t, FtRenamed(p, d), r),
           r # FtIdle => r.step = "chown", ftThread[t].step \notin {"fill", "chown"}
    PROVE  FtInv'
<1> DEFINE tree == FtRenamed(p, d)
<1>1. FtTypes /\ RootedIn(ftTree)
  BY DEF FtInv
<1>2. /\ DOMAIN tree \subseteq FtPaths
      /\ tree \in [DOMAIN tree -> FtNodes]
      /\ RootedIn(tree)
      /\ \A x \in DOMAIN tree : \E q \in DOMAIN ftTree : tree[x] = ftTree[q]
  BY <1>1, RenamedIs
<1>3. Acts(t, tree, r) /\ (r # FtIdle => NotThereYet(r, tree))
  BY DEF NotThereYet
<1> HIDE DEF tree
<1>4. ASSUME NEW x \in DOMAIN tree, tree[x].owner # FtSite
      PROVE  \/ WillRestore(r, x)
             \/ \E q \in DOMAIN ftTree : /\ ftTree[q].owner # FtSite
                                         /\ WillRestore(ftThread[t], q) => WillRestore(r, x)
  BY <1>2, <1>4 DEF WillRestore
<1> QED
  BY <1>2, <1>3, <1>4, ActsKeeps

LEMMA ChownNext ==
    ASSUME FtTypes, NEW t \in FtThreads, ftThread[t] \in FtTasks
    PROVE  /\ FtDst(t) \in FtPaths /\ IsPrefix(FtDst(t), FtDst(t))
           /\ FtThen(t, "chown") \in FtTasks /\ FtThen(t, "chown").step = "chown"
           /\ FtThen(t, "chown").dst = FtDst(t)
<1>1. FtDst(t) \in FtPaths /\ FtDst(t) = ftThread[t].dst
  BY TaskIs
<1>2. "chown" \in FtSteps
  BY DEF FtSteps
<1>3. /\ FtThen(t, "chown") \in FtTasks /\ FtThen(t, "chown").step = "chown"
      /\ FtThen(t, "chown").dst = ftThread[t].dst
  BY <1>1, <1>2, ThenIs
<1> QED
  BY <1>1, <1>3, PathOfChild, PrefixOfParent

-----------------------------------------------------------------------------
LEMMA WriteFileKeeps ==
    ASSUME FtInv, NEW t \in FtThreads, WriteFile(t)
    PROVE  FtInv'
<1>0. FtTypes /\ RootedIn(ftTree)
  BY DEF FtInv
<1>1. ftThread[t] \in FtTasks /\ ftThread[t].step \notin {"fill", "chown"}
  BY <1>0, FtStates DEF WriteFile, FtAt, FtSteps
<1> DEFINE d == FtDst(t)
           o == IF FtHas(d) THEN ftTree[d].owner ELSE FtRoot
           r == FtThen(t, "chown")
<1>2. d \in FtPaths /\ r \in FtTasks /\ r.step = "chown" /\ r.dst = d /\ IsPrefix(d, d)
  BY <1>0, <1>1, ChownNext
<1>3. o \in FtOwners
  BY <1>0, FtStates, NodeIs DEF FtHas, FtOwners
<1> HIDE DEF o, r
<1>4. PICK c \in FtData : Acts(t, FtPut(d, FtFile(c, o)), r)
  BY DEF WriteFile, o, r
<1> HIDE DEF d
<1>5. FtFile(c, o) \in FtNodes
  BY <1>3, NewNodes
<1>6. \A p : ~WillRestore(ftThread[t], p)
  BY <1>1 DEF WillRestore
<1>7. FtIsDir(FtParent(d)) /\ ~FtIsDir(d)
  BY DEF WriteFile, d
<1>8. NotThereYet(r, FtPut(d, FtFile(c, o)))
  BY <1>2 DEF NotThereYet
<1> QED
  BY <1>2, <1>4, <1>5, <1>6, <1>7, <1>8, PutKeeps

LEMMA MakeDirectoryKeeps ==
    ASSUME FtInv, NEW t \in FtThreads, MakeDirectory(t)
    PROVE  FtInv'
<1>0. FtTypes /\ RootedIn(ftTree)
  BY DEF FtInv
<1>1. ftThread[t] \in FtTasks /\ ftThread[t].step \notin {"fill", "chown"}
  BY <1>0, FtStates DEF MakeDirectory, FtAt, FtSteps
<1> DEFINE d == FtDst(t)
           r == FtThen(t, "chown")
<1>2. d \in FtPaths /\ r \in FtTasks /\ r.step = "chown" /\ r.dst = d /\ IsPrefix(d, d)
  BY <1>0, <1>1, ChownNext
<1> HIDE DEF r
<1>4. Acts(t, FtPut(d, FtDir(FtRoot)), r)
  BY DEF MakeDirectory, r
<1> HIDE DEF d
<1>5. FtDir(FtRoot) \in FtNodes
  BY NewNodes DEF FtOwners
<1>6. \A p : ~WillRestore(ftThread[t], p)
  BY <1>1 DEF WillRestore
<1>7. FtIsDir(FtParent(d)) /\ ~FtIsDir(d)
  <2>1. d # <<>>
    BY <1>2, PathOfChild
  <2> QED
    BY <2>1 DEF MakeDirectory, FtIsDir, d
<1>8. NotThereYet(r, FtPut(d, FtDir(FtRoot)))
  BY <1>2 DEF NotThereYet
<1> QED
  BY <1>2, <1>4, <1>5, <1>6, <1>7, <1>8, PutKeeps

LEMMA TouchFileKeeps ==
    ASSUME FtInv, NEW t \in FtThreads, TouchFile(t)
    PROVE  FtInv'
<1>0. FtTypes /\ RootedIn(ftTree)
  BY DEF FtInv
<1>1. ftThread[t] \in FtTasks /\ ftThread[t].step \notin {"fill", "chown"}
  BY <1>0, FtStates DEF TouchFile, FtAt, FtSteps
<1> DEFINE d == FtDst(t)
           r == FtThen(t, "chown")
<1>2. d \in FtPaths /\ r \in FtTasks /\ r.step = "chown" /\ r.dst = d /\ IsPrefix(d, d)
  BY <1>0, <1>1, ChownNext
<1> HIDE DEF r
<1>4. PICK c \in FtData : Acts(t, IF FtHas(d) THEN ftTree ELSE FtPut(d, FtFile(c, FtRoot)), r)
  BY DEF TouchFile, r
<1>6. \A p : ~WillRestore(ftThread[t], p)
  BY <1>1 DEF WillRestore
<1>7. FtIsDir(FtParent(d))
  BY DEF TouchFile
<1> HIDE DEF d
<1>8. \A tree : NotThereYet(r, tree)
  BY <1>2 DEF NotThereYet
<1>9. CASE FtHas(d)
  <2>1. Acts(t, ftTree, r)
    BY <1>4, <1>9
  <2>2. DOMAIN ftTree \subseteq FtPaths /\ ftTree \in [DOMAIN ftTree -> FtNodes]
    BY <1>0 DEF FtTypes
  <2> QED
    BY <1>0, <1>2, <1>6, <1>8, <2>1, <2>2, ActsKeeps
<1>10. CASE ~FtHas(d)
  <2>1. Acts(t, FtPut(d, FtFile(c, FtRoot)), r)
    BY <1>4, <1>10
  <2>2. FtFile(c, FtRoot) \in FtNodes
    BY NewNodes DEF FtOwners
  <2>3. ~FtIsDir(d)
    BY <1>2, <1>10, PathOfChild DEF FtIsDir
  <2> QED
    BY <1>2, <1>6, <1>7, <1>8, <2>1, <2>2, <2>3, PutKeeps
<1> QED
  BY <1>9, <1>10

LEMMA RenameItemKeeps ==
    ASSUME FtInv, NEW t \in FtThreads, RenameItem(t)
    PROVE  FtInv'
<1>0. FtTypes
  BY DEF FtInv
<1>1. ftThread[t] \in FtTasks /\ ftThread[t].step \notin {"fill", "chown"}
  BY <1>0, FtStates DEF RenameItem, FtAt, FtSteps
<1>2. FtSrc(t) \in FtPaths /\ FtDst(t) \in FtPaths
  BY <1>0, <1>1, TaskIs
<1>3. Renames(FtSrc(t), FtDst(t)) /\ Acts(t, FtRenamed(FtSrc(t), FtDst(t)), FtIdle)
  BY DEF RenameItem
<1> QED
  BY <1>1, <1>2, <1>3, FileRenameKeeps

\* Where shutil.move puts the item is a path of the tree.
LEMMA MoveItemTo ==
    ASSUME FtTypes, NEW t \in FtThreads, MoveItem(t)
    PROVE  /\ ftThread[t] \in FtTasks /\ ftThread[t].step = "move"
           /\ \E d \in FtPaths : /\ d = FtDst(t) \/ FtHas(FtDst(t))
                                 /\ FtIsDir(FtDst(t)) => ~FtHas(d)
                                 /\ Renames(FtSrc(t), d)
                                 /\ Acts(t, FtRenamed(FtSrc(t), d), FtThen(t, "chown"))
<1>1. ftThread[t] \in FtTasks /\ ftThread[t].step = "move"
  BY FtStates DEF MoveItem, FtAt, FtSteps
<1>2. FtSrc(t) \in FtPaths /\ FtDst(t) \in FtPaths
  BY <1>1, TaskIs
<1>3. CASE ~FtIsDir(FtDst(t))
  BY <1>1, <1>2, <1>3 DEF MoveItem
<1>4. CASE FtIsDir(FtDst(t))
  <2> DEFINE d == Append(FtDst(t), Last(FtSrc(t)))
  <2>1. ~FtHas(d) /\ Renames(FtSrc(t), d) /\ Acts(t, FtRenamed(FtSrc(t), d), FtThen(t, "chown"))
    BY <1>4 DEF MoveItem
  <2>2. /\ FtSrc(t) \in Seq(FtNames) /\ FtSrc(t) # <<>> /\ FtDst(t) \in Seq(FtNames) /\ FtDst(t) # <<>>
        /\ Last(FtSrc(t)) \in FtNames
    BY <1>2, PathOfChild, ParentIs
  <2>3. d \in Seq(FtNames) /\ Len(d) = Len(FtDst(t)) + 1 /\ Len(FtDst(t)) \in Nat
    BY <2>2, ChildIs
  <2> HIDE DEF d
  <2>4. Moved(FtSrc(t), FtSrc(t), d) = d
    BY <2>2, <2>3, MovedItself
  <2>5. FtSrc(t) \in Under(FtSrc(t))
    BY <2>1, <2>2, PrefixOfParent DEF Under, Renames, FtHas
  <2>6. Len(d) <= FtDepth
    BY <2>1, <2>4, <2>5 DEF Renames
  <2>7. Len(d) \in 1..FtDepth
    BY <2>3, <2>6, FileTreeAssumption
  <2>8. d \in FtPaths
    BY <2>3, <2>7, PathIs
  <2>9. FtHas(FtDst(t))
    BY <1>4, <2>2 DEF FtIsDir
  <2> QED
    BY <1>1, <2>1, <2>8, <2>9
<1> QED
  BY <1>3, <1>4

LEMMA MoveItemKeeps ==
    ASSUME FtInv, NEW t \in FtThreads, MoveItem(t)
    PROVE  FtInv'
<1>0. FtTypes
  BY DEF FtInv
<1>1. ftThread[t] \in FtTasks /\ ftThread[t].step = "move"
  BY <1>0, MoveItemTo
<1>2. PICK d \in FtPaths : Renames(FtSrc(t), d) /\ Acts(t, FtRenamed(FtSrc(t), d), FtThen(t, "chown"))
  BY <1>0, MoveItemTo
<1>3. FtThen(t, "chown") \in FtTasks /\ FtThen(t, "chown").step = "chown" /\ FtSrc(t) \in FtPaths
  BY <1>0, <1>1, ChownNext, TaskIs
<1> QED
  BY <1>1, <1>2, <1>3, FileRenameKeeps

\* Where copy2 puts the file is a path of the tree.
LEMMA CopyTargetIs ==
    ASSUME FtTypes, NEW t \in FtThreads, ftThread[t] \in FtTasks, Len(CopyTarget(t)) <= FtDepth
    PROVE  /\ CopyTarget(t) \in FtPaths
           /\ CopyTarget(t) = FtDst(t) \/ FtHas(FtDst(t))
           /\ IsPrefix(FtDst(t), CopyTarget(t))
<1>1. FtSrc(t) \in FtPaths /\ FtDst(t) \in FtPaths
  BY TaskIs
<1>2. CASE ~FtIsDir(FtDst(t))
  BY <1>1, <1>2, PathOfChild, PrefixOfParent DEF CopyTarget
<1>3. CASE FtIsDir(FtDst(t))
  <2>1. /\ FtDst(t) \in Seq(FtNames) /\ FtDst(t) # <<>> /\ FtSrc(t) \in Seq(FtNames) /\ FtSrc(t) # <<>>
        /\ Last(FtSrc(t)) \in FtNames
    BY <1>1, PathOfChild, ParentIs
  <2> DEFINE d == CopyTarget(t)
  <2>2. d = Append(FtDst(t), Last(FtSrc(t))) /\ Len(d) <= FtDepth
    BY <1>3 DEF CopyTarget
  <2> HIDE DEF d
  <2>3. d \in Seq(FtNames) /\ Len(d) = Len(FtDst(t)) + 1 /\ Len(FtDst(t)) \in Nat
    BY <2>1, <2>2, ChildIs
  <2>4. Len(d) \in 1..FtDepth
    BY <2>2, <2>3, FileTreeAssumption
  <2>5. d \in FtPaths
    BY <2>3, <2>4, PathIs
  <2>6. FtParent(d) = FtDst(t) /\ d # <<>>
    BY <2>1, <2>2, ChildIs
  <2>7. IsPrefix(FtDst(t), d)
    BY <2>3, <2>6, PrefixOfParent
  <2> QED
    BY <1>3, <2>1, <2>5, <2>7 DEF FtIsDir, d
<1> QED
  BY <1>2, <1>3

LEMMA CopyFileTo ==
    ASSUME FtTypes, NEW t \in FtThreads, CopyFile(t)
    PROVE  /\ ftThread[t] \in FtTasks /\ ftThread[t].step = "copy" /\ FtIsFile(FtSrc(t))
           /\ \E d \in FtPaths :
                 /\ FtIsDir(FtParent(d)) /\ ~FtIsDir(d)
                 /\ d = FtDst(t) \/ FtHas(FtDst(t))
                 /\ IsPrefix(FtDst(t), d)
                 /\ \E r \in FtTasks :
                       /\ r.step = "chown" /\ r.dst = FtDst(t)
                       /\ Acts(t, FtPut(d, FtFile(ftTree[FtSrc(t)].data, IF FtHas(d) THEN ftTree[d].owner ELSE FtRoot)), r)
<1>1. ftThread[t] \in FtTasks /\ ftThread[t].step = "copy" /\ FtIsFile(FtSrc(t))
  BY FtStates DEF CopyFile, FtAt, FtSteps
<1> DEFINE d == CopyTarget(t)
<1>2. /\ FtIsDir(FtParent(d)) /\ ~FtIsDir(d) /\ Len(d) <= FtDepth
      /\ Acts(t, FtPut(d, FtFile(ftTree[FtSrc(t)].data, IF FtHas(d) THEN ftTree[d].owner ELSE FtRoot)), FtThen(t, "chown"))
  BY DEF CopyFile
<1>3. d \in FtPaths /\ (d = FtDst(t) \/ FtHas(FtDst(t))) /\ IsPrefix(FtDst(t), d)
  BY <1>1, <1>2, CopyTargetIs
<1>4. FtThen(t, "chown") \in FtTasks /\ FtThen(t, "chown").step = "chown" /\ FtThen(t, "chown").dst = FtDst(t)
  BY <1>1, ChownNext
<1> HIDE DEF d
<1> QED
  BY <1>1, <1>2, <1>3, <1>4

LEMMA CopyFileKeeps ==
    ASSUME FtInv, NEW t \in FtThreads, CopyFile(t)
    PROVE  FtInv'
<1>0. FtTypes
  BY DEF FtInv
<1>1. ftThread[t] \in FtTasks /\ ftThread[t].step = "copy" /\ FtIsFile(FtSrc(t))
  BY <1>0, CopyFileTo
<1> DEFINE n(d) == FtFile(ftTree[FtSrc(t)].data, IF FtHas(d) THEN ftTree[d].owner ELSE FtRoot)
<1>2. PICK d \in FtPaths, r \in FtTasks :
          /\ FtIsDir(FtParent(d)) /\ ~FtIsDir(d)
          /\ r.step = "chown" /\ IsPrefix(r.dst, d) /\ Acts(t, FtPut(d, n(d)), r)
  BY <1>0, CopyFileTo
<1>3. n(d) \in FtNodes
  <2>1. ftTree[FtSrc(t)].data \in FtData \cup {FtHtml, FtText}
    BY <1>0, <1>1, FtStates, NodeIs
  <2>2. (IF FtHas(d) THEN ftTree[d].owner ELSE FtRoot) \in FtOwners
    BY <1>0, FtStates, NodeIs DEF FtHas, FtOwners
  <2> QED
    BY <2>1, <2>2, NewNodes
<1> HIDE DEF n
<1>4. \A p : ~WillRestore(ftThread[t], p)
  BY <1>1 DEF WillRestore
<1>5. NotThereYet(r, FtPut(d, n(d)))
  BY <1>2 DEF NotThereYet
<1> QED
  BY <1>2, <1>3, <1>4, <1>5, PutKeeps

LEMMA MakeFolderKeeps ==
    ASSUME FtInv, NEW t \in FtThreads, MakeFolder(t)
    PROVE  FtInv'
<1>0. FtTypes /\ RootedIn(ftTree)
  BY DEF FtInv
<1>1. ftThread[t] \in FtTasks /\ ftThread[t].step \notin {"fill", "chown"}
  BY <1>0, FtStates DEF MakeFolder, FtAt, FtSteps
<1> DEFINE d == FtDst(t)
           left == IF FtAt(t, "copy") THEN FtChildren(FtSrc(t)) ELSE {Append(FtSrc(t), n) : n \in FtNames}
           r == [FtThen(t, "fill") EXCEPT !.left = left]
           tree == FtPut(d, FtDir(FtRoot))
<1>2. /\ FtIsDir(FtParent(d)) /\ ~FtHas(d) /\ Len(d) < FtDepth
      /\ Acts(t, tree, r)
  BY DEF MakeFolder
<1>3. d \in FtPaths /\ d = ftThread[t].dst /\ FtSrc(t) \in FtPaths /\ FtSrc(t) = ftThread[t].src
  BY <1>0, <1>1, TaskIs
<1>4. d \in Seq(FtNames) /\ d # <<>> /\ IsPrefix(d, d) /\ FtSrc(t) \in Seq(FtNames)
  BY <1>3, PathOfChild, PrefixOfParent
<1>5. ASSUME NEW q \in left PROVE q \in Seq(FtNames) /\ q # <<>> /\ FtParent(q) = FtSrc(t)
  <2>1. CASE FtAt(t, "copy")
    BY <1>0, <1>5, <2>1, FtStates DEF FtChildren
  <2>2. CASE ~FtAt(t, "copy")
    <3>1. PICK n \in FtNames : q = Append(FtSrc(t), n)
      BY <1>5, <2>2
    <3> QED
      BY <1>4, <3>1, ChildIs
  <2> QED
    BY <2>1, <2>2
<1> HIDE DEF left
<1>6. left \in SUBSET (Seq(FtNames) \ {<<>>})
  BY <1>5
<1>7. r \in FtTasks /\ r.step = "fill" /\ r.left = left /\ r.dst = d /\ r.src = FtSrc(t)
  <2>1. /\ FtThen(t, "fill") \in FtTasks /\ FtThen(t, "fill").step = "fill"
        /\ FtThen(t, "fill").dst = ftThread[t].dst /\ FtThen(t, "fill").src = ftThread[t].src
    <3>1. "fill" \in FtSteps
      BY DEF FtSteps
    <3> QED
      BY <1>0, <1>1, <3>1, ThenIs
  <2> QED
    BY <1>3, <1>6, <2>1, ToBeDone
<1>8. ~FtIsDir(d) /\ FtDir(FtRoot) \in FtNodes
  BY <1>2, <1>4, NewNodes DEF FtIsDir, FtOwners
<1>9. DOMAIN tree = DOMAIN ftTree \cup {d}
  BY <1>0, <1>2, <1>3, <1>8, PutIs
<1>10. ASSUME NEW q \in left PROVE Append(d, Last(q)) \notin DOMAIN tree
  <2>1. Last(q) \in FtNames
    BY <1>5, ParentIs
  <2>2. Append(d, Last(q)) \in Seq(FtNames) /\ FtParent(Append(d, Last(q))) = d /\ Append(d, Last(q)) # <<>>
    BY <1>4, <2>1, ChildIs
  <2>3. IsPrefix(d, Append(d, Last(q))) /\ Append(d, Last(q)) # d
    BY <1>4, <2>2, PrefixOfParent
  <2>4. Append(d, Last(q)) \notin DOMAIN ftTree
    BY <1>0, <1>3, <1>8, <2>3, NothingUnder
  <2> QED
    BY <1>9, <2>3, <2>4
<1> HIDE DEF d, r, tree
<1>11. NotThereYet(r, tree)
  BY <1>2, <1>5, <1>7, <1>10 DEF NotThereYet
<1>12. \A p : ~WillRestore(ftThread[t], p)
  BY <1>1 DEF WillRestore
<1> QED
  BY <1>2, <1>3, <1>4, <1>7, <1>8, <1>11, <1>12, PutKeeps DEF tree

\* What an entry of the folder is put at, and that no other entry is put there.
LEMMA FillTo ==
    ASSUME FtInv, NEW t \in FtThreads, FtAt(t, "fill"), NEW q \in ftThread[t].left
    PROVE  /\ ftThread[t] \in FtTasks /\ ftThread[t].step = "fill"
           /\ Append(FtDst(t), Last(q)) \in FtPaths
           /\ FtParent(Append(FtDst(t), Last(q))) = FtDst(t)
           /\ IsPrefix(FtDst(t), Append(FtDst(t), Last(q)))
           /\ ~ftThread[t].stale => ~FtHas(Append(FtDst(t), Last(q)))
           /\ \A x \in ftThread[t].left :
                 /\ FtParent(x) = ftThread[t].src
                 /\ Append(FtDst(t), Last(x)) = Append(FtDst(t), Last(q)) => x = q
<1>0. FtTypes /\ FtLooked
  BY DEF FtInv
<1>1. ftThread[t] \in FtTasks /\ ftThread[t].step = "fill"
  BY <1>0, FtStates DEF FtAt, FtSteps
<1>2. /\ FtDst(t) \in FtPaths /\ FtDst(t) = ftThread[t].dst /\ ftThread[t] # FtIdle
      /\ ftThread[t].left \subseteq Seq(FtNames) \ {<<>>}
  BY <1>0, <1>1, TaskIs
<1>3. /\ Len(FtDst(t)) < FtDepth
      /\ \A x \in ftThread[t].left :
            FtParent(x) = ftThread[t].src /\ (~ftThread[t].stale => Append(FtDst(t), Last(x)) \notin DOMAIN ftTree)
  BY <1>0, <1>1, <1>2 DEF FtLooked, NotThereYet
<1>4. FtDst(t) \in Seq(FtNames) /\ Len(FtDst(t)) \in Nat
  BY <1>2, PathOfChild
<1>5. ASSUME NEW x \in ftThread[t].left
      PROVE  LET d == Append(FtDst(t), Last(x)) IN
             /\ x \in Seq(FtNames) /\ x # <<>>
             /\ d \in Seq(FtNames) /\ Len(d) = Len(FtDst(t)) + 1 /\ FtParent(d) = FtDst(t) /\ Last(d) = Last(x)
             /\ d # <<>>
  <2>1. x \in Seq(FtNames) /\ x # <<>>
    BY <1>2
  <2>2. Last(x) \in FtNames
    BY <2>1, ParentIs
  <2> QED
    BY <1>4, <2>1, <2>2, ChildIs
<1> DEFINE d == Append(FtDst(t), Last(q))
<1>6. d \in Seq(FtNames) /\ Len(d) = Len(FtDst(t)) + 1 /\ FtParent(d) = FtDst(t) /\ Last(d) = Last(q) /\ d # <<>>
  BY <1>5
<1> HIDE DEF d
<1>7. Len(d) \in 1..FtDepth
  BY <1>3, <1>4, <1>6, FileTreeAssumption
<1>8. d \in FtPaths /\ IsPrefix(FtDst(t), d)
  BY <1>4, <1>6, <1>7, PathIs, PrefixOfParent
<1>9. ASSUME NEW x \in ftThread[t].left, Append(FtDst(t), Last(x)) = d PROVE x = q
  <2>1. Last(x) = Last(q) /\ FtParent(x) = FtParent(q)
    BY <1>3, <1>5, <1>6, <1>9
  <2>2. x \in Seq(FtNames) /\ x # <<>> /\ q \in Seq(FtNames) /\ q # <<>>
    BY <1>5
  <2> QED
    BY <2>1, <2>2, SameChild
<1> QED
  BY <1>1, <1>3, <1>6, <1>8, <1>9 DEF d, FtHas

LEMMA FillFolderKeeps ==
    ASSUME FtInv, NEW t \in FtThreads, FillFolder(t)
    PROVE  FtInv'
<1>0. FtTypes /\ RootedIn(ftTree) /\ FtLooked
  BY DEF FtInv
<1>1. FtAt(t, "fill")
  BY DEF FillFolder
<1>2. PICK q \in ftThread[t].left :
          LET d == Append(FtDst(t), Last(q)) IN
          /\ FtIsDir(FtDst(t)) /\ ~FtIsDir(d)
          /\ FtIsFile(q) \/ FtIsFile(FtSrc(t))
          /\ Acts(t, FtPut(d, FtFile(ftTree[IF FtIsFile(q) THEN q ELSE FtSrc(t)].data, FtRoot)),
                  [ftThread[t] EXCEPT !.left = @ \ {q}])
  BY DEF FillFolder
<1> DEFINE d == Append(FtDst(t), Last(q))
           n == FtFile(ftTree[IF FtIsFile(q) THEN q ELSE FtSrc(t)].data, FtRoot)
           left == ftThread[t].left \ {q}
           r == [ftThread[t] EXCEPT !.left = left]
           tree == FtPut(d, n)
<1>3. FtIsDir(FtDst(t)) /\ ~FtIsDir(d) /\ Acts(t, tree, r) /\ (FtIsFile(q) \/ FtIsFile(FtSrc(t)))
  BY <1>2
<1>4. /\ ftThread[t] \in FtTasks /\ ftThread[t].step = "fill"
      /\ d \in FtPaths /\ FtParent(d) = FtDst(t) /\ IsPrefix(FtDst(t), d)
      /\ \A x \in ftThread[t].left :
            FtParent(x) = ftThread[t].src /\ (Append(FtDst(t), Last(x)) = d => x = q)
  BY <1>1, FillTo
<1>5. n \in FtNodes
  <2>1. ftTree[IF FtIsFile(q) THEN q ELSE FtSrc(t)].data \in FtData \cup {FtHtml, FtText}
    BY <1>0, <1>3, FtStates, NodeIs
  <2> QED
    BY <2>1, NewNodes DEF FtOwners
<1>6. /\ left \in SUBSET (Seq(FtNames) \ {<<>>}) /\ FtDst(t) = ftThread[t].dst /\ FtDst(t) \in FtPaths
      /\ ftThread[t] # FtIdle
  BY <1>0, <1>4, TaskIs
<1> HIDE DEF d, n, left
<1>7. /\ r \in FtTasks /\ r.step = "fill" /\ r.left = left /\ r.dst = FtDst(t)
      /\ r.src = ftThread[t].src /\ r.stale = ftThread[t].stale
  BY <1>4, <1>6, ToBeDone
<1>8. DOMAIN tree = DOMAIN ftTree \cup {d}
  BY <1>0, <1>3, <1>4, <1>5, PutIs
<1> HIDE DEF r, tree
<1>9. /\ Len(FtDst(t)) < FtDepth
      /\ \A x \in ftThread[t].left :
            ~ftThread[t].stale => Append(FtDst(t), Last(x)) \notin DOMAIN ftTree
  BY <1>0, <1>4, <1>6 DEF FtLooked, NotThereYet
<1>10. NotThereYet(r, tree)
  <2>1. \A x \in left : x \in ftThread[t].left /\ x # q
    BY DEF left
  <2> QED
    BY <1>4, <1>7, <1>8, <1>9, <2>1 DEF NotThereYet
<1>11. \A p : WillRestore(ftThread[t], p) => WillRestore(r, p)
  BY <1>4, <1>6, <1>7, FtIdleIs DEF WillRestore
<1>12. FtIsDir(FtParent(d)) /\ ~FtIsDir(d) /\ Acts(t, FtPut(d, n), r) /\ NotThereYet(r, FtPut(d, n))
  BY <1>3, <1>4, <1>10 DEF tree
<1> QED
  BY <1>4, <1>5, <1>7, <1>11, <1>12, PutKeeps

\* A step that leaves the tree as it is.
LEMMA TurnKeeps ==
    ASSUME FtInv, NEW t \in FtThreads, NEW r \in FtTasks \cup {FtIdle},
           ftThread' = [ftThread EXCEPT ![t] = r], ftTree' = ftTree, ftBroken \subseteq ftBroken',
           r # FtIdle => NotThereYet(r, ftTree),
           ftBroken' = {} => \A p : WillRestore(ftThread[t], p) => WillRestore(r, p)
    PROVE  FtInv'
<1>1. FtTypes /\ RootedIn(ftTree) /\ FtLooked /\ OwedToTheSite
  BY DEF FtInv
<1>2. FtTypes'
  BY <1>1 DEF FtTypes
<1>3. \A s \in FtThreads : ftThread'[s] = IF s = t THEN r ELSE ftThread[s]
  BY <1>1 DEF FtTypes
<1>4. FtLooked'
  BY <1>1, <1>3 DEF FtLooked
<1>5. ASSUME ftBroken' = {}, NEW p \in DOMAIN ftTree, ftTree[p].owner # FtSite
      PROVE  \E s \in FtThreads : WillRestore(ftThread'[s], p)
  <2>1. PICK s \in FtThreads : WillRestore(ftThread[s], p)
    BY <1>1, <1>5 DEF OwedToTheSite
  <2> QED
    BY <1>3, <1>5, <2>1
<1>6. OwedToTheSite'
  BY <1>5 DEF OwedToTheSite
<1> QED
  BY <1>1, <1>2, <1>4, <1>6 DEF FtInv

LEMMA FolderFilledKeeps ==
    ASSUME FtInv, NEW t \in FtThreads, FolderFilled(t)
    PROVE  FtInv'
<1>0. FtTypes
  BY DEF FtInv
<1>1. ftThread[t] \in FtTasks /\ ftThread[t].step = "fill"
  BY <1>0, FtStates DEF FolderFilled, FtAt, FtSteps
<1> DEFINE r == FtThen(t, "chown")
<1>2. r \in FtTasks /\ r.step = "chown" /\ r.dst = ftThread[t].dst /\ r.stale = ftThread[t].stale
  BY <1>0, <1>1, ThenIs DEF FtSteps
<1>3. ftThread' = [ftThread EXCEPT ![t] = r] /\ ftTree' = ftTree /\ ftBroken' = ftBroken
  BY DEF FolderFilled
<1> HIDE DEF r
<1>4. NotThereYet(r, ftTree) /\ \A p : WillRestore(ftThread[t], p) => WillRestore(r, p)
  BY <1>1, <1>2, FtIdleIs DEF NotThereYet, WillRestore
<1> QED
  BY <1>2, <1>3, <1>4, TurnKeeps

LEMMA OpenFolderKeeps ==
    ASSUME FtInv, NEW t \in FtThreads, OpenFolder(t)
    PROVE  FtInv'
<1>0. FtTypes
  BY DEF FtInv
<1>1. ftThread[t] \in FtTasks /\ ftThread[t].step = "delete"
  BY <1>0, FtStates DEF OpenFolder, FtAt, FtSteps
<1> DEFINE left == FtChildren(FtSrc(t))
           r == [FtThen(t, "rm") EXCEPT !.left = left]
<1>2. left \in SUBSET (Seq(FtNames) \ {<<>>})
  BY <1>0, FtStates DEF FtChildren
<1>3. FtThen(t, "rm") \in FtTasks /\ FtThen(t, "rm").step = "rm"
  BY <1>0, <1>1, ThenIs DEF FtSteps
<1>4. r \in FtTasks /\ r.step = "rm"
  <2> HIDE DEF left
  <2> QED
    BY <1>2, <1>3, ToBeDone
<1>5. ftThread' = [ftThread EXCEPT ![t] = r] /\ ftTree' = ftTree /\ ftBroken' = ftBroken
  BY DEF OpenFolder
<1> HIDE DEF r
<1>6. NotThereYet(r, ftTree) /\ \A p : ~WillRestore(ftThread[t], p)
  BY <1>1, <1>4 DEF NotThereYet, WillRestore
<1> QED
  BY <1>4, <1>5, <1>6, TurnKeeps

LEMMA FtRaisesKeeps ==
    ASSUME FtInv, NEW t \in FtThreads, FtRaises(t)
    PROVE  FtInv'
<1>1. /\ ftThread[t].step # "chown" /\ ftThread' = [ftThread EXCEPT ![t] = FtIdle] /\ ftTree' = ftTree
      /\ ftBroken' = IF ftThread[t].step = "fill" THEN ftBroken \cup {FtDst(t)} ELSE ftBroken
  BY DEF FtRaises, FtAt
<1>2. ftBroken' = {} => \A p : ~WillRestore(ftThread[t], p)
  BY <1>1 DEF WillRestore
<1>3. ftBroken \subseteq ftBroken'
  BY <1>1
<1> QED
  BY <1>1, <1>2, <1>3, TurnKeeps

LEMMA FileUnlinkKeeps ==
    ASSUME FtInv, NEW t \in FtThreads, Unlink(t)
    PROVE  FtInv'
<1>0. FtTypes /\ RootedIn(ftTree)
  BY DEF FtInv
<1>1. ftThread[t] \in FtTasks /\ ftThread[t].step = "delete"
  BY <1>0, FtStates DEF Unlink, FtAt, FtSteps
<1>2. FtIsFile(FtSrc(t)) /\ Acts(t, FtCut({FtSrc(t)}), FtIdle)
  BY DEF Unlink
<1>3. FtSrc(t) # <<>> /\ FtSrc(t) \in DOMAIN ftTree /\ ftTree[FtSrc(t)].kind = "file"
  BY <1>0, <1>2, FtStates
<1>4. FtChildren(FtSrc(t)) = {}
  BY <1>0, <1>3 DEF FtChildren, RootedIn
<1> QED
  BY <1>1, <1>2, <1>4, CutKeeps

LEMMA FileUnlinkChildKeeps ==
    ASSUME FtInv, NEW t \in FtThreads, UnlinkChild(t)
    PROVE  FtInv'
<1>0. FtTypes
  BY DEF FtInv
<1>1. ftThread[t] \in FtTasks /\ ftThread[t].step = "rm"
  BY <1>0, FtStates DEF UnlinkChild, FtAt, FtSteps
<1>2. PICK q \in ftThread[t].left :
          FtChildren(q) = {} /\ Acts(t, FtCut({q}), [ftThread[t] EXCEPT !.left = ftThread[t].left \ {q}])
  BY DEF UnlinkChild
<1> DEFINE left == ftThread[t].left \ {q}
           r == [ftThread[t] EXCEPT !.left = left]
<1>3. left \in SUBSET (Seq(FtNames) \ {<<>>})
  BY <1>0, <1>1, TaskIs
<1>4. Acts(t, FtCut({q}), r)
  BY <1>2
<1> HIDE DEF left
<1>5. r \in FtTasks /\ r.step = "rm"
  BY <1>1, <1>3, ToBeDone
<1> HIDE DEF r
<1>6. NotThereYet(r, FtCut({q}))
  BY <1>5 DEF NotThereYet
<1> QED
  BY <1>1, <1>2, <1>4, <1>5, <1>6, CutKeeps

LEMMA RemoveFolderKeeps ==
    ASSUME FtInv, NEW t \in FtThreads, RemoveFolder(t)
    PROVE  FtInv'
<1>1. /\ ftThread[t].step = "rm" /\ FtChildren(FtSrc(t)) = {} /\ Acts(t, FtCut({FtSrc(t)}), FtIdle)
  BY DEF RemoveFolder, FtAt
<1> QED
  BY <1>1, CutKeeps

LEMMA WriteIsCutKeeps ==
    ASSUME FtInv, NEW t \in FtThreads, WriteIsCut(t)
    PROVE  FtInv'
<1>0. FtTypes /\ RootedIn(ftTree)
  BY DEF FtInv
<1>1. ftThread[t] \in FtTasks
  BY <1>0 DEF WriteIsCut, FtTypes
<1>2. PICK d \in {FtDst(t), CopyTarget(t)}, c \in FtData :
        /\ d = FtDst(t) \/ d = CopyTarget(t)
        /\ FtIsDir(FtParent(d)) /\ ~FtIsDir(d) /\ Len(d) <= FtDepth
        /\ ftTree' = FtPut(d, FtFile(c, IF FtHas(d) THEN ftTree[d].owner ELSE FtRoot))
        /\ FtStale(t, FtIdle)
        /\ ftBroken' = ftBroken \cup {d}
  BY DEF WriteIsCut
<1> DEFINE o == IF FtHas(d) THEN ftTree[d].owner ELSE FtRoot
<1>3. d \in FtPaths
  BY <1>0, <1>1, <1>2, CopyTargetIs, TaskIs
<1>4. o \in FtOwners
  BY <1>0, FtStates, NodeIs DEF FtHas, FtOwners
<1> HIDE DEF o
<1>5. FtFile(c, o) \in FtNodes
  BY <1>4, NewNodes
<1> DEFINE n == FtFile(c, o)
           tree == FtPut(d, n)
<1>6. ftTree' = tree
  BY <1>2 DEF o
<1> HIDE DEF n
<1>7. DOMAIN tree \subseteq FtPaths /\ tree \in [DOMAIN tree -> FtNodes] /\ RootedIn(tree)
  <2>1. n \in FtNodes /\ FtIsDir(FtParent(d)) /\ ~FtIsDir(d)
    BY <1>2, <1>5 DEF n
  <2> QED
    BY <1>0, <1>3, <2>1, PutIs
<1> HIDE DEF tree
<1>8. /\ DOMAIN ftTree' \subseteq FtPaths /\ ftTree' \in [DOMAIN ftTree' -> FtNodes]
      /\ RootedIn(ftTree)'
  BY <1>6, <1>7 DEF RootedIn
<1>9. ftBroken' # {}
  BY <1>2
<1> QED
  BY <1>2, <1>8, <1>9, EndedHalfWayKeeps

\* Another owner makes no other tree.
LEMMA GivenAwayIs ==
    ASSUME FtInv, NEW t \in FtThreads, FtAt(t, "chown"), NEW ps, GivesAway(t, ps)
    PROVE  /\ ftThread[t].owner \in FtOwners
           /\ DOMAIN ftTree' = DOMAIN ftTree /\ ftTree' \in [DOMAIN ftTree -> FtNodes]
           /\ \A p \in DOMAIN ftTree :
                 /\ ftTree'[p] \in FtNodes /\ ftTree'[p].kind = ftTree[p].kind
                 /\ ftTree[p].kind = "file" => ftTree'[p].data = ftTree[p].data
                 /\ ftTree'[p].owner = IF p \in ps THEN ftThread[t].owner ELSE ftTree[p].owner
           /\ RootedIn(ftTree)'
<1>0. FtTypes /\ RootedIn(ftTree)
  BY DEF FtInv
<1>1. ftThread[t] \in FtTasks
  BY <1>0, FtStates DEF FtAt, FtSteps
<1>2. ftThread[t].owner \in FtOwners
  BY <1>0, <1>1, TaskIs
<1> DEFINE o == ftThread[t].owner
<1>3. ftTree' = [p \in DOMAIN ftTree |-> IF p \in ps THEN [ftTree[p] EXCEPT !.owner = o] ELSE ftTree[p]]
  BY DEF GivesAway
<1>4. \A p \in DOMAIN ftTree : ftTree[p] \in FtNodes
  BY <1>0 DEF FtTypes
<1> HIDE DEF o
<1>5. ASSUME NEW p \in DOMAIN ftTree
      PROVE  /\ ftTree'[p] \in FtNodes /\ ftTree'[p].kind = ftTree[p].kind
             /\ ftTree[p].kind = "file" => ftTree'[p].data = ftTree[p].data
             /\ ftTree'[p].owner = IF p \in ps THEN o ELSE ftTree[p].owner
  BY <1>2, <1>3, <1>4, NodeIs DEF o
<1>6. DOMAIN ftTree' = DOMAIN ftTree /\ ftTree' \in [DOMAIN ftTree -> FtNodes]
  BY <1>3, <1>5
<1>7. RootedIn(ftTree)'
  BY <1>0, <1>5, <1>6 DEF RootedIn
<1> QED
  BY <1>2, <1>5, <1>6, <1>7 DEF o

LEMMA RestoreIsCutKeeps ==
    ASSUME FtInv, NEW t \in FtThreads, RestoreIsCut(t)
    PROVE  FtInv'
<1>1. PICK ps \in SUBSET Under(FtDst(t)) : GivesAway(t, ps)
  BY DEF RestoreIsCut
<1>2. FtAt(t, "chown") /\ ftBroken' # {}
  BY DEF RestoreIsCut
<1>3. FtStale(t, FtIdle) /\ DOMAIN ftTree \subseteq FtPaths
  BY <1>1 DEF GivesAway, FtInv, FtTypes
<1>4. DOMAIN ftTree' = DOMAIN ftTree /\ ftTree' \in [DOMAIN ftTree -> FtNodes] /\ RootedIn(ftTree)'
  BY <1>1, <1>2, GivenAwayIs
<1> QED
  BY <1>2, <1>3, <1>4, EndedHalfWayKeeps

\* What it does is for the site, unless another operation has been in between.
LEMMA RestoreOwnerKeeps ==
    ASSUME FtInv, NEW t \in FtThreads, RestoreOwner(t)
    PROVE  FtInv'
<1>0. FtTypes /\ RootedIn(ftTree) /\ FtLooked /\ OwedToTheSite
  BY DEF FtInv
<1>1. ftThread[t] \in FtTasks /\ ftThread[t].step = "chown"
  BY <1>0, FtStates DEF RestoreOwner, Restores, FtAt, FtSteps
<1>2. ftThread[t].owner \in FtOwners /\ FtDst(t) = ftThread[t].dst
  BY <1>0, <1>1, TaskIs
<1> DEFINE o == ftThread[t].owner
           ps == Under(FtDst(t))
<1>3. /\ GivesAway(t, ps) /\ FtAt(t, "chown")
      /\ FtStale(t, FtIdle)
      /\ ftBroken' = IF ftThread[t].stale \/ o = FtRoot THEN ftBroken \cup {FtDst(t)} ELSE ftBroken
  BY DEF RestoreOwner, Restores, GivesAway
<1> HIDE DEF o, ps
<1>5. /\ DOMAIN ftTree' = DOMAIN ftTree /\ ftTree' \in [DOMAIN ftTree -> FtNodes] /\ RootedIn(ftTree)'
      /\ \A p \in DOMAIN ftTree :
            /\ ftTree'[p] \in FtNodes /\ ftTree'[p].kind = ftTree[p].kind
            /\ ftTree'[p].owner = IF p \in ps THEN o ELSE ftTree[p].owner
  BY <1>3, GivenAwayIs DEF o
<1>6. DOMAIN ftTree' = DOMAIN ftTree
  BY <1>5
<1>7. /\ ftThread' \in [FtThreads -> FtTasks \cup {FtIdle}] /\ ftThread'[t] = FtIdle
      /\ \A s \in FtThreads \ {t} :
            /\ ftThread[s] = FtIdle => ftThread'[s] = FtIdle
            /\ ftThread[s] # FtIdle =>
                  /\ ftThread'[s] # FtIdle /\ ftThread'[s].stale /\ ftThread'[s].step = ftThread[s].step
                  /\ ftThread'[s].src = ftThread[s].src /\ ftThread'[s].dst = ftThread[s].dst
                  /\ ftThread'[s].left = ftThread[s].left
  BY <1>0, <1>3, StaleIs
<1>8. FtTypes'
  BY <1>0, <1>5, <1>7 DEF FtTypes
<1>10. FtLooked'
  <2>1. ASSUME NEW s \in FtThreads \ {t}, ftThread'[s] # FtIdle PROVE NotThereYet(ftThread'[s], ftTree')
    <3>1. NotThereYet(ftThread[s], ftTree)
      BY <1>0, <1>7, <2>1 DEF FtLooked
    <3> QED
      BY <1>7, <2>1, <3>1 DEF NotThereYet
  <2> QED
    BY <1>7, <2>1 DEF FtLooked
<1>11. ASSUME ftBroken' = {}, NEW p \in DOMAIN ftTree, ftTree'[p].owner # FtSite
       PROVE  \E s \in FtThreads : WillRestore(ftThread'[s], p)
  <2>1. ftBroken = {} /\ ~ftThread[t].stale /\ o = FtSite
    BY <1>2, <1>3, <1>11 DEF FtOwners, o
  <2>2. p \notin ps /\ ftTree[p].owner # FtSite
    BY <1>5, <1>11, <2>1
  <2>3. PICK s \in FtThreads : WillRestore(ftThread[s], p)
    BY <1>0, <2>1, <2>2 DEF OwedToTheSite
  <2>4. s # t
    BY <1>2, <2>1, <2>2, <2>3 DEF WillRestore, ps, Under
  <2> QED
    BY <1>7, <2>3, <2>4 DEF WillRestore
<1>12. OwedToTheSite'
  BY <1>6, <1>11 DEF OwedToTheSite
<1> QED
  BY <1>5, <1>8, <1>10, <1>12 DEF FtInv

LEMMA FtInitKeeps == FileTreeInit => FtInv
<1> SUFFICES ASSUME FileTreeInit PROVE FtInv
  OBVIOUS
<1> DEFINE paths == {<<FtFolder>>, <<FtFolder, FtItem>>, <<FtItem>>}
<1>1. /\ ftTree = [p \in paths |->
                   IF p = <<FtFolder>> THEN FtDir(FtSite)
                   ELSE FtFile(IF p = <<FtItem>> THEN FtHtml ELSE FtText, FtSite)]
      /\ ftThread = [t \in FtThreads |-> FtIdle]
  BY DEF FileTreeInit
<1>2. /\ FtFolder \in FtNames /\ FtItem \in FtNames
      /\ <<FtFolder>> \in Seq(FtNames) /\ <<FtFolder, FtItem>> \in Seq(FtNames) /\ <<FtItem>> \in Seq(FtNames)
      /\ Len(<<FtFolder>>) = 1 /\ Len(<<FtFolder, FtItem>>) = 2 /\ Len(<<FtItem>>) = 1
      /\ 1 \in 1..FtDepth /\ 2 \in 1..FtDepth /\ <<>> \in Seq(FtNames)
  BY FileTreeAssumption
<1>3. paths \subseteq FtPaths
  BY <1>2, PathIs
<1>4. \A p \in paths : ftTree[p] \in FtNodes /\ ftTree[p].owner = FtSite
  <2>1. FtSite \in FtOwners
    BY DEF FtOwners
  <2> QED
    BY <1>1, <2>1, NewNodes
<1>5. ftTree \in [paths -> FtNodes] /\ DOMAIN ftTree = paths
  BY <1>1, <1>4
<1>6. FtTypes
  BY <1>1, <1>3, <1>5 DEF FtTypes
<1>7. /\ FtParent(<<FtFolder>>) = <<>> /\ FtParent(<<FtItem>>) = <<>>
      /\ FtParent(<<FtFolder, FtItem>>) = <<FtFolder>>
  <2>1. /\ <<FtFolder>> = Append(<<>>, FtFolder) /\ <<FtItem>> = Append(<<>>, FtItem)
        /\ <<FtFolder, FtItem>> = Append(<<FtFolder>>, FtItem)
    BY <1>2
  <2> QED
    BY <1>2, <2>1, ChildIs
<1>8. ftTree[<<FtFolder>>].kind = "dir"
  BY <1>1, NewNodes DEF FtOwners
<1>9. RootedIn(ftTree)
  BY <1>5, <1>7, <1>8 DEF RootedIn
<1> QED
  BY <1>1, <1>4, <1>5, <1>6, <1>9 DEF FtInv, FtLooked, OwedToTheSite

THEOREM FtInvariance == FileTreeSpec => []FtInv
<1>1. ASSUME FtInv, [FileTreeNext]_ftVars PROVE FtInv'
  <2>1. CASE FileTreeNext
    <3>1. PICK t \in FtThreads :
             \/ AskWrite(t) \/ AskNew(t) \/ AskRename(t) \/ AskMoveOrCopy(t) \/ AskBeside(t) \/ AskUnlink(t)
             \/ WriteFile(t) \/ WriteIsCut(t) \/ MakeDirectory(t) \/ TouchFile(t) \/ RenameItem(t) \/ MoveItem(t) \/ CopyFile(t)
             \/ MakeFolder(t) \/ FillFolder(t) \/ FolderFilled(t) \/ RestoreOwner(t) \/ RestoreIsCut(t)
             \/ Unlink(t) \/ OpenFolder(t) \/ UnlinkChild(t) \/ RemoveFolder(t) \/ FtRaises(t)
      BY <2>1 DEF FileTreeNext
    <3> QED
      BY <1>1, <3>1, FtAsksKeep, WriteFileKeeps, MakeDirectoryKeeps, TouchFileKeeps, RenameItemKeeps,
         MoveItemKeeps, CopyFileKeeps, MakeFolderKeeps, FillFolderKeeps, FolderFilledKeeps, RestoreOwnerKeeps,
         WriteIsCutKeeps, RestoreIsCutKeeps, FileUnlinkKeeps, OpenFolderKeeps, FileUnlinkChildKeeps, RemoveFolderKeeps, FtRaisesKeeps
  <2>2. CASE UNCHANGED ftVars
    BY <1>1, <2>2 DEF ftVars, FtInv, FtTypes, RootedIn, FtLooked, NotThereYet, OwedToTheSite, WillRestore
  <2> QED
    BY <1>1, <2>1, <2>2
<1> QED
  BY <1>1, FtInitKeeps, PTL DEF FileTreeSpec

THEOREM FtTypeCorrect == FileTreeSpec => []FtTypeOK
<1>1. FtInv => FtTypeOK
  <2> SUFFICES ASSUME FtInv PROVE FtTypeOK
    OBVIOUS
  <2>1. FtTypes /\ RootedIn(ftTree)
    BY DEF FtInv
  <2>2. \A p \in DOMAIN ftTree : FtIsDir(FtParent(p))
    BY <2>1 DEF RootedIn, FtIsDir, FtHas
  <2>3. \A p \in DOMAIN ftTree : ftTree[p].owner \in {FtSite, FtRoot}
    BY <2>1, FtStates, NodeIs DEF FtOwners
  <2> QED
    BY <2>1, <2>2, <2>3 DEF FtTypeOK, FtTypes
<1> QED
  BY <1>1, FtInvariance, PTL

\* Theorem: whatever is created, copied, moved, unpacked or deleted, and by how
\* many requests at once, when nothing is under way everything in the tree
\* belongs to the site, unless an operation ended half-way, failed to give away
\* what it had made, or met another one (services/files.py 857-871 and its
\* callers).
THEOREM OwnedRight == FileTreeSpec => []OwnedByTheSite
<1>1. FtInv => OwnedByTheSite
  <2> SUFFICES ASSUME FtInv, \A t \in FtThreads : ftThread[t] = FtIdle, ftBroken = {},
                      NEW p \in DOMAIN ftTree
               PROVE  ftTree[p].owner = FtSite
    BY DEF OwnedByTheSite
  <2> QED
    BY DEF FtInv, OwedToTheSite, WillRestore
<1> QED
  BY <1>1, FtInvariance, PTL

-----------------------------------------------------------------------------
\* The thread may lose data: it is told to, or has looked at another tree.
FtMayLose(t) ==
    /\ ftThread[t] # FtIdle /\ ftThread'[t] # ftThread[t]
    /\ ftThread[t].step \in {"delete", "rm", "write"} \/ ftThread[t].stale

LEMMA KeptData ==
    ASSUME \A q \in DOMAIN ftTree : ftTree[q].kind = "file" =>
               \E x \in DOMAIN ftTree' : ftTree'[x].kind = "file" /\ ftTree'[x].data = ftTree[q].data
    PROVE  FtDataOf \subseteq FtDataOf'
BY DEF FtDataOf

LEMMA PutKeepsData ==
    ASSUME NEW d, NEW n, ~FtHas(d), ftTree' = FtPut(d, n)
    PROVE  FtDataOf \subseteq FtDataOf'
<1>1. \A q \in DOMAIN ftTree : q \in DOMAIN ftTree' /\ ftTree'[q] = ftTree[q]
  BY DEF FtPut, FtHas
<1> QED
  BY <1>1, KeptData

LEMMA RenameKeepsData ==
    ASSUME FtInv, NEW p \in FtPaths, NEW d \in FtPaths, Renames(p, d), ~FtHas(d), ftTree' = FtRenamed(p, d)
    PROVE  FtDataOf \subseteq FtDataOf'
<1>1. \A q \in DOMAIN ftTree : \E x \in DOMAIN ftTree' : ftTree'[x] = ftTree[q]
  BY RenamedIs DEF FtInv, FtHas
<1> QED
  BY <1>1, KeptData

\* What an operation that has looked has not found is not there.
LEMMA StillNotThere ==
    ASSUME FtInv, NEW t \in FtThreads, ftThread[t] \in FtTasks, ~ftThread[t].stale,
           ftThread[t].step \in {"mkdir", "touch", "zip", "rename", "move", "copy", "extract"}
    PROVE  ~FtHas(FtDst(t))
BY FtIdleIs DEF FtInv, FtLooked, NotThereYet, FtHas, FtDst

LEMMA SameTreeLoses ==
    ASSUME NEW t \in FtThreads,
           \/ AskWrite(t) \/ AskNew(t) \/ AskRename(t) \/ AskMoveOrCopy(t) \/ AskBeside(t) \/ AskUnlink(t)
           \/ FolderFilled(t) \/ OpenFolder(t) \/ FtRaises(t)
    PROVE  FtDataOf \subseteq FtDataOf'
<1>1. ftTree' = ftTree
  BY DEF AskWrite, AskNew, AskRename, AskMoveOrCopy, AskBeside, AskUnlink, FolderFilled, OpenFolder, FtRaises, FtAsk
<1> QED
  BY <1>1 DEF FtDataOf

LEMMA PutsLose ==
    ASSUME FtInv, NEW t \in FtThreads,
           WriteFile(t) \/ MakeDirectory(t) \/ TouchFile(t) \/ CopyFile(t) \/ MakeFolder(t) \/ FillFolder(t)
    PROVE  FtDataOf \subseteq FtDataOf' \/ FtMayLose(t)
<1>0. FtTypes
  BY DEF FtInv
<1>1. CASE WriteFile(t)
  <2>1. ftThread[t] \in FtTasks /\ ftThread[t].step \in {"write", "zip"}
    BY <1>0, <1>1, FtStates DEF WriteFile, FtAt, FtSteps
  <2>2. PICK n : ftTree' = FtPut(FtDst(t), n) /\ FtStale(t, FtThen(t, "chown"))
    BY <1>1 DEF WriteFile, Acts
  <2>3. FtThen(t, "chown") \in FtTasks /\ FtThen(t, "chown").step = "chown"
    BY <1>0, <2>1, ChownNext
  <2>4. ftThread'[t] # ftThread[t] /\ ftThread[t] # FtIdle
    BY <1>0, <2>1, <2>2, <2>3, StaleIs, FtIdleIs
  <2> QED
    BY <2>1, <2>2, <2>4, StillNotThere, PutKeepsData DEF FtMayLose
<1>2. CASE MakeDirectory(t)
  <2>1. ~FtHas(FtDst(t)) /\ ftTree' = FtPut(FtDst(t), FtDir(FtRoot))
    BY <1>2 DEF MakeDirectory, Acts
  <2> QED
    BY <2>1, PutKeepsData
<1>3. CASE TouchFile(t)
  <2>1. PICK n : ftTree' = IF FtHas(FtDst(t)) THEN ftTree ELSE FtPut(FtDst(t), n)
    BY <1>3 DEF TouchFile, Acts
  <2>2. CASE FtHas(FtDst(t))
    BY <2>1, <2>2 DEF FtDataOf
  <2>3. CASE ~FtHas(FtDst(t))
    BY <2>1, <2>3, PutKeepsData
  <2> QED
    BY <2>2, <2>3
<1>4. CASE CopyFile(t)
  <2>1. ftThread[t] \in FtTasks /\ ftThread[t].step = "copy"
    BY <1>0, <1>4, CopyFileTo
  <2>2. PICK d \in FtPaths, r \in FtTasks :
            /\ d = FtDst(t) \/ FtHas(FtDst(t))
            /\ r.step = "chown" /\ \E n : Acts(t, FtPut(d, n), r)
    BY <1>0, <1>4, CopyFileTo
  <2>3. ftThread'[t] # ftThread[t] /\ ftThread[t] # FtIdle /\ \E n : ftTree' = FtPut(d, n)
    BY <1>0, <2>1, <2>2, StaleIs, FtIdleIs DEF Acts
  <2> QED
    BY <2>1, <2>2, <2>3, StillNotThere, PutKeepsData DEF FtMayLose
<1>5. CASE MakeFolder(t)
  <2>1. ~FtHas(FtDst(t)) /\ ftTree' = FtPut(FtDst(t), FtDir(FtRoot))
    BY <1>5 DEF MakeFolder, Acts
  <2> QED
    BY <2>1, PutKeepsData
<1>6. CASE FillFolder(t)
  <2>1. FtAt(t, "fill")
    BY <1>6 DEF FillFolder
  <2>2. PICK q \in ftThread[t].left :
            /\ \E n : ftTree' = FtPut(Append(FtDst(t), Last(q)), n)
            /\ FtStale(t, [ftThread[t] EXCEPT !.left = ftThread[t].left \ {q}])
    BY <1>6 DEF FillFolder, Acts
  <2>3. ftThread[t] \in FtTasks /\ (~ftThread[t].stale => ~FtHas(Append(FtDst(t), Last(q))))
    BY <2>1, FillTo
  <2> DEFINE left == ftThread[t].left \ {q}
  <2>4. left \in SUBSET (Seq(FtNames) \ {<<>>}) /\ left # ftThread[t].left
    BY <1>0, <2>3, TaskIs
  <2>5. FtStale(t, [ftThread[t] EXCEPT !.left = left])
    BY <2>2
  <2> HIDE DEF left
  <2>6. [ftThread[t] EXCEPT !.left = left] \in FtTasks /\ [ftThread[t] EXCEPT !.left = left].left = left
    BY <2>3, <2>4, ToBeDone
  <2>7. ftThread'[t] # ftThread[t] /\ ftThread[t] # FtIdle
    BY <1>0, <2>3, <2>4, <2>5, <2>6, StaleIs, FtIdleIs
  <2> QED
    BY <2>2, <2>3, <2>7, PutKeepsData DEF FtMayLose
<1> QED
  BY <1>1, <1>2, <1>3, <1>4, <1>5, <1>6

LEMMA RenamesLose ==
    ASSUME FtInv, NEW t \in FtThreads, RenameItem(t) \/ MoveItem(t)
    PROVE  FtDataOf \subseteq FtDataOf' \/ FtMayLose(t)
<1>0. FtTypes
  BY DEF FtInv
<1>1. CASE RenameItem(t)
  <2>1. ftThread[t] \in FtTasks /\ ftThread[t].step = "rename"
    BY <1>0, <1>1, FtStates DEF RenameItem, FtAt, FtSteps
  <2>2. Renames(FtSrc(t), FtDst(t)) /\ ftTree' = FtRenamed(FtSrc(t), FtDst(t)) /\ FtStale(t, FtIdle)
    BY <1>1 DEF RenameItem, Acts
  <2>3. FtSrc(t) \in FtPaths /\ FtDst(t) \in FtPaths
    BY <1>0, <2>1, TaskIs
  <2>4. ftThread'[t] # ftThread[t] /\ ftThread[t] # FtIdle
    BY <1>0, <2>1, <2>2, StaleIs, FtIdleIs
  <2> QED
    BY <2>1, <2>2, <2>3, <2>4, StillNotThere, RenameKeepsData DEF FtMayLose
<1>2. CASE MoveItem(t)
  <2>1. ftThread[t] \in FtTasks /\ ftThread[t].step = "move"
    BY <1>0, <1>2, MoveItemTo
  <2>2. PICK d \in FtPaths : /\ d = FtDst(t) \/ FtHas(FtDst(t))
                             /\ Renames(FtSrc(t), d)
                             /\ Acts(t, FtRenamed(FtSrc(t), d), FtThen(t, "chown"))
    BY <1>0, <1>2, MoveItemTo
  <2>3. FtSrc(t) \in FtPaths /\ FtThen(t, "chown") \in FtTasks /\ FtThen(t, "chown").step = "chown"
    BY <1>0, <2>1, ChownNext, TaskIs
  <2>4. ftThread'[t] # ftThread[t] /\ ftThread[t] # FtIdle /\ ftTree' = FtRenamed(FtSrc(t), d)
    BY <1>0, <2>1, <2>2, <2>3, StaleIs, FtIdleIs DEF Acts
  <2> QED
    BY <2>1, <2>2, <2>3, <2>4, StillNotThere, RenameKeepsData DEF FtMayLose
<1> QED
  BY <1>1, <1>2

LEMMA CutsLose ==
    ASSUME FtInv, NEW t \in FtThreads, Unlink(t) \/ UnlinkChild(t) \/ RemoveFolder(t)
    PROVE  FtMayLose(t)
<1>0. FtTypes
  BY DEF FtInv
<1>1. ftThread[t] \in FtTasks /\ ftThread[t].step \in {"delete", "rm"}
  BY <1>0, FtStates DEF Unlink, UnlinkChild, RemoveFolder, FtAt, FtSteps
<1>2. CASE Unlink(t) \/ RemoveFolder(t)
  <2>1. FtStale(t, FtIdle)
    BY <1>2 DEF Unlink, RemoveFolder, Acts
  <2> QED
    BY <1>0, <1>1, <2>1, StaleIs, FtIdleIs DEF FtMayLose
<1>3. CASE UnlinkChild(t)
  <2>1. PICK q \in ftThread[t].left : FtStale(t, [ftThread[t] EXCEPT !.left = ftThread[t].left \ {q}])
    BY <1>3 DEF UnlinkChild, Acts
  <2> DEFINE left == ftThread[t].left \ {q}
  <2>2. left \in SUBSET (Seq(FtNames) \ {<<>>}) /\ left # ftThread[t].left
    BY <1>0, <1>1, TaskIs
  <2>3. FtStale(t, [ftThread[t] EXCEPT !.left = left])
    BY <2>1
  <2> HIDE DEF left
  <2>4. [ftThread[t] EXCEPT !.left = left] \in FtTasks /\ [ftThread[t] EXCEPT !.left = left].left = left
    BY <1>1, <2>2, ToBeDone
  <2> QED
    BY <1>0, <1>1, <2>2, <2>3, <2>4, StaleIs, FtIdleIs DEF FtMayLose
<1> QED
  BY <1>2, <1>3

\* A text is cut short that is written by name, or a new file; another one
\* only where the tree has changed.
LEMMA CutWritesLose ==
    ASSUME FtInv, NEW t \in FtThreads, WriteIsCut(t)
    PROVE  FtDataOf \subseteq FtDataOf' \/ FtMayLose(t)
<1>0. FtTypes
  BY DEF FtInv
<1>1. ftThread[t] \in FtTasks /\ ftThread[t] # FtIdle
  BY <1>0 DEF WriteIsCut, FtTypes
<1>2. PICK d \in {FtDst(t), CopyTarget(t)}, c \in FtData :
        /\ \/ (FtAt(t, "write") \/ FtAt(t, "zip")) /\ d = FtDst(t)
           \/ FtAt(t, "copy") /\ d = CopyTarget(t)
        /\ Len(d) <= FtDepth
        /\ \E n : ftTree' = FtPut(d, n)
        /\ FtStale(t, FtIdle)
  BY DEF WriteIsCut
<1>3. d = FtDst(t) \/ FtHas(FtDst(t))
  BY <1>0, <1>1, <1>2, CopyTargetIs
<1>4. ftThread'[t] # ftThread[t]
  BY <1>0, <1>1, <1>2, StaleIs
<1>5. ftThread[t].step \in {"write", "zip", "copy"}
  BY <1>2 DEF FtAt
<1>6. CASE ftThread[t].step = "write" \/ ftThread[t].stale
  BY <1>1, <1>4, <1>6 DEF FtMayLose
<1>7. CASE ftThread[t].step # "write" /\ ~ftThread[t].stale
  BY <1>1, <1>2, <1>3, <1>5, <1>7, StillNotThere, PutKeepsData
<1> QED
  BY <1>6, <1>7

LEMMA OwnersLose ==
    ASSUME FtInv, NEW t \in FtThreads, RestoreOwner(t) \/ RestoreIsCut(t)
    PROVE  FtDataOf \subseteq FtDataOf'
<1>1. PICK ps : FtAt(t, "chown") /\ GivesAway(t, ps)
  BY DEF RestoreOwner, RestoreIsCut, Restores
<1>2. ASSUME NEW p \in DOMAIN ftTree, ftTree[p].kind = "file"
      PROVE  p \in DOMAIN ftTree' /\ ftTree'[p].kind = "file" /\ ftTree'[p].data = ftTree[p].data
  BY <1>1, <1>2, GivenAwayIs
<1> QED
  BY <1>2, KeptData

\* Theorem: no request loses the only copy of some data that it was not told to
\* delete or to write over, however many there are, unless the tree has changed
\* since it looked (services/files.py 348-476, 592).
THEOREM NoLoss == FileTreeSpec => NoSilentLoss
<1> DEFINE Keeps == \A c \in FtDataOf \ FtDataOf' : \E t \in FtThreads : FtMayLose(t)
<1>1. ASSUME FtInv, [FileTreeNext]_ftVars PROVE Keeps
  <2>1. ASSUME NEW t \in FtThreads,
           \/ AskWrite(t) \/ AskNew(t) \/ AskRename(t) \/ AskMoveOrCopy(t) \/ AskBeside(t) \/ AskUnlink(t)
           \/ WriteFile(t) \/ WriteIsCut(t) \/ MakeDirectory(t) \/ TouchFile(t) \/ RenameItem(t) \/ MoveItem(t) \/ CopyFile(t)
           \/ MakeFolder(t) \/ FillFolder(t) \/ FolderFilled(t) \/ RestoreOwner(t) \/ RestoreIsCut(t)
           \/ Unlink(t) \/ OpenFolder(t) \/ UnlinkChild(t) \/ RemoveFolder(t) \/ FtRaises(t)
        PROVE  FtDataOf \subseteq FtDataOf' \/ FtMayLose(t)
    BY <1>1, <2>1, SameTreeLoses, PutsLose, CutWritesLose, RenamesLose, CutsLose, OwnersLose
  <2>2. CASE FileTreeNext
    BY <2>1, <2>2 DEF FileTreeNext
  <2>3. CASE UNCHANGED ftVars
    BY <2>3 DEF ftVars, FtDataOf
  <2> QED
    BY <1>1, <2>2, <2>3
<1>2. FtInv /\ FtInv' /\ [FileTreeNext]_ftVars =>
         [\A c \in FtDataOf \ FtDataOf' :
             \E t \in FtThreads : /\ ftThread[t] # FtIdle /\ ftThread'[t] # ftThread[t]
                                  /\ ftThread[t].step \in {"delete", "rm", "write"} \/ ftThread[t].stale]_ftVars
  BY <1>1 DEF FtMayLose
<1> QED
  BY <1>2, FtInvariance, PTL DEF FileTreeSpec, NoSilentLoss
===========================================================================
