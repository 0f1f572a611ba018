------------------------------ MODULE SwapFile ------------------------------
(***************************************************************************)
(* services/swap.py, routers/swap.py and the jobs swap.set and swap.remove *)
(* (tasks.py): the panel's one swap file, its line in /etc/fstab and what  *)
(* the kernel uses.  A job runs one command after the other and any of     *)
(* them may fail; the machine may be restarted at any step.                *)
(*                                                                         *)
(* Sizes are in MB.  The kernel keeps the first page of a swap file for    *)
(* itself, so that parse_proc_swaps, which rounds down, reads one MB less. *)
(***************************************************************************)
EXTENDS Integers, FiniteSets

CONSTANTS
    SwapSizes,    \* the sizes that may be asked for
    SwapDisk,     \* the disk
    SwapOther,    \* amounts other files may take of it
    SwHeadroom    \* DISK_HEADROOM_MB

ASSUME SwapFileAssumption ==
    /\ SwapSizes \subseteq Nat \ {0} /\ IsFiniteSet(SwapSizes)
    /\ SwHeadroom \in Nat
    /\ SwapDisk \in Nat /\ 0 \in SwapOther /\ SwapOther \subseteq 0..SwapDisk

NoSwap == 0

VARIABLES
    swFile,     \* the size of /swapfile, NoSwap when there is none
    swReady,    \* mkswap has been run on it
    swActive,   \* the size the kernel swaps to, NoSwap when it does not
    swFstab,    \* /etc/fstab has the line
    swOther,    \* the disk other files take
    swJob,      \* the job that runs, or NoSwapJob
    swBroken,   \* history: a job has failed, or the machine was restarted
                \* under one, since the last that succeeded
    swAsked     \* history: the size the last successful job was for

swVars == <<swFile, swReady, swActive, swFstab, swOther, swJob, swBroken, swAsked>>

NoSwapJob == [step |-> "none"]
SwapSteps == {"check", "off", "unlink", "allocate", "write", "mkswap", "swapon", "fstab"}

\* size NoSwap: swap.remove; blind: the free space read as 0, or other files
\* have changed since it was read.
SwapJob == [step : SwapSteps, size : SwapSizes \cup {NoSwap}, blind : BOOLEAN]

SwFreeDisk == SwapDisk - swOther - swFile

SwInit ==
    /\ swFile = NoSwap /\ swActive = NoSwap
    /\ swReady = FALSE /\ swFstab = FALSE
    /\ swOther = 0
    /\ swJob = NoSwapJob
    /\ swBroken = FALSE
    /\ swAsked = NoSwap

SwAt(step)   == swJob # NoSwapJob /\ swJob.step = step
SwGoTo(step) == swJob' = [swJob EXCEPT !.step = step]

\* The job ends well, or with JobFailed.
SwapDone ==
    /\ swJob' = NoSwapJob
    /\ swBroken' = FALSE
    /\ swAsked' = swJob.size

SwapFails ==
    /\ swJob' = NoSwapJob
    /\ swBroken' = TRUE
    /\ UNCHANGED swAsked

SwGoes == UNCHANGED <<swBroken, swAsked>>

-----------------------------------------------------------------------------
\* The route enqueues, the worker takes the job when it is the first.
StartSwapJob ==
    /\ swJob = NoSwapJob
    /\ \E size \in SwapSizes \cup {NoSwap} :
           swJob' = [step |-> "check", size |-> size, blind |-> FALSE]
    /\ SwGoes
    /\ UNCHANGED <<swFile, swReady, swActive, swFstab, swOther>>

SwNeeded(size) == size + SwHeadroom - swFile

\* Faulty variant: what is there counts although the new size does.
SwFitsGenerously(size) == SwFreeDisk + swFile >= SwNeeded(size)

\* A free space of 0 is taken for an unknown one.
SwFits(size) == SwFreeDisk = 0 \/ SwFreeDisk >= SwNeeded(size)

SwReported == swActive - 1

\* Faulty variant: the file is replaced while the kernel swaps to it.
CheckSizeKeepsOn ==
    /\ SwAt("check") /\ swJob.size # NoSwap /\ SwFits(swJob.size)
    /\ SwGoTo(IF SwReported = swJob.size THEN "fstab" ELSE "unlink")
    /\ SwGoes
    /\ UNCHANGED <<swFile, swReady, swActive, swFstab, swOther>>

\* set_size: the free space, the size in use, the file that is there.
CheckSize ==
    /\ SwAt("check") /\ swJob.size # NoSwap
    /\ \/ /\ ~SwFits(swJob.size)
          /\ swJob' = NoSwapJob
          /\ SwGoes
       \/ /\ SwFits(swJob.size)
          /\ swJob' = [swJob EXCEPT
                !.step = IF SwReported = swJob.size THEN "fstab"
                         ELSE IF swActive # NoSwap THEN "off" ELSE "unlink",
                !.blind = (SwFreeDisk = 0)]
          /\ SwGoes
    /\ UNCHANGED <<swFile, swReady, swActive, swFstab, swOther>>

\* remove: nothing to do, or swapoff, or straight to the file.
CheckRemove ==
    /\ SwAt("check") /\ swJob.size = NoSwap
    /\ IF swActive = NoSwap /\ swFile = NoSwap /\ ~swFstab
       THEN SwapDone
       ELSE SwGoTo(IF swActive # NoSwap THEN "off" ELSE "unlink") /\ SwGoes
    /\ UNCHANGED <<swFile, swReady, swActive, swFstab, swOther>>

SwapOff ==
    /\ SwAt("off")
    /\ swActive' = NoSwap
    /\ SwGoTo("unlink") /\ SwGoes
    /\ UNCHANGED <<swFile, swReady, swFstab, swOther>>

\* swapoff finds no memory for what is in the file; nothing has changed.
SwapOffFails ==
    /\ SwAt("off")
    /\ SwapFails
    /\ UNCHANGED <<swFile, swReady, swActive, swFstab, swOther>>

UnlinkSwap ==
    /\ SwAt("unlink")
    /\ swFile' = NoSwap /\ swReady' = FALSE
    /\ SwGoTo(IF swJob.size = NoSwap THEN "fstab" ELSE "allocate") /\ SwGoes
    /\ UNCHANGED <<swActive, swFstab, swOther>>

\* fallocate; where it fails the file is unlinked and dd writes it.
AllocateSwap ==
    /\ SwAt("allocate")
    /\ \/ /\ swJob.size <= SwapDisk - swOther
          /\ swFile' = swJob.size
          /\ SwGoTo("mkswap")
       \/ /\ swFile' = NoSwap
          /\ SwGoTo("write")
    /\ SwGoes
    /\ UNCHANGED <<swReady, swActive, swFstab, swOther>>

\* dd: to the end, or until the disk is full or it is stopped.
WriteZeros ==
    /\ SwAt("write")
    /\ \/ /\ swJob.size <= SwapDisk - swOther
          /\ swFile' = swJob.size
          /\ SwGoTo("mkswap") /\ SwGoes
       \/ /\ \E part \in 0..swJob.size :
                /\ part <= SwapDisk - swOther
                /\ swFile' = part
          /\ SwapFails
    /\ UNCHANGED <<swReady, swActive, swFstab, swOther>>

MakeSwap ==
    /\ SwAt("mkswap")
    /\ \/ swReady' = TRUE /\ SwGoTo("swapon") /\ SwGoes
       \/ swReady' = FALSE /\ SwapFails
    /\ UNCHANGED <<swFile, swActive, swFstab, swOther>>

SwapOn ==
    /\ SwAt("swapon")
    /\ \/ swActive' = swFile /\ SwGoTo("fstab") /\ SwGoes
       \/ UNCHANGED swActive /\ SwapFails
    /\ UNCHANGED <<swFile, swReady, swFstab, swOther>>

\* Faulty variant: the line is taken out and written only where there is none.
UpdateFstabOnce ==
    /\ SwAt("fstab")
    /\ \/ swFstab' = (swJob.size # NoSwap /\ ~swFstab) /\ SwapDone
       \/ UNCHANGED swFstab /\ SwapFails
    /\ UNCHANGED <<swFile, swReady, swActive, swOther>>

\* _update_fstab, the last step of both jobs; write_atomic may raise
\* where the line must change.
UpdateFstab ==
    /\ SwAt("fstab")
    /\ \/ swFstab' = (swJob.size # NoSwap) /\ SwapDone
       \/ swFstab # (swJob.size # NoSwap) /\ UNCHANGED swFstab /\ SwapFails
    /\ UNCHANGED <<swFile, swReady, swActive, swOther>>

\* The panel ends under the job, and its commands with it.
SwPanelEnds ==
    /\ swJob # NoSwapJob
    /\ SwapFails
    /\ UNCHANGED <<swFile, swReady, swActive, swFstab, swOther>>

\* The machine is restarted: the kernel follows /etc/fstab.
SwReboot ==
    /\ swActive' = IF swFstab /\ swReady THEN swFile ELSE NoSwap
    /\ swJob' = NoSwapJob
    /\ swBroken' = (swBroken \/ swJob # NoSwapJob)
    /\ UNCHANGED <<swFile, swReady, swFstab, swOther, swAsked>>

OthersTakeDisk ==
    /\ \E n \in SwapOther : n + swFile <= SwapDisk /\ swOther' = n
    /\ swJob' = IF swJob = NoSwapJob THEN swJob ELSE [swJob EXCEPT !.blind = TRUE]
    /\ UNCHANGED <<swFile, swReady, swActive, swFstab, swBroken, swAsked>>

SwNext ==
    \/ StartSwapJob \/ CheckSize \/ CheckRemove \/ SwapOff \/ SwapOffFails \/ UnlinkSwap
    \/ AllocateSwap \/ WriteZeros \/ MakeSwap \/ SwapOn \/ UpdateFstab \/ SwPanelEnds \/ SwReboot
    \/ OthersTakeDisk

SwSpec == SwInit /\ [][SwNext]_swVars

-----------------------------------------------------------------------------
SwTypeOK ==
    /\ swFile \in Nat /\ swActive \in Nat /\ swAsked \in Nat /\ swOther \in Nat
    /\ swReady \in BOOLEAN /\ swFstab \in BOOLEAN /\ swBroken \in BOOLEAN
    /\ swJob \in SwapJob \cup {NoSwapJob}
    /\ SwFreeDisk >= 0

\* "Swap is on, and it will come back after a reboot": between jobs, unless
\* one has failed since, the kernel swaps to a file of the size of the last
\* successful job, or of the MB more that the same size is read as, the line is
\* in /etc/fstab exactly when there is one, and no file is left without it.
SwapAsAsked ==
    swJob = NoSwapJob /\ ~swBroken =>
        /\ swActive = swFile
        /\ IF swAsked = NoSwap THEN swFile = NoSwap ELSE swFile \in {swAsked, swAsked + 1}
        /\ swFstab <=> swAsked # NoSwap

\* The kernel never swaps to a file that has been unlinked, cut short or not
\* been through mkswap, however a job ends.
ActiveFileIsWhole == swActive # NoSwap => swReady /\ swActive = swFile

\* A swap file that has been written leaves the headroom free, unless other
\* files have changed since its job looked or the free space read as 0, which
\* the code takes for unknown.
HeadroomIsKept ==
    SwAt("mkswap") => swJob.blind \/ SwFreeDisk >= SwHeadroom

\* Swap is what was asked for, never half a file, and leaves its headroom.
SwapIsSound == SwapAsAsked /\ ActiveFileIsWhole /\ HeadroomIsKept
=============================================================================
