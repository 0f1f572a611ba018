----------------------------- MODULE ConfigEditor -----------------------------
(***************************************************************************)
(* services/config_editor.py: saving one configuration file (php.ini,      *)
(* nginx.conf or a site's override) with a backup, a validation of the     *)
(* file in place, a reload of the service and a restore when one fails.    *)
(* Saves run in request threads, with no lock; every call may fail, some   *)
(* halfway, and the panel may die anywhere, halfway through a copy or a    *)
(* write too.                                                              *)
(*                                                                         *)
(* A version of the file is a text and an mtime.  write_text gives it a    *)
(* new mtime; shutil.copy2 copies the text first and the mtime last.       *)
(* Every save writes a text of its own, named after the save; the          *)
(* validator accepts the texts in Valid, and may accept a cut one.         *)
(***************************************************************************)
EXTENDS Naturals, FiniteSets, FiniteSetsExt

CONSTANTS
    Saves,        \* the requests to save, each made once
    Valid,        \* those whose text the validator accepts
    Original,     \* the text before the first save, a valid one
    Absent,       \* no file, no backup
    Partial,      \* what a write or a copy leaves that was cut, or mixed with another
    MaxBackups,   \* MAX_BACKUPS (5)
    MaxParallel,  \* bound: requests in progress at once
    MaxFaults     \* bound: failed calls and deaths of the panel

ASSUME ConfigEditorAssumption ==
    /\ Valid \subseteq Saves
    /\ Original \notin Saves /\ Partial \notin Saves /\ Original # Partial
    /\ Absent \notin [text : Saves \cup {Original, Partial}, mtime : Nat]
    /\ MaxBackups \in Nat \ {0}
    /\ MaxParallel \in Nat /\ MaxFaults \in Nat

VARIABLES
    file,     \* the version on disk: [text, mtime], or Absent
    backups,  \* backups[i], the version in file.backup.i, or Absent
    loaded,   \* the text the service runs with
    pc,       \* pc[s]: see Steps
    slot,     \* slot[s], the backup s makes or restores
    backup,   \* backup[s]: backup_config returned a path
    clock,    \* the next mtime
    faults,   \* failed calls and deaths so far
    before,   \* history: before[s], the file when s began
    left,     \* history: the saves that nothing was promised for, or not any more
    adrift,   \* history: such a save has had the file or the service since a save succeeded
    torn      \* history: and the backups: one may be later than the file

vars == <<file, backups, loaded, pc, slot, backup, clock, faults, before,
          left, adrift, torn>>

disk    == <<file, backups, clock>>
history == <<left, adrift, torn>>

Ended == {"saved",     \* the message of the reloader was returned
          "refused",   \* SaveError was raised
          "raised",    \* something else was
          "lost"}      \* the panel died
Steps == {"idle", "copy", "copying", "write", "writing", "validate", "reload",
          "restore", "restoring"} \cup Ended
Slots == 0..(MaxBackups - 1)

InProgress == {s \in Saves : pc[s] \notin {"idle"} \cup Ended}
Filled     == {i \in Slots : backups[i] # Absent}
Newest     == {i \in Filled : \A k \in Filled : backups[k].mtime <= backups[i].mtime}
Fault      == faults < MaxFaults /\ faults' = faults + 1

Accepted == file # Absent /\ file.text \in Valid \cup {Original}
MayPass  == Accepted \/ (file # Absent /\ file.text = Partial)

Go(s, step) == pc' = [pc EXCEPT ![s] = step]

\* What a write of this text is until it ends: any part of it, with a new time.
Cut(text) == [text : {Partial, text}, mtime : {clock}]

\* From here on nothing is promised of the saves in S, and of the file only
\* after another save.
Leave(S) == left' = left \cup S /\ adrift' = TRUE

Init ==
    /\ file \in {[text |-> Original, mtime |-> 0], Absent}
    /\ backups = [i \in Slots |-> Absent]
    /\ loaded = IF file = Absent THEN Absent ELSE Original
    /\ pc = [s \in Saves |-> "idle"]
    /\ slot = [s \in Saves |-> 0]
    /\ backup = [s \in Saves |-> FALSE]
    /\ clock = 1
    /\ faults = 0
    /\ before = [s \in Saves |-> Absent]
    /\ left = {} /\ adrift = FALSE /\ torn = FALSE

-----------------------------------------------------------------------------
(* backup_config: choose the slot, then copy *)

\* Faulty variant: the number of the slot only grows.
NextSlotGrows == IF Filled = {} THEN 0 ELSE Max(Filled) + 1

NextSlot == IF Filled = {} THEN 0 ELSE (Max(Filled) + 1) % MaxBackups

ChooseSlot(s) ==
    /\ pc[s] = "idle"
    /\ Cardinality(InProgress) < MaxParallel
    /\ before' = [before EXCEPT ![s] = file]
    /\ slot' = [slot EXCEPT ![s] = NextSlot]
    /\ Go(s, IF file = Absent THEN "write" ELSE "copy")
    /\ IF InProgress = {} THEN UNCHANGED history
       ELSE Leave(InProgress \cup {s}) /\ torn' = TRUE
    /\ UNCHANGED <<disk, loaded, backup, faults>>

StartCopy(s) ==
    /\ pc[s] = "copy"
    /\ \E part \in Cut(file.text) : backups' = [backups EXCEPT ![slot[s]] = part]
    /\ clock' = clock + 1
    /\ Go(s, "copying")
    /\ UNCHANGED <<file, loaded, slot, backup, faults, before, history>>

Copy(s) ==
    /\ pc[s] = "copying"
    /\ backups' = [backups EXCEPT ![slot[s]] = file]
    /\ backup' = [backup EXCEPT ![s] = TRUE]
    /\ Go(s, "write")
    /\ UNCHANGED <<file, loaded, slot, clock, faults, before, history>>

\* copy2 raises, and so does the save; what it has copied stays.
CopyFails(s) ==
    /\ pc[s] \in {"copy", "copying"}
    /\ Fault
    /\ torn' = (torn \/ pc[s] = "copying")
    /\ Go(s, "raised")
    /\ UNCHANGED <<disk, loaded, slot, backup, before, left, adrift>>

-----------------------------------------------------------------------------
(* _save_with_rollback *)

\* path.write_text
StartWrite(s) ==
    /\ pc[s] = "write"
    /\ file' \in Cut(s)
    /\ clock' = clock + 1
    /\ Go(s, "writing")
    /\ UNCHANGED <<backups, loaded, slot, backup, faults, before, history>>

Write(s) ==
    /\ pc[s] = "writing"
    /\ file' = [text |-> s, mtime |-> clock]
    /\ clock' = clock + 1
    /\ Go(s, "validate")
    /\ UNCHANGED <<backups, loaded, slot, backup, faults, before, history>>

\* Faulty variant: a failed write is reported, but nothing is restored.
WriteFailsOnly(s) ==
    /\ pc[s] \in {"write", "writing"}
    /\ Fault
    /\ Go(s, "refused")
    /\ UNCHANGED <<disk, loaded, slot, backup, before, history>>

\* OSError, when the file is opened or halfway.
WriteFails(s) ==
    /\ pc[s] \in {"write", "writing"}
    /\ Fault
    /\ Go(s, "restore")
    /\ UNCHANGED <<disk, loaded, slot, backup, before, history>>

\* validator(): judges the file as it is on disk now.
Validate(s) ==
    /\ pc[s] = "validate"
    /\ \/ MayPass /\ Go(s, "reload")
       \/ ~Accepted /\ Go(s, "restore")
    /\ UNCHANGED <<disk, loaded, slot, backup, faults, before, history>>

\* It times out or is not there; or it raises what nobody catches, and the file
\* stays as it is.
ValidateFails(s) ==
    /\ pc[s] = "validate"
    /\ Fault
    /\ \/ Go(s, "restore") /\ UNCHANGED history
       \/ Go(s, "raised") /\ Leave({s}) /\ UNCHANGED torn
    /\ UNCHANGED <<disk, loaded, slot, backup, before>>

\* reloader(): nginx -t again, then systemctl reload.  (That of php-fpm does not
\* ask again, which only saves that overlap could notice.)
Reload(s) ==
    /\ pc[s] = "reload"
    /\ \/ /\ MayPass
          /\ loaded' = file.text
          /\ Go(s, "saved")
          /\ UNCHANGED left
          /\ adrift' = (adrift /\ s \in left)
          /\ torn' = (torn /\ s \in left)
       \/ /\ ~Accepted
          /\ Go(s, "restore")
          /\ UNCHANGED <<loaded, history>>
    /\ UNCHANGED <<disk, slot, backup, faults, before>>

\* The same two ways to fail; the service may have taken the text before.
ReloadFails(s) ==
    /\ pc[s] = "reload"
    /\ Fault
    /\ \/ UNCHANGED loaded /\ Go(s, "restore") /\ UNCHANGED history
       \/ /\ UNCHANGED loaded \/ (MayPass /\ loaded' = file.text)
          /\ Go(s, "restore") \/ Go(s, "raised")
          /\ Leave({s}) /\ UNCHANGED torn
    /\ UNCHANGED <<disk, slot, backup, before>>

-----------------------------------------------------------------------------
(* restore_latest_backup, if this save made a backup *)

\* There was no file: the text stays.
NothingToRestore(s) ==
    /\ pc[s] = "restore"
    /\ ~backup[s]
    /\ Go(s, "refused")
    /\ Leave({s})
    /\ UNCHANGED <<disk, loaded, slot, backup, faults, before, torn>>

\* Faulty variant: the backup with the highest number is taken for the latest.
StartRestoreLastSlot(s) ==
    /\ pc[s] = "restore"
    /\ backup[s]
    /\ slot' = [slot EXCEPT ![s] = Max(Filled)]
    /\ file' \in Cut(backups[Max(Filled)].text)
    /\ clock' = clock + 1
    /\ Go(s, "restoring")
    /\ UNCHANGED <<backups, loaded, backup, faults, before, history>>

\* The latest by mtime.
StartRestore(s) ==
    /\ pc[s] = "restore"
    /\ backup[s]
    /\ \E i \in Newest :
         /\ slot' = [slot EXCEPT ![s] = i]
         /\ file' \in Cut(backups[i].text)
    /\ clock' = clock + 1
    /\ Go(s, "restoring")
    /\ UNCHANGED <<backups, loaded, backup, faults, before, history>>

\* If it may be another one than this save has made, nothing is promised.
Restore(s) ==
    /\ pc[s] = "restoring"
    /\ file' = backups[slot[s]]
    /\ Go(s, "refused")
    /\ IF torn THEN Leave({s}) /\ UNCHANGED torn ELSE UNCHANGED history
    /\ UNCHANGED <<backups, clock, loaded, slot, backup, faults, before>>

\* copy2 raises; what it has copied stays.
RestoreFails(s) ==
    /\ pc[s] \in {"restore", "restoring"}
    /\ backup[s]
    /\ Fault
    /\ Go(s, "raised")
    /\ Leave({s})
    /\ UNCHANGED <<disk, loaded, slot, backup, before, torn>>

-----------------------------------------------------------------------------
\* Saves that may have changed the file or the service.
Touching == {s \in InProgress : pc[s] \notin {"copy", "copying", "write"}}

\* The panel dies: what is on disk stays, and nobody takes it back.  A reload
\* may have been asked for.
Crash ==
    /\ InProgress # {}
    /\ Fault
    /\ pc' = [s \in Saves |-> IF s \in InProgress THEN "lost" ELSE pc[s]]
    /\ \/ UNCHANGED loaded
       \/ MayPass /\ loaded' = file.text /\ \E s \in Saves : pc[s] = "reload"
    /\ left' = left \cup InProgress
    /\ adrift' = (adrift \/ Touching # {})
    /\ torn' = (torn \/ \E s \in Saves : pc[s] = "copying")
    /\ UNCHANGED <<disk, slot, backup, before>>

-----------------------------------------------------------------------------
Save(s) ==
    \/ ChooseSlot(s) \/ StartCopy(s) \/ Copy(s)
    \/ StartWrite(s) \/ Write(s) \/ Validate(s) \/ Reload(s)
    \/ NothingToRestore(s) \/ StartRestore(s) \/ Restore(s)
Fails(s) ==
    CopyFails(s) \/ WriteFails(s) \/ ValidateFails(s) \/ ReloadFails(s) \/ RestoreFails(s)

Next == Crash \/ \E s \in Saves : Save(s) \/ Fails(s)

Spec == Init /\ [][Next]_vars

-----------------------------------------------------------------------------
(* Properties *)

Texts    == Saves \cup {Original, Partial}
Versions == [text : Texts, mtime : Nat] \cup {Absent}

\* Types; and a save that holds a backup finds one to restore.
TypeOK ==
    /\ file \in Versions
    /\ backups \in [Slots -> Versions]
    /\ loaded \in Texts \cup {Absent}
    /\ pc \in [Saves -> Steps]
    /\ slot \in [Saves -> Slots]
    /\ backup \in [Saves -> BOOLEAN]
    /\ clock \in Nat
    /\ faults \in 0..MaxFaults
    /\ before \in [Saves -> Versions]
    /\ left \subseteq Saves /\ adrift \in BOOLEAN /\ torn \in BOOLEAN
    /\ \A s \in Saves : backup[s] => Filled # {}

\* Between saves the file is one the validator accepts and the one the service
\* runs with: what an administrator sees in the editor is in force, whatever was
\* written, whichever saves were refused, whichever slots the backups went to
\* and in whatever state an earlier save died (config_editor.py 4-6).  The
\* exception are the saves that overlap, die or fail twice, those whose reload
\* fails though the service took the text, those that found no file or torn
\* backups, and a validator or reloader that raises what is not caught: until
\* the next save that succeeds.
RestingFileIsRight ==
    InProgress = {} /\ file # Absent /\ ~adrift => Accepted /\ file.text = loaded

\* "Validation runs before the new file is committed; [...] and if anything
\* fails the backup is restored automatically" (config_editor.py 4-6): where
\* every save was refused, had a file to go back to and met no failed call, the
\* file is a valid one again.
RefusedTextIsGone ==
    InProgress = {} /\ faults = 0
        /\ (\A s \in Saves : pc[s] # "idle" => pc[s] = "refused" /\ before[s] # Absent)
        /\ file # Absent => Accepted

-----------------------------------------------------------------------------
(* The refinement of AtomicSaves *)

\* A save under way does not count yet: what it began with still does.
Counted   == InProgress \ left
ShownFile == IF Counted = {} THEN file ELSE before[CHOOSE s \in Counted : TRUE]

AnswerTo(s) ==
    CASE s \in left /\ s \in InProgress -> "astray"
      [] s \in left /\ s \notin InProgress -> "left"
      [] s \notin left /\ pc[s] \notin Ended -> "none"
      [] s \notin left /\ pc[s] = "saved" -> "saved"
      [] OTHER -> "refused"

Atomic == INSTANCE AtomicSaves
            WITH shown <- ShownFile, inForce <- loaded, answer <- [s \in Saves |-> AnswerTo(s)]

\* "If anything fails the backup is restored automatically" and "validation runs
\* before the new file is committed" (config_editor.py 4-6), as one promise: a
\* save is atomic.  The file and the service change together or not at all,
\* whichever step failed, whichever slot the backup went to and whatever an
\* earlier save left when the panel died in it; but for the saves in left.
SavesAreAtomic == Atomic!ASpec

-----------------------------------------------------------------------------
(* The inductive invariant *)

\* A save of which something is promised is alone; and so is any that can
\* trust the backups.
Alone ==
    /\ \A s \in InProgress \ left : InProgress = {s}
    /\ \A s \in InProgress \cap left : adrift /\ (torn \/ pc[s] \in {"restore", "restoring"})
    /\ ~torn => \A s, r \in InProgress : s = r

\* Times: the next one is later than any there is.
TimesGrow ==
    /\ file # Absent => file.mtime < clock
    /\ \A i \in Filled : backups[i].mtime < clock

\* No backup is later than the file, but for the one that is being made; one of
\* the same time is the same version.
OlderOrSame(v, w) == v = w \/ v.mtime < w.mtime
Making == {slot[s] : s \in {r \in Saves : pc[r] = "copying"}}
BackupsAreOlder ==
    ~torn => \A i \in Filled \ Making : file # Absent /\ OlderOrSame(backups[i], file)

\* The backup of a save in progress is there, and the latest: whatever slot it went to.
BackupIsLatest(s) ==
    /\ \E i \in Filled : backups[i] = before[s]
    /\ \A i \in Filled : OlderOrSame(backups[i], before[s])

\* A save has its backup before it changes the file, if there was a file.
SaveOnCourse == \A s \in InProgress :
    /\ IF pc[s] \in {"copy", "copying"} THEN before[s] # Absent /\ ~backup[s]
       ELSE backup[s] <=> before[s] # Absent
    /\ pc[s] \notin {"copy", "copying"} /\ before[s] # Absent /\ ~torn => BackupIsLatest(s)
    /\ pc[s] = "restoring" => backup[s] /\ backups[slot[s]] # Absent
    /\ pc[s] = "restoring" /\ ~torn => backups[slot[s]] = before[s]

\* What the others cannot have disturbed: the file, and the service.
CountedOnCourse == \A s \in Counted :
    /\ pc[s] \in {"copy", "copying", "write"} => file = before[s]
    /\ pc[s] \in {"validate", "reload"} =>
          file # Absent /\ file.text = s /\ \A i \in Filled : backups[i].mtime < file.mtime
    /\ before[s] # Absent /\ ~adrift =>
          before[s].text \in Valid \cup {Original} /\ loaded = before[s].text

IInv ==
    /\ TypeOK
    /\ \A s \in Saves : pc[s] = "idle" => ~backup[s]
    /\ \A s \in Saves : pc[s] = "idle" => s \notin left
    /\ Alone
    /\ TimesGrow
    /\ BackupsAreOlder
    /\ SaveOnCourse
    /\ CountedOnCourse
    /\ RestingFileIsRight
==============================================================================
