----------------------------- MODULE AtomicSaves -----------------------------
(***************************************************************************)
(* What the config editor promises to who saves a file, without backups,   *)
(* validation in place or a restore: a save changes the file and what the  *)
(* service runs with in one instant, or neither.  Only a save that has     *)
(* gone astray may do anything to both, from the step that leads it astray *)
(* to the one that ends it.  ConfigEditor is shown to implement this       *)
(* specification; its variable left says which saves may go astray.        *)
(***************************************************************************)
EXTENDS Naturals

CONSTANTS
    Saves,       \* the requests to save, each made once with a text of its own
    Valid,       \* those whose text the validator accepts
    Original,    \* the text before the first save
    Absent,      \* no file
    Partial      \* what a write that was cut leaves

VARIABLES
    shown,       \* the version of the file between saves, or Absent
    inForce,     \* the text the service runs with
    answer       \* answer[s], what has become of s

avars == <<shown, inForce, answer>>

Of(texts) == [text : texts, mtime : Nat]
AllTexts  == Saves \cup {Original, Partial}

AInit ==
    /\ shown \in {[text |-> Original, mtime |-> 0], Absent}
    /\ inForce = IF shown = Absent THEN Absent ELSE Original
    /\ answer = [s \in Saves |-> "none"]

Answer(s, a) ==
    /\ answer[s] = "none"
    /\ answer' = [answer EXCEPT ![s] = a]

\* The message of the reloader: the text is in the file and in force.
Take(s) ==
    /\ Answer(s, "saved")
    /\ s \in Valid
    /\ shown' \in Of({s})
    /\ inForce' = s

\* An error: the file is the version it was, with its time.
Refuse(s) ==
    /\ Answer(s, "refused")
    /\ UNCHANGED <<shown, inForce>>

\* A step of saves that are astray or go astray: who was answered stays answered.
Stray ==
    /\ answer' \in [Saves -> {"none", "saved", "refused", "astray", "left"}]
    /\ \E s \in Saves : answer[s] \in {"none", "astray"} /\ answer'[s] \in {"astray", "left"}
    /\ \A s \in Saves :
         \/ answer'[s] = answer[s]
         \/ answer[s] \in {"none", "astray"} /\ answer'[s] \in {"astray", "left"}
    /\ shown' \in Of(AllTexts) \cup {Absent}
    /\ inForce' \in AllTexts \cup {Absent}

ANext == Stray \/ \E s \in Saves : Take(s) \/ Refuse(s)

ASpec == AInit /\ [][ANext]_avars
==============================================================================
