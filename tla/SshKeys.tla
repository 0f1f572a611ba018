------------------------------- MODULE SshKeys -------------------------------
(***************************************************************************)
(* services/ssh_keys.py: the authorized_keys of one site's user is written *)
(* from the rows by the request that has changed them, in its own thread:  *)
(* the change is committed, then the rows are read, then the file and the  *)
(* user's shell are set.                                                   *)
(***************************************************************************)
EXTENDS Integers, FiniteSets

CONSTANTS
    SkKeys,        \* public keys, told apart by their fingerprints
    SkThreads,     \* request threads
    SkMaxAsked     \* bound: requests

VARIABLES
    skRows,     \* ssh_keys of the user
    skFile,     \* the keys in authorized_keys
    skBash,     \* the user's shell lets it log in
    skReq,      \* what each thread is doing
    skAsked,
    skSkewed    \* history: keys changed by a request that overlapped another or
                \* stopped half way, since the last that ran alone and to its end

skVars == <<skRows, skFile, skBash, skReq, skAsked, skSkewed>>

SkIdle == [step |-> "idle", keys |-> {}, alone |-> TRUE]

SkInit ==
    /\ skRows = {} /\ skFile = {} /\ skBash = FALSE
    /\ skReq = [t \in SkThreads |-> SkIdle]
    /\ skAsked = 0
    /\ skSkewed = FALSE

SkAt(t, step) == skReq[t].step = step

-----------------------------------------------------------------------------
\* The commit of create_key or delete_key.
SkCommit(t, rows) ==
    /\ SkAt(t, "idle") /\ skAsked < SkMaxAsked
    /\ skAsked' = skAsked + 1
    /\ skRows' = rows
    /\ LET others == {u \in SkThreads \ {t} : ~SkAt(u, "idle")} IN
       /\ skReq' = [u \in SkThreads |->
              IF u = t THEN [step |-> "read", keys |-> {}, alone |-> others = {}]
              ELSE [skReq[u] EXCEPT !.alone = SkAt(u, "idle")]]
       /\ skSkewed' = (skSkewed \/ others # {})
    /\ UNCHANGED <<skFile, skBash>>

AddKey(t, k)    == k \notin skRows /\ SkCommit(t, skRows \cup {k})
RevokeKey(t, k) == k \in skRows /\ SkCommit(t, skRows \ {k})

SkGoes(t, step) == skReq' = [skReq EXCEPT ![t].step = step]

ReadKeys(t) ==
    /\ SkAt(t, "read")
    /\ skReq' = [skReq EXCEPT ![t].step = "write", ![t].keys = skRows]
    /\ UNCHANGED <<skRows, skFile, skBash, skAsked, skSkewed>>

\* Faulty variant: with no key left there is nothing to write.
WriteSomeKeys(t) ==
    /\ SkAt(t, "write")
    /\ skFile' = IF skReq[t].keys = {} THEN skFile ELSE skReq[t].keys
    /\ SkGoes(t, "shell")
    /\ UNCHANGED <<skRows, skBash, skAsked, skSkewed>>

\* sync_authorized_keys: the file, or its removal.
WriteKeys(t) ==
    /\ SkAt(t, "write")
    /\ skFile' = skReq[t].keys
    /\ SkGoes(t, "shell")
    /\ UNCHANGED <<skRows, skBash, skAsked, skSkewed>>

\* An unlink that fails is passed over in silence.
UnlinkPassedOver(t) ==
    /\ SkAt(t, "write") /\ skReq[t].keys = {} /\ skFile # {}
    /\ SkGoes(t, "shell")
    /\ skSkewed' = TRUE
    /\ UNCHANGED <<skRows, skFile, skBash, skAsked>>

\* set_user_shell; a chsh that fails is passed over too.
SetShell(t) ==
    /\ SkAt(t, "shell")
    /\ \E ok \in BOOLEAN :
          /\ skBash' = IF ok THEN skReq[t].keys # {} ELSE skBash
          /\ skSkewed' = ((skSkewed \/ ~ok) /\ ~(ok /\ skReq[t].alone /\ skFile = skReq[t].keys))
    /\ skReq' = [skReq EXCEPT ![t] = SkIdle]
    /\ UNCHANGED <<skRows, skFile, skAsked>>

\* The file cannot be written, or the panel dies.
SkRaises(t) ==
    /\ ~SkAt(t, "idle")
    /\ skReq' = [skReq EXCEPT ![t] = SkIdle]
    /\ skSkewed' = TRUE
    /\ UNCHANGED <<skRows, skFile, skBash, skAsked>>

SshNext ==
    \E t \in SkThreads :
       \/ ReadKeys(t) \/ WriteKeys(t) \/ UnlinkPassedOver(t) \/ SetShell(t) \/ SkRaises(t)
       \/ \E k \in SkKeys : AddKey(t, k) \/ RevokeKey(t, k)

SshSpec == SkInit /\ [][SshNext]_skVars

-----------------------------------------------------------------------------
SshTypeOK ==
    /\ skRows \subseteq SkKeys /\ skFile \subseteq SkKeys
    /\ skReq \in [SkThreads -> [step : {"idle", "read", "write", "shell"},
                                keys : SUBSET SkKeys, alone : BOOLEAN]]

\* "each user's authorized_keys file is kept in sync with their active keys"
\* (models.py 440-441): so it is after every request that ran alone and to its
\* end, whatever overlapping or broken requests had left.
KeysInSync ==
    (\A t \in SkThreads : SkAt(t, "idle")) /\ ~skSkewed =>
        skFile = skRows /\ skBash = (skRows # {})
=============================================================================
