--------------------------- MODULE ChunkedUpload ---------------------------
(***************************************************************************)
(* The uploads of services/files.py and routers/files.py, and those of     *)
(* database dumps, which services/databases.py and routers/databases.py do *)
(* in the same way: the browser sends a file in chunks, the panel appends  *)
(* them to a hidden part and renames it at the end.  Chunks are appended   *)
(* on the event loop, one after the other; init, complete and abort run in *)
(* threads beside it.                                                      *)
(*                                                                         *)
(* Every upload has a name of its own here: which name init_upload chooses *)
(* to keep both files, and that two uploads may choose the same, is left   *)
(* out.                                                                    *)
(***************************************************************************)
EXTENDS Integers, Sequences

CONSTANTS
    Uploads,
    Dumps,             \* those that are dumps for an import
    UpChunks,          \* the chunks of a file
    MaxChunkAttempts   \* MAX_CHUNK_ATTEMPTS of the script

ASSUME ChunkedUploadAssumption ==
    /\ Dumps \subseteq Uploads
    /\ UpChunks \in Nat \ {0} /\ MaxChunkAttempts \in Nat \ {0}

VARIABLES
    upClient,    \* the page: phase, the chunk it sends, the attempt
    upReq,       \* chunks on their way, of this attempt or an earlier one
    upCalls,     \* complete and abort requests on their way
    upNext,      \* the next chunk of each session, or NoSession
    upPart,      \* what each part holds, or NoPart; 0 is a piece of a chunk
    upLoop,      \* the chunk the event loop is about to write, or NoReq
    upOut,       \* the file in its place, or the dump its import job is to
                 \* read: what it holds, or NoPart
    upTorn,      \* history: uploads a write has failed in the middle for
    upLoose      \* history: parts whose session was lost with the panel, or was
                 \* discarded while a chunk was being written

upVars == <<upClient, upReq, upCalls, upNext, upPart, upLoop, upOut, upTorn, upLoose>>

NoSession == 0
NoPart    == <<-1>>
NoReq     == [up |-> "none"]
Page(phase, chunk, try) == [phase |-> phase, chunk |-> chunk, try |-> try]
Whole     == [i \in 1..UpChunks |-> i]

UpInit ==
    /\ upClient = [u \in Uploads |-> Page("new", 0, 0)]
    /\ upReq = {} /\ upCalls = {}
    /\ upNext = [u \in Uploads |-> NoSession]
    /\ upPart = [u \in Uploads |-> NoPart]
    /\ upLoop = NoReq
    /\ upOut = [u \in Uploads |-> NoPart]
    /\ upTorn = {} /\ upLoose = {}

-----------------------------------------------------------------------------
(* The page. *)

\* uploadChunk: the next chunk, or the same again.
Send(u, chunk, try) ==
    /\ upClient' = [upClient EXCEPT ![u] = Page("sending", chunk, try)]
    /\ upReq' = upReq \cup {[up |-> u, chunk |-> chunk, try |-> try]}

Waits(u, r) == upClient[u] = Page("sending", r.chunk, r.try)

\* Fails or is cancelled: an abort is sent and nobody waits for its answer.
ClientStops(u) ==
    /\ upClient' = [upClient EXCEPT ![u] = Page("stopped", 0, 0)]
    /\ upCalls' = upCalls \cup {<<"abort", u>>}

\* fetch rejects, or the row is cancelled between two chunks.
ClientGivesUp(u) ==
    /\ upClient[u].phase \in {"sending", "completing"}
    /\ ClientStops(u)
    /\ UNCHANGED <<upReq, upNext, upPart, upLoop, upOut, upTorn, upLoose>>

\* An answer that is not ok, from the panel or from a proxy that has not
\* waited for it: the request may still be on its way.
ClientRetries(u) ==
    /\ upClient[u].phase = "sending"
    /\ IF upClient[u].try < MaxChunkAttempts
       THEN Send(u, upClient[u].chunk, upClient[u].try + 1) /\ UNCHANGED upCalls
       ELSE ClientStops(u) /\ UNCHANGED upReq
    /\ UNCHANGED <<upNext, upPart, upLoop, upOut, upTorn, upLoose>>

\* The panel answers r, and the page has the answer if it still waits for it:
\* an answer that is lost is one to a request given up just before.
Answer(r, ok) ==
    /\ upReq' = (upReq \ {r}) \cup
                (IF ok /\ Waits(r.up, r) /\ r.chunk < UpChunks
                 THEN {[up |-> r.up, chunk |-> r.chunk + 1, try |-> 1]} ELSE {})
    /\ IF ok /\ Waits(r.up, r)
       THEN IF r.chunk < UpChunks
            THEN /\ upClient' = [upClient EXCEPT ![r.up] = Page("sending", r.chunk + 1, 1)]
                 /\ UNCHANGED upCalls
            ELSE /\ upClient' = [upClient EXCEPT ![r.up] = Page("completing", 0, 0)]
                 /\ upCalls' = upCalls \cup {<<"complete", r.up>>}
       ELSE UNCHANGED <<upClient, upCalls>>

-----------------------------------------------------------------------------
(* The panel. *)

\* Faulty variant: the session goes and its part stays.
SessionsAndPartsLeft(gone) ==
    /\ upNext' = [u \in Uploads |-> IF u \in gone THEN NoSession ELSE upNext[u]]
    /\ UNCHANGED upPart

\* _discard_upload_session, with the part only where there was a session.
WithoutSessions(gone) ==
    /\ upNext' = [u \in Uploads |-> IF u \in gone THEN NoSession ELSE upNext[u]]
    /\ upPart' = [u \in Uploads |-> IF u \in gone /\ upNext[u] # NoSession
                                    THEN NoPart ELSE upPart[u]]

\* init_upload and init_import_upload.
InitUpload(u) ==
    /\ upClient[u].phase = "new"
    /\ upNext' = [upNext EXCEPT ![u] = 1]
    /\ upPart' = [upPart EXCEPT ![u] = <<>>]
    /\ Send(u, 1, 1)
    /\ UNCHANGED <<upCalls, upLoop, upOut, upTorn, upLoose>>

\* Every init, of uploads that are not followed here too, first discards the
\* sessions that have been idle for two hours.
SweepExpired(u) ==
    /\ upNext[u] # NoSession
    /\ WithoutSessions({u})
    /\ UNCHANGED <<upClient, upReq, upCalls, upLoop, upOut, upTorn, upLoose>>

\* append_chunk up to the file: no session, or a chunk that is ahead.  That no
\* more comes than the file has follows: a chunk is written only in its turn.
Unacceptable(r) == upNext[r.up] = NoSession \/ r.chunk > upNext[r.up]

\* "Already applied -- a client retry after a dropped response".
AlreadyApplied(r) == upNext[r.up] # NoSession /\ r.chunk < upNext[r.up]

TakeChunk(r) ==
    /\ upLoop = NoReq
    /\ IF Unacceptable(r) THEN Answer(r, FALSE) /\ UNCHANGED upLoop
       ELSE IF AlreadyApplied(r) THEN Answer(r, TRUE) /\ UNCHANGED upLoop
       ELSE upLoop' = r /\ UNCHANGED <<upClient, upReq, upCalls>>
    /\ UNCHANGED <<upNext, upPart, upOut, upTorn, upLoose>>

\* open(part, "ab") makes the part anew when it has been discarded.
Appended(u, pieces) ==
    /\ upPart' = [upPart EXCEPT ![u] = IF @ = NoPart THEN pieces ELSE @ \o pieces]
    /\ upLoose' = IF upNext[u] = NoSession THEN upLoose \cup {u} ELSE upLoose

Counted(u) ==
    upNext' = IF upNext[u] = NoSession THEN upNext ELSE [upNext EXCEPT ![u] = @ + 1]

WriteChunk ==
    /\ upLoop # NoReq
    /\ Appended(upLoop.up, <<upLoop.chunk>>)
    /\ Counted(upLoop.up)
    /\ Answer(upLoop, TRUE)
    /\ upLoop' = NoReq
    /\ UNCHANGED <<upOut, upTorn>>

\* Faulty variant: the chunk is counted before it is written.
WriteFailsCounted ==
    /\ upLoop # NoReq
    /\ \/ Appended(upLoop.up, <<0>>) /\ upTorn' = upTorn \cup {upLoop.up}
       \/ UNCHANGED <<upPart, upTorn, upLoose>>
    /\ Counted(upLoop.up)
    /\ Answer(upLoop, FALSE)
    /\ upLoop' = NoReq
    /\ UNCHANGED upOut

\* The disk is full in the middle of a chunk, or before it: what was written
\* stays, the session does not know of it.
WriteChunkFails ==
    /\ upLoop # NoReq
    /\ \/ Appended(upLoop.up, <<0>>) /\ upTorn' = upTorn \cup {upLoop.up}
       \/ UNCHANGED <<upPart, upTorn, upLoose>>
    /\ Answer(upLoop, FALSE)
    /\ upLoop' = NoReq
    /\ UNCHANGED <<upNext, upOut>>

CompleteArrives(u) ==
    /\ <<"complete", u>> \in upCalls
    /\ upCalls' = upCalls \ {<<"complete", u>>}
    /\ UNCHANGED <<upReq, upLoop, upTorn, upLoose>>

Finished(u, phase) ==
    upClient' = [upClient EXCEPT ![u] = IF @.phase = "completing" THEN Page(phase, 0, 0) ELSE @]

\* complete_upload and complete_import_upload: the count of the session, not
\* the part, must be right.  The import job of a dump is enqueued.
CompleteUpload(u) ==
    /\ upNext[u] = UpChunks + 1 /\ upPart[u] # NoPart
    /\ CompleteArrives(u)
    /\ upOut' = [upOut EXCEPT ![u] = upPart[u]]
    /\ upPart' = [upPart EXCEPT ![u] = NoPart]
    /\ upNext' = [upNext EXCEPT ![u] = NoSession]
    /\ Finished(u, "done")

\* The upload is gone or short, or its database is no longer managed, which
\* discards the dump.
CompleteRefused(u) ==
    /\ CompleteArrives(u)
    /\ \/ upNext[u] # UpChunks + 1 /\ UNCHANGED <<upNext, upPart>>
       \/ u \in Dumps /\ WithoutSessions({u})
    /\ Finished(u, "stopped")
    /\ UNCHANGED upOut

AbortUpload(u) ==
    /\ <<"abort", u>> \in upCalls
    /\ upCalls' = upCalls \ {<<"abort", u>>}
    /\ WithoutSessions({u})
    /\ UNCHANGED <<upClient, upReq, upLoop, upOut, upTorn, upLoose>>

\* import_database reads the dump; the job deletes it however it ends.
ImportDump(u) ==
    /\ u \in Dumps /\ upOut[u] # NoPart
    /\ upOut' = [upOut EXCEPT ![u] = NoPart]
    /\ UNCHANGED <<upClient, upReq, upCalls, upNext, upPart, upLoop, upTorn, upLoose>>

\* The panel is restarted: no session is left, and no request.
UpRestart ==
    /\ upNext' = [u \in Uploads |-> NoSession]
    /\ upReq' = {} /\ upCalls' = {} /\ upLoop' = NoReq
    /\ upLoose' = upLoose \cup {u \in Uploads : upPart[u] # NoPart}
    /\ UNCHANGED <<upClient, upPart, upOut, upTorn>>

UpNext ==
    \/ \E u \in Uploads :
          \/ InitUpload(u) \/ SweepExpired(u) \/ ClientGivesUp(u) \/ ClientRetries(u)
          \/ CompleteUpload(u) \/ CompleteRefused(u)
          \/ AbortUpload(u) \/ ImportDump(u)
    \/ \E r \in upReq : TakeChunk(r)
    \/ WriteChunk \/ WriteChunkFails \/ UpRestart

UpSpec == UpInit /\ [][UpNext]_upVars

-----------------------------------------------------------------------------
UpPhases == {"new", "sending", "completing", "done", "stopped"}

UpTypeOK ==
    /\ \A u \in Uploads :
          /\ upClient[u].phase \in UpPhases
          /\ upNext[u] # NoSession => upNext[u] \in 1..(UpChunks + 1)
    /\ \A r \in upReq : r.chunk \in 1..UpChunks /\ r.try \in 1..MaxChunkAttempts
    /\ upLoop = NoReq \/ upLoop \in upReq

\* A file that is put in place, or handed to an import, holds every chunk once
\* and in order, whatever was sent twice, late or by two requests at once,
\* unless a write failed in the middle: a session counts chunks and does not
\* look at its part.
DeliveredIsWhole ==
    \A u \in Uploads : upOut[u] = NoPart \/ upOut[u] = Whole \/ u \in upTorn

\* A part without a session, which nothing would ever delete and no listing
\* shows, is left only by a restart of the panel, or by a chunk that was being
\* written while its upload was discarded.
PartsHaveSessions ==
    \A u \in Uploads : upPart[u] # NoPart => upNext[u] # NoSession \/ u \in upLoose

\* An upload ends as its whole file or as nothing.
UploadsAreWhole == DeliveredIsWhole /\ PartsHaveSessions

=============================================================================
