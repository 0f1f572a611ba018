------------------------------ MODULE FileTree ------------------------------
(***************************************************************************)
(* services/files.py and routers/files.py: what the file manager does to   *)
(* the tree of a site.  An operation looks at the tree, decides, and then  *)
(* acts, in one or several calls of the file system; other requests and    *)
(* the job that unpacks an archive do the same in between.  Uploads are in *)
(* module ChunkedUpload.                                                   *)
(***************************************************************************)
EXTENDS Integers, SequencesExt

CONSTANTS
    FtThreads,   \* threads of requests, and the worker's
    FtNames,
    FtFolder, FtItem,      \* names of the folder and the file there at first
    FtData,                \* contents of files
    FtHtml, FtText,        \* those of the two files
    FtDepth,     \* bound: the longest path
    FtMaxOps     \* bound: operations

ASSUME FileTreeAssumption ==
    /\ FtDepth \in Nat /\ FtDepth >= 2
    /\ {FtFolder, FtItem} \subseteq FtNames /\ FtFolder # FtItem

FtPaths  == UNION {[1..n -> FtNames] : n \in 1..FtDepth}
FtParent(p) == Front(p)
FtSite   == "site"   \* the owner of everything in the tree
FtRoot   == "root"   \* the panel's own user

VARIABLES
    ftTree,      \* what is there, by its path
    ftThread,    \* what each thread is doing
    ftBroken,    \* history: where operations have ended half-way, not given
                 \* all of it to its owner, or given away what another one had
                 \* changed meanwhile
    ftOps

ftVars == <<ftTree, ftThread, ftBroken, ftOps>>

FtDir(o)     == [kind |-> "dir", owner |-> o]
FtFile(c, o) == [kind |-> "file", data |-> c, owner |-> o]
FtIdle       == [step |-> "idle"]

FtHas(p)     == p \in DOMAIN ftTree
FtIsDir(p)   == p = <<>> \/ (FtHas(p) /\ ftTree[p].kind = "dir")
FtIsFile(p)  == FtHas(p) /\ ftTree[p].kind = "file"
Under(p)     == {q \in DOMAIN ftTree : IsPrefix(p, q)}
FtChildren(p) == {q \in DOMAIN ftTree : q # p /\ FtParent(q) = p}
\* The path of q once the tree at p is at d.
Moved(q, p, d) == d \o SubSeq(q, Len(p) + 1, Len(q))

FileTreeInit ==
    /\ ftTree = [p \in {<<FtFolder>>, <<FtFolder, FtItem>>, <<FtItem>>} |->
                   IF p = <<FtFolder>> THEN FtDir(FtSite)
                   ELSE FtFile(IF p = <<FtItem>> THEN FtHtml ELSE FtText, FtSite)]
    /\ ftThread = [t \in FtThreads |-> FtIdle]
    /\ ftBroken = {}
    /\ ftOps = 0

-----------------------------------------------------------------------------
(* The request, as far as it looks at the tree.  stale: the tree has changed *)
(* since.                                                                    *)

FtAsk(t, r) ==
    /\ ftThread[t] = FtIdle /\ ftOps < FtMaxOps
    /\ ftOps' = ftOps + 1
    /\ ftThread' = [ftThread EXCEPT ![t] = r]
    /\ UNCHANGED <<ftTree, ftBroken>>

FtOwner(p) == IF p = <<>> THEN FtSite ELSE IF FtHas(p) THEN ftTree[p].owner ELSE FtRoot

\* src: what is copied, moved or deleted; dst: where; owner: whose it will be,
\* the source's if it is moved or written over, else the folder's.
FtOp(step, src, dst) ==
    [step |-> step, src |-> src, dst |-> dst, left |-> {}, stale |-> FALSE,
     owner |-> FtOwner(IF step = "move" \/ (step = "write" /\ FtHas(src)) THEN src ELSE FtParent(dst))]

\* write_text: of a new file or of one that is there.
AskWrite(t) == \E p \in FtPaths : ~FtIsDir(p) /\ FtAsk(t, FtOp("write", p, p))

\* create_directory, create_file, create_archive.
AskNew(t) ==
    \E p \in FtPaths, step \in {"mkdir", "touch", "zip"} : ~FtHas(p) /\ FtAsk(t, FtOp(step, p, p))

\* Faulty variant: the new name is not looked for.
AskRenameAnyway(t) ==
    \E p \in FtPaths, n \in FtNames : FtAsk(t, FtOp("rename", p, Append(FtParent(p), n)))

\* rename: the item itself is not looked for.
AskRename(t) ==
    \E p \in FtPaths, n \in FtNames :
        LET d == Append(FtParent(p), n) IN
        ~FtHas(d) /\ FtAsk(t, FtOp("rename", p, d))

\* move_item and copy_item to another folder, the bulk ones one by one.
AskMoveOrCopy(t) ==
    \E p \in DOMAIN ftTree, q \in {<<>>} \cup DOMAIN ftTree, step \in {"move", "copy"} :
        LET d == Append(q, Last(p)) IN
        /\ FtIsDir(q) /\ ~FtHas(d)
        /\ ~(FtIsDir(p) /\ IsPrefix(p, d))
        /\ Len(d) <= FtDepth
        /\ FtAsk(t, FtOp(step, p, d))

\* copy_item in place and extract_archive, with a name that is free.
AskBeside(t) ==
    \E p \in DOMAIN ftTree, n \in FtNames, step \in {"copy", "extract"} :
        LET d == Append(FtParent(p), n) IN
        /\ step = "extract" => FtIsFile(p)
        /\ ~FtHas(d) /\ FtAsk(t, FtOp(step, p, d))

AskUnlink(t) == \E p \in FtPaths : FtAsk(t, FtOp("delete", p, p))

-----------------------------------------------------------------------------
(* The calls *)

\* Every other operation under way has looked at a tree that is no longer so.
FtStale(t, r) ==
    ftThread' = [s \in FtThreads |->
                   IF s = t THEN r
                   ELSE IF ftThread[s] = FtIdle THEN FtIdle ELSE [ftThread[s] EXCEPT !.stale = TRUE]]

Acts(t, tree, r) ==
    /\ ftTree' = tree
    /\ FtStale(t, r)
    /\ UNCHANGED <<ftBroken, ftOps>>

FtAt(t, step) == ftThread[t].step = step
FtThen(t, step) == [ftThread[t] EXCEPT !.step = step]
FtSrc(t) == ftThread[t].src
FtDst(t) == ftThread[t].dst
FtPut(p, n) == [q \in DOMAIN ftTree \cup {p} |-> IF q = p THEN n ELSE ftTree[q]]
FtCut(ps) == [p \in DOMAIN ftTree \ ps |-> ftTree[p]]

\* open(.., "w") keeps the owner of a file that is there.
WriteFile(t) ==
    /\ FtAt(t, "write") \/ FtAt(t, "zip")
    /\ FtIsDir(FtParent(FtDst(t))) /\ ~FtIsDir(FtDst(t))
    /\ \E c \in FtData :
          Acts(t, FtPut(FtDst(t), FtFile(c, IF FtHas(FtDst(t)) THEN ftTree[FtDst(t)].owner ELSE FtRoot)),
               FtThen(t, "chown"))

MakeDirectory(t) ==
    /\ FtAt(t, "mkdir")
    /\ FtIsDir(FtParent(FtDst(t))) /\ ~FtHas(FtDst(t))
    /\ Acts(t, FtPut(FtDst(t), FtDir(FtRoot)), FtThen(t, "chown"))

\* touch does not mind that something is there.
TouchFile(t) ==
    /\ FtAt(t, "touch") /\ FtIsDir(FtParent(FtDst(t)))
    /\ \E c \in FtData :
          Acts(t, IF FtHas(FtDst(t)) THEN ftTree ELSE FtPut(FtDst(t), FtFile(c, FtRoot)), FtThen(t, "chown"))

\* rename(2): a file replaces a file, a folder an empty folder.
Renames(p, d) ==
    /\ FtHas(p) /\ FtIsDir(FtParent(d)) /\ (~IsPrefix(p, d) \/ p = d)
    /\ FtHas(d) => FtIsDir(p) = FtIsDir(d) /\ (FtIsDir(d) => FtChildren(d) = {})
    /\ \A q \in Under(p) : Len(Moved(q, p, d)) <= FtDepth

FtRenamed(p, d) ==
    LET kept == DOMAIN ftTree \ (Under(p) \cup {d})
        new  == {Moved(q, p, d) : q \in Under(p)}
    IN  [q \in kept \cup new |-> IF q \in new THEN ftTree[Moved(q, d, p)] ELSE ftTree[q]]

RenameItem(t) ==
    /\ FtAt(t, "rename") /\ Renames(FtSrc(t), FtDst(t))
    /\ Acts(t, FtRenamed(FtSrc(t), FtDst(t)), FtIdle)

\* shutil.move: into the destination, if that is a folder by now.
MoveItem(t) ==
    /\ FtAt(t, "move")
    /\ LET d == IF FtIsDir(FtDst(t)) THEN Append(FtDst(t), Last(FtSrc(t))) ELSE FtDst(t) IN
       /\ FtIsDir(FtDst(t)) => ~FtHas(d)
       /\ Renames(FtSrc(t), d)
       /\ Acts(t, FtRenamed(FtSrc(t), d), FtThen(t, "chown"))

\* copy2: into the destination, if that is a folder by now.
CopyTarget(t) == IF FtIsDir(FtDst(t)) THEN Append(FtDst(t), Last(FtSrc(t))) ELSE FtDst(t)

CopyFile(t) ==
    /\ FtAt(t, "copy") /\ FtIsFile(FtSrc(t))
    /\ LET d == CopyTarget(t) IN
       /\ FtIsDir(FtParent(d)) /\ ~FtIsDir(d) /\ Len(d) <= FtDepth
       /\ Acts(t, FtPut(d, FtFile(ftTree[FtSrc(t)].data, IF FtHas(d) THEN ftTree[d].owner ELSE FtRoot)),
               FtThen(t, "chown"))

\* The write raises, or the panel dies in it, with the file opened: a text, an
\* archive or a copy cut short, which stays whose it is (files.py 310, 447,
\* 615-618).
WriteIsCut(t) ==
    /\ ftThread[t] # FtIdle
    /\ \E d \in {FtDst(t), CopyTarget(t)}, c \in FtData :
        /\ \/ (FtAt(t, "write") \/ FtAt(t, "zip")) /\ d = FtDst(t)
           \/ FtAt(t, "copy") /\ FtIsFile(FtSrc(t)) /\ d = CopyTarget(t)
        /\ FtIsDir(FtParent(d)) /\ ~FtIsDir(d) /\ Len(d) <= FtDepth
        /\ ftTree' = FtPut(d, FtFile(c, IF FtHas(d) THEN ftTree[d].owner ELSE FtRoot))
        /\ FtStale(t, FtIdle)
        /\ ftBroken' = ftBroken \cup {d}
        /\ UNCHANGED ftOps

\* copytree and extraction make their folder, which must not be there; left:
\* what they put in it.
MakeFolder(t) ==
    /\ (FtAt(t, "copy") /\ FtIsDir(FtSrc(t))) \/ FtAt(t, "extract")
    /\ FtAt(t, "extract") => FtIsFile(FtSrc(t))
    /\ FtIsDir(FtParent(FtDst(t))) /\ ~FtHas(FtDst(t)) /\ Len(FtDst(t)) < FtDepth
    /\ Acts(t, FtPut(FtDst(t), FtDir(FtRoot)),
            [FtThen(t, "fill") EXCEPT !.left =
                IF FtAt(t, "copy") THEN FtChildren(FtSrc(t)) ELSE {Append(FtSrc(t), n) : n \in FtNames}])

\* One file of them: of the folder, or of the archive.
FillFolder(t) ==
    /\ FtAt(t, "fill")
    /\ \E q \in ftThread[t].left :
          LET d == Append(FtDst(t), Last(q)) IN
          /\ FtIsDir(FtDst(t)) /\ ~FtIsDir(d)
          /\ FtIsFile(q) \/ FtIsFile(FtSrc(t))
          /\ Acts(t, FtPut(d, FtFile(ftTree[IF FtIsFile(q) THEN q ELSE FtSrc(t)].data, FtRoot)),
                  [ftThread[t] EXCEPT !.left = @ \ {q}])

FolderFilled(t) ==
    /\ FtAt(t, "fill") /\ ftThread[t].left = {}
    /\ ftThread' = [ftThread EXCEPT ![t] = FtThen(t, "chown")]
    /\ UNCHANGED <<ftTree, ftBroken, ftOps>>

GivesAway(t, ps) ==
    /\ ftTree' = [p \in DOMAIN ftTree |->
                     IF p \in ps THEN [ftTree[p] EXCEPT !.owner = ftThread[t].owner] ELSE ftTree[p]]
    /\ FtStale(t, FtIdle)
    /\ UNCHANGED ftOps

Restores(t, ps) ==
    /\ FtAt(t, "chown")
    /\ GivesAway(t, ps)
    /\ ftBroken' = IF ftThread[t].stale \/ ftThread[t].owner = FtRoot THEN ftBroken \cup {FtDst(t)} ELSE ftBroken

\* Faulty variant: only the item itself.
RestoreOwnerOfItem(t) == Restores(t, {FtDst(t)})

\* _restore_owner, _restore_owner_recursive.
RestoreOwner(t) == Restores(t, Under(FtDst(t)))

\* A chown that fails is logged and passed over; the walk raises, or the panel
\* dies before it or in it.
RestoreIsCut(t) ==
    /\ FtAt(t, "chown")
    /\ \E ps \in SUBSET Under(FtDst(t)) : GivesAway(t, ps)
    /\ ftBroken' = ftBroken \cup {FtDst(t)}

\* unlink, or rmtree of what the folder holds when it is opened.
Unlink(t) ==
    /\ FtAt(t, "delete") /\ FtIsFile(FtSrc(t))
    /\ Acts(t, FtCut({FtSrc(t)}), FtIdle)

OpenFolder(t) ==
    /\ FtAt(t, "delete") /\ FtHas(FtSrc(t)) /\ FtIsDir(FtSrc(t))
    /\ ftThread' = [ftThread EXCEPT ![t] = [FtThen(t, "rm") EXCEPT !.left = FtChildren(FtSrc(t))]]
    /\ UNCHANGED <<ftTree, ftBroken, ftOps>>

UnlinkChild(t) ==
    /\ FtAt(t, "rm")
    /\ \E q \in ftThread[t].left :
          /\ FtHas(q) /\ FtChildren(q) = {}
          /\ Acts(t, FtCut({q}), [ftThread[t] EXCEPT !.left = @ \ {q}])

RemoveFolder(t) ==
    /\ FtAt(t, "rm") /\ ftThread[t].left = {}
    /\ FtHas(FtSrc(t)) /\ FtIsDir(FtSrc(t)) /\ FtChildren(FtSrc(t)) = {}
    /\ Acts(t, FtCut({FtSrc(t)}), FtIdle)

\* A call raises, as it must when its guard above does not hold, or the panel
\* dies before it: what was done stays.
FtRaises(t) ==
    /\ ftThread[t] # FtIdle /\ ~FtAt(t, "chown")
    /\ ftBroken' = IF FtAt(t, "fill") THEN ftBroken \cup {FtDst(t)} ELSE ftBroken
    /\ ftThread' = [ftThread EXCEPT ![t] = FtIdle]
    /\ UNCHANGED <<ftTree, ftOps>>

FileTreeNext ==
    \E t \in FtThreads :
       \/ AskWrite(t) \/ AskNew(t) \/ AskRename(t) \/ AskMoveOrCopy(t) \/ AskBeside(t) \/ AskUnlink(t)
       \/ WriteFile(t) \/ WriteIsCut(t) \/ MakeDirectory(t) \/ TouchFile(t) \/ RenameItem(t) \/ MoveItem(t) \/ CopyFile(t)
       \/ MakeFolder(t) \/ FillFolder(t) \/ FolderFilled(t) \/ RestoreOwner(t) \/ RestoreIsCut(t)
       \/ Unlink(t) \/ OpenFolder(t) \/ UnlinkChild(t) \/ RemoveFolder(t) \/ FtRaises(t)

FileTreeSpec == FileTreeInit /\ [][FileTreeNext]_ftVars

-----------------------------------------------------------------------------
\* The tree is one, and everything in it has a folder to be in.
FtTypeOK ==
    /\ DOMAIN ftTree \subseteq FtPaths
    /\ \A p \in DOMAIN ftTree : FtIsDir(FtParent(p))
    /\ \A p \in DOMAIN ftTree : ftTree[p].owner \in {FtSite, FtRoot}

\* When no operation is under way everything belongs to the site, which could
\* not touch it otherwise (files.py 857-871).  The exceptions: a write, a copy,
\* an archive or an extraction that ended half-way, a change of owner that
\* failed, which the code passes over, and two operations at once.
OwnedByTheSite ==
    (\A t \in FtThreads : ftThread[t] = FtIdle) /\ ftBroken = {} =>
        \A p \in DOMAIN ftTree : ftTree[p].owner = FtSite

FtDataOf == {ftTree[p].data : p \in {q \in DOMAIN ftTree : ftTree[q].kind = "file"}}

\* The only copy of some data goes when it is deleted or written over by name,
\* and otherwise only by an operation that had looked at another tree: the
\* checks of rename, move, copy and archive are not repeated by their calls
\* (files.py 348-476, 592).
NoSilentLoss ==
    [][\A c \in FtDataOf \ FtDataOf' :
         \E t \in FtThreads : /\ ftThread[t] # FtIdle /\ ftThread'[t] # ftThread[t]
                              /\ ftThread[t].step \in {"delete", "rm", "write"} \/ ftThread[t].stale]_ftVars
=============================================================================
