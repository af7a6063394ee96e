------------------------------- MODULE Commit -------------------------------
(***************************************************************************)
(* CommitQCOW2Overlay of internal/ops/commit.go: fold a qcow2 overlay into *)
(* its backing file, replacing both by files written aside and renamed     *)
(* into place, on a file system that may crash between any two system      *)
(* calls.                                                                  *)
(*                                                                         *)
(* The file system is the external part. A directory keeps its changes in  *)
(* memory until it is synced: after a crash it is found as it was at any   *)
(* moment since its last fsync. A file that was not synced may be torn.    *)
(* The overlay and its backing file may be in different directories, whose *)
(* changes reach the disk independently.                                   *)
(***************************************************************************)
EXTENDS Naturals, FiniteSets

CONSTANTS
  NumBlocks,       \* blocks of the guest disk, each copied in one piece
  OverlayDir,      \* filepath.Dir(overlayPath)
  BackingDir,      \* filepath.Dir(backingPath)
  BackingFormat,   \* what image.DetectFormat finds in the backing file
  BackingReadAs,   \* how qcow2.openBackingAny reads it (from its extension)
  MayFail,         \* system calls may fail, reads come back short
  MayCrash,        \* the machine may go down
  MaxRuns          \* bound: how often CommitQCOW2Overlay is called

ASSUME SizesAssumption == NumBlocks \in Nat /\ MaxRuns \in Nat
ASSUME FlagsAssumption == MayFail \in BOOLEAN /\ MayCrash \in BOOLEAN

Blocks == 1 .. NumBlocks
Dirs   == {OverlayDir, BackingDir}
Paths  == {"overlay", "backing", "tmpBacking", "tmpOverlay", "marker"}
Dir(p) == IF p \in {"backing", "tmpBacking"} THEN BackingDir ELSE OverlayDir

\* Files are named by what they are and by the call that made them (0: before
\* the first call).
Files  == {"overlay", "backing", "marker"} \X (0 .. MaxRuns)
NoFile == <<"none", 0>>
OldOverlay == <<"overlay", 0>>
OldBacking == <<"backing", 0>>
Marker     == <<"marker", 0>>      \* what it holds matters to nobody

\* A block of a file: not allocated, never written, the old backing file's
\* data, the overlay's data.
Cells == {"hole", "zero", "base", "over"}

VARIABLES
  pc,       \* the next statement of CommitQCOW2Overlay
  run,      \* calls made so far
  off,      \* copyReaderToWriter: the next block
  outcome,  \* how the last call ended
  names,    \* the directories as the running system sees them
  onDisk,   \* directory -> the states of it a crash may leave
  dirty,    \* files with data that was not synced
  torn,     \* files that lost data in a crash
  body      \* the blocks of the files

fsVars == <<names, onDisk, dirty, torn, body>>
vars   == <<pc, run, off, outcome, fsVars>>

NewBacking == <<"backing", run>>
NewOverlay == <<"overlay", run>>

Init ==
  /\ pc = "idle" /\ run = 0 /\ off = 1 /\ outcome = "none"
  /\ names = [p \in Paths |-> CASE p = "overlay" -> OldOverlay
                                [] p = "backing" -> OldBacking
                                [] OTHER -> NoFile]
  /\ onDisk = [d \in Dirs |-> {names}]
  /\ dirty = {} /\ torn = {}
  /\ \E stored \in SUBSET Blocks :     \* what the overlay holds itself
       body = [f \in Files |-> [b \in Blocks |->
                 CASE f = OldBacking -> "base"
                   [] f = OldOverlay /\ b \in stored -> "over"
                   [] OTHER -> "hole"]]

-----------------------------------------------------------------------------
(* The file system.                                                        *)

\* One directory operation: the entries of n replace those in memory.
SetNames(d, n) ==
  /\ names' = n
  /\ onDisk' = [onDisk EXCEPT ![d] = @ \union {n}]

Link(p, f)   == SetNames(Dir(p), [names EXCEPT ![p] = f])
Remove(p)    == Link(p, NoFile)
Rename(p, q) == SetNames(Dir(q), [names EXCEPT ![q] = names[p], ![p] = NoFile])
SyncDir(d)   == onDisk' = [onDisk EXCEPT ![d] = {names}] /\ UNCHANGED names

\* Whether a chain of two files found under n can be opened, and what its
\* block b then reads as: a backing file of another format than the one its
\* extension announces is taken for a raw disk.
Readable(n) ==
  /\ n["overlay"] # NoFile /\ n["overlay"] \notin torn
  /\ n["backing"] # NoFile /\ n["backing"] \notin torn

ReadBacking(f, b) ==
  IF BackingReadAs = BackingFormat THEN body[f][b] ELSE "container"

ReadChain(o, f, b) ==
  IF body[o][b] = "hole" THEN ReadBacking(f, b) ELSE body[o][b]

View(b) == ReadChain(names["overlay"], names["backing"], b)

-----------------------------------------------------------------------------
(* CommitQCOW2Overlay, one system call at a time.                          *)

Open ==         \* open the chain and detect the format of the backing file
  /\ pc = "idle" /\ run < MaxRuns /\ Readable(names)
  /\ run' = run + 1
  /\ pc' = "mark" /\ outcome' = "none"
  /\ UNCHANGED <<off, fsVars>>

Mark ==         \* os.WriteFile of the marker, truncating the one left by a crash
  /\ pc = "mark"
  /\ Link("marker", Marker)
  /\ dirty' = dirty \union {Marker}
  /\ pc' = "sync_mark"
  /\ UNCHANGED <<run, off, outcome, torn, body>>

SyncFile(p) ==
  /\ dirty' = dirty \ {names[p]}
  /\ UNCHANGED <<run, off, outcome, names, onDisk, torn, body>>

SyncDirectory(d) ==
  /\ SyncDir(d)
  /\ UNCHANGED <<run, off, dirty, torn, body>>

SyncMark    == pc = "sync_mark" /\ pc' = "sync_mark_dir" /\ SyncFile("marker")
\* Mutant: the entry of the marker is not synced.
SyncMarkDirSkipped ==
  /\ pc = "sync_mark_dir" /\ pc' = "remove_tmp"
  /\ UNCHANGED <<run, off, outcome, fsVars>>

SyncMarkDir ==
  /\ pc = "sync_mark_dir" /\ pc' = "remove_tmp"
  /\ SyncDirectory(OverlayDir) /\ UNCHANGED outcome

\* A leftover of an earlier call. Its errors are ignored: a file that stays is
\* truncated by the next call, which comes to the same.
RemoveTmp ==
  /\ pc = "remove_tmp"
  /\ Remove("tmpBacking")
  /\ pc' = "create"
  /\ UNCHANGED <<run, off, outcome, dirty, torn, body>>

\* A fresh file reads as zeros.
CreateTmp ==
  /\ pc = "create"
  /\ Link("tmpBacking", NewBacking)
  /\ dirty' = dirty \union {NewBacking}
  /\ body' = [body EXCEPT ![NewBacking] = [b \in Blocks |-> "zero"]]
  /\ pc' = "copy" /\ off' = 1
  /\ UNCHANGED <<run, outcome, torn>>

\* Mutant: the loop runs while off <= size.
CopyBlockPastEnd ==
  /\ pc = "copy" /\ off \in 1 .. NumBlocks + 1
  /\ body' = [body EXCEPT ![NewBacking][off] = View(off)]
  /\ off' = off + 1
  /\ UNCHANGED <<pc, run, outcome, names, onDisk, dirty, torn>>

CopyBlock ==    \* readFullAt and WriteAt; a read of no bytes is passed over
  /\ pc = "copy" /\ off \in Blocks
  /\ \/ body' = [body EXCEPT ![NewBacking][off] = View(off)]
     \/ MayFail /\ UNCHANGED body
  /\ off' = off + 1
  /\ UNCHANGED <<pc, run, outcome, names, onDisk, dirty, torn>>

CloseTmp ==
  /\ pc = "copy" /\ off \notin Blocks
  /\ pc' = "sync_tmp"
  /\ UNCHANGED <<run, off, outcome, fsVars>>

SyncTmp == pc = "sync_tmp" /\ pc' = "verify" /\ SyncFile("tmpBacking")

Matches == \A b \in Blocks : body[NewBacking][b] = View(b)

Verify ==       \* ComparePaths in VerifyFull mode
  /\ pc = "verify" /\ Matches
  /\ pc' = "rename_backing"
  /\ UNCHANGED <<run, off, outcome, fsVars>>

RenameBacking ==
  /\ pc = "rename_backing"
  /\ Rename("tmpBacking", "backing")
  /\ pc' = "sync_backing_dir"
  /\ UNCHANGED <<run, off, outcome, dirty, torn, body>>

\* Mutant: the rename of the backing file is not synced before the overlay is
\* reset.
SyncBackingDirSkipped ==
  /\ pc = "sync_backing_dir" /\ pc' = "remove_tmp_overlay"
  /\ UNCHANGED <<run, off, outcome, fsVars>>

SyncBackingDir ==
  /\ pc = "sync_backing_dir" /\ pc' = "remove_tmp_overlay"
  /\ SyncDirectory(BackingDir) /\ UNCHANGED outcome

RemoveTmpOverlay ==
  /\ pc = "remove_tmp_overlay"
  /\ Remove("tmpOverlay")
  /\ pc' = "create_overlay"
  /\ UNCHANGED <<run, off, outcome, dirty, torn, body>>

CreateOverlay ==     \* qcow2.Create with the same backing name, and Close
  /\ pc = "create_overlay"
  /\ Link("tmpOverlay", NewOverlay)
  /\ dirty' = dirty \union {NewOverlay}
  /\ body' = [body EXCEPT ![NewOverlay] = [b \in Blocks |-> "hole"]]
  /\ pc' = "sync_overlay"
  /\ UNCHANGED <<run, off, outcome, torn>>

SyncOverlay ==
  pc = "sync_overlay" /\ pc' = "rename_overlay" /\ SyncFile("tmpOverlay")

RenameOverlay ==
  /\ pc = "rename_overlay"
  /\ Rename("tmpOverlay", "overlay")
  /\ pc' = "sync_overlay_dir"
  /\ UNCHANGED <<run, off, outcome, dirty, torn, body>>

\* Mutant: the rename of the overlay is not synced before nil is returned.
SyncOverlayDirSkipped ==
  /\ pc = "sync_overlay_dir" /\ pc' = "unmark"
  /\ outcome' = "ok"
  /\ UNCHANGED <<run, off, fsVars>>

SyncOverlayDir ==
  /\ pc = "sync_overlay_dir" /\ pc' = "unmark"
  /\ SyncDirectory(OverlayDir) /\ outcome' = "ok"

Unmark ==       \* the deferred os.Remove of the marker
  /\ pc = "unmark"
  /\ Remove("marker")
  /\ pc' = "idle"
  /\ UNCHANGED <<run, off, outcome, dirty, torn, body>>

-----------------------------------------------------------------------------
(* The error returns.                                                      *)

\* The marker could not be written: its removal is not deferred yet.
MarkFails ==
  /\ pc = "mark" /\ MayFail
  /\ \/ UNCHANGED <<names, onDisk, dirty>>
     \/ Link("marker", Marker) /\ dirty' = dirty \union {Marker}
  /\ pc' = "idle" /\ outcome' = "error"
  /\ UNCHANGED <<run, off, torn, body>>

\* A temporary file could not be made. That of the backing file is left where
\* it is, that of the overlay removed.
CreateTmpFails ==
  /\ pc = "create" /\ MayFail
  /\ \/ UNCHANGED <<names, onDisk, dirty>>
     \/ Link("tmpBacking", NewBacking) /\ dirty' = dirty \union {NewBacking}
  /\ pc' = "unmark" /\ outcome' = "error"
  /\ UNCHANGED <<run, off, torn, body>>

\* Any other call that fails, or ComparePaths finding a difference: remove the
\* temporary file in hand.
Fails ==
  /\ \/ MayFail /\ pc \in {"sync_mark", "sync_mark_dir", "copy", "sync_tmp",
                          "verify", "rename_backing", "sync_backing_dir",
                          "create_overlay", "sync_overlay", "rename_overlay",
                          "sync_overlay_dir"}
     \/ pc = "verify" /\ ~Matches
  /\ CASE pc \in {"copy", "sync_tmp", "verify", "rename_backing"} ->
            Remove("tmpBacking")
       [] pc \in {"create_overlay", "sync_overlay", "rename_overlay"} ->
            Remove("tmpOverlay")
       [] OTHER -> UNCHANGED <<names, onDisk>>
  /\ pc' = "unmark" /\ outcome' = "error"
  /\ UNCHANGED <<run, off, dirty, torn, body>>

-----------------------------------------------------------------------------

\* The machine goes down and comes back: each directory is found as it was at
\* some moment since its last fsync, some of the unsynced files torn.
Crash ==
  /\ MayCrash
  /\ pc # "idle" \/ \E d \in Dirs : onDisk[d] # {names}
  /\ \E o \in onDisk[OverlayDir], f \in onDisk[BackingDir] :
       /\ OverlayDir = BackingDir => o = f
       /\ names' = [p \in Paths |-> IF Dir(p) = OverlayDir THEN o[p] ELSE f[p]]
  /\ onDisk' = [d \in Dirs |-> {names'}]
  /\ \E lost \in SUBSET dirty : torn' = torn \union lost
  /\ dirty' = {}
  /\ pc' = "idle" /\ outcome' = "crashed"
  /\ UNCHANGED <<run, off, body>>

\* All calls were made.
Terminated == pc = "idle" /\ run = MaxRuns /\ UNCHANGED vars

Step ==
  \/ Mark \/ SyncMark \/ SyncMarkDir \/ RemoveTmp \/ CreateTmp \/ CopyBlock
  \/ CloseTmp \/ SyncTmp \/ Verify \/ RenameBacking \/ SyncBackingDir
  \/ RemoveTmpOverlay \/ CreateOverlay \/ SyncOverlay \/ RenameOverlay
  \/ SyncOverlayDir \/ Unmark
  \/ MarkFails \/ CreateTmpFails \/ Fails

Next == Open \/ Step \/ Crash \/ Terminated

Spec == Init /\ [][Next]_vars

-----------------------------------------------------------------------------
(* Properties.                                                             *)

TypeOK ==
  /\ pc \in {"idle", "mark", "sync_mark", "sync_mark_dir", "remove_tmp",
             "create", "copy", "sync_tmp", "verify", "rename_backing",
             "sync_backing_dir", "remove_tmp_overlay", "create_overlay",
             "sync_overlay", "rename_overlay", "sync_overlay_dir", "unmark"}
  /\ run \in 0 .. MaxRuns /\ off \in 1 .. NumBlocks + 1
  /\ outcome \in {"none", "ok", "error", "crashed"}
  /\ names \in [Paths -> Files \union {NoFile}]
  /\ onDisk \in [Dirs -> SUBSET [Paths -> Files \union {NoFile}]]
  /\ dirty \subseteq Files /\ torn \subseteq Files
  /\ body \in [Files -> [Blocks -> Cells \union {"container"}]]

\* What the guest saw before the first call.
Original(b) == ReadChain(OldOverlay, OldBacking, b)

\* At every moment, in every state a crash may leave and whatever call fails,
\* the chain can be opened and the guest finds its disk as it was: neither of
\* the two renames is ever seen without what it relies on.
ViewPreserved == Readable(names) /\ \A b \in Blocks : View(b) = Original(b)

\* A call that returned nil has reset the overlay, and no crash after it brings
\* back either of the files it replaced.
OKIsDurable ==
  outcome = "ok" =>
    /\ \A n \in onDisk[OverlayDir] : n["overlay"] = NewOverlay
    /\ \A n \in onDisk[BackingDir] : n["backing"] = NewBacking
    /\ {NewOverlay, NewBacking} \intersect (dirty \union torn) = {}

\* When a crash interrupts a call and leaves the new backing file in place under
\* an overlay that was not reset, the marker is there to tell.
MarkerCovers ==
  [][ pc # "idle" /\ outcome = "none" /\ outcome' = "crashed"
      /\ names'["backing"] = NewBacking /\ names'["overlay"] # NewOverlay
        => names'["marker"] # NoFile ]_vars
=============================================================================
