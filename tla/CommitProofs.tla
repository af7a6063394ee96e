---------------------------- MODULE CommitProofs ----------------------------
(***************************************************************************)
(* Proofs, for any number of blocks, calls and crashes and any two         *)
(* directories, that a commit never loses the guest's view of its disk,    *)
(* and that its marker tells of one that a crash cut short.                *)
(***************************************************************************)
EXTENDS Commit, TLAPS

\* The overlays and the backing files that are found now or after a crash.
SeenOverlays ==
  {names["overlay"]} \union {n["overlay"] : n \in onDisk[OverlayDir]}
SeenBackings ==
  {names["backing"]} \union {n["backing"] : n \in onDisk[BackingDir]}

\* Any overlay seen on top of any backing file seen is the original disk: the
\* commit never relies on two renames reaching the disk together.
ChainsGood ==
  \A o \in SeenOverlays, f \in SeenBackings :
    \A b \in Blocks : ReadChain(o, f, b) = Original(b)

\* No file that can be seen is still in the making, or was lost.
SeenSafe ==
  \A f \in SeenOverlays \union SeenBackings :
    f \in Files /\ f \notin dirty /\ f \notin torn

BeforeRename == {"mark", "sync_mark", "sync_mark_dir", "remove_tmp", "create",
                 "copy", "sync_tmp", "verify", "rename_backing"}
Replaced     == {"sync_backing_dir", "remove_tmp_overlay", "create_overlay",
                 "sync_overlay", "rename_overlay"}

\* The files of the call under way are new.
Fresh ==
  /\ \A o \in SeenOverlays :
       o[1] = "overlay" /\ o[2] <= run /\ (pc \in BeforeRename \union Replaced => o[2] < run)
  /\ \A f \in SeenBackings :
       f[1] = "backing" /\ f[2] <= run /\ (pc \in BeforeRename => f[2] < run)
  /\ \A f \in torn : f[2] <= run /\ (pc # "idle" => f[2] < run)
  /\ \A f \in dirty : f[2] <= run
  /\ pc # "idle" => run >= 1

\* What the call has achieved when it gets to pc.
Stages ==
  /\ pc \in {"copy", "sync_tmp", "verify", "rename_backing"} =>
       names["tmpBacking"] = NewBacking
  /\ pc \in {"verify", "rename_backing"} => NewBacking \notin dirty
  /\ pc \in {"rename_backing"} \union Replaced =>
       \A b \in Blocks : body[NewBacking][b] = Original(b)
  /\ pc \in Replaced \union {"sync_overlay_dir"} => names["backing"] = NewBacking
  /\ pc \in (Replaced \ {"sync_backing_dir"}) \union {"sync_overlay_dir"} =>
       \A n \in onDisk[BackingDir] : n["backing"] = NewBacking
  /\ pc \in {"sync_overlay", "rename_overlay"} =>
       /\ names["tmpOverlay"] = NewOverlay
       /\ \A b \in Blocks : body[NewOverlay][b] = "hole"
  /\ pc = "rename_overlay" => NewOverlay \notin dirty
  /\ pc = "sync_overlay_dir" => names["overlay"] = NewOverlay
  /\ outcome = "ok" => /\ pc \in {"unmark", "idle"}
                        /\ names["overlay"] = NewOverlay /\ names["backing"] = NewBacking

CommitInv == TypeOK /\ ChainsGood /\ SeenSafe /\ Fresh /\ Stages /\ OKIsDurable

-----------------------------------------------------------------------------

LEMMA CommitInit == Init => CommitInv
<1> SUFFICES ASSUME Init PROVE CommitInv
  OBVIOUS
<1>1. /\ OldOverlay \in Files /\ OldBacking \in Files /\ 0 \in 0 .. MaxRuns
      /\ NoFile \notin Files
  BY SizesAssumption DEF OldOverlay, OldBacking, Files, NoFile
<1>2. names["overlay"] = OldOverlay /\ names["backing"] = OldBacking
  BY DEF Init, Paths
<1>3. SeenOverlays = {OldOverlay} /\ SeenBackings = {OldBacking}
  BY <1>2 DEF Init, SeenOverlays, SeenBackings, Dirs
<1>4. TypeOK
  <2>1. names \in [Paths -> Files \union {NoFile}]
    BY <1>1 DEF Init
  <2>2. body \in [Files -> [Blocks -> Cells \union {"container"}]]
    BY DEF Init, Cells
  <2>3. off \in 1 .. NumBlocks + 1 /\ run \in 0 .. MaxRuns
    BY SizesAssumption DEF Init
  <2> QED
    BY <2>1, <2>2, <2>3 DEF Init, TypeOK
<1>5. ChainsGood
  BY <1>3 DEF ChainsGood, Original
<1>6. SeenSafe /\ Fresh
  BY <1>1, <1>3, SizesAssumption DEF SeenSafe, Fresh, Init, OldOverlay, OldBacking,
                                     BeforeRename, Replaced
<1>7. Stages /\ OKIsDurable
  BY DEF Stages, OKIsDurable, Init, Replaced
<1> QED
  BY <1>4, <1>5, <1>6, <1>7 DEF CommitInv

LEMMA TypeStep == TypeOK /\ SeenSafe /\ [Next]_vars => TypeOK'
<1> SUFFICES ASSUME TypeOK, SeenSafe, [Next]_vars PROVE TypeOK'
  OBVIOUS
<1>1. /\ OverlayDir \in Dirs /\ BackingDir \in Dirs
      /\ \A p \in Paths : Dir(p) \in Dirs
      /\ NewBacking \in Files /\ NewOverlay \in Files /\ Marker \in Files
  BY SizesAssumption DEF Dirs, Dir, TypeOK, NewBacking, NewOverlay, Marker, Files
<1>2. ASSUME NEW d \in Dirs, NEW n \in [Paths -> Files \union {NoFile}], SetNames(d, n)
      PROVE  /\ names' \in [Paths -> Files \union {NoFile}]
             /\ onDisk' \in [Dirs -> SUBSET [Paths -> Files \union {NoFile}]]
  BY <1>2 DEF SetNames, TypeOK
<1>3. ASSUME NEW p \in Paths, NEW f \in Files \union {NoFile}, Link(p, f)
      PROVE  /\ names' \in [Paths -> Files \union {NoFile}]
             /\ onDisk' \in [Dirs -> SUBSET [Paths -> Files \union {NoFile}]]
  BY <1>1, <1>2, <1>3 DEF Link, TypeOK
<1>4. ASSUME NEW p \in Paths, NEW q \in Paths, Rename(p, q)
      PROVE  /\ names' \in [Paths -> Files \union {NoFile}]
             /\ onDisk' \in [Dirs -> SUBSET [Paths -> Files \union {NoFile}]]
  BY <1>1, <1>2, <1>4 DEF Rename, TypeOK
<1>5. ASSUME NEW d \in Dirs, SyncDir(d)
      PROVE  /\ names' \in [Paths -> Files \union {NoFile}]
             /\ onDisk' \in [Dirs -> SUBSET [Paths -> Files \union {NoFile}]]
  BY <1>5 DEF SyncDir, TypeOK
<1>6. CASE Open
  BY <1>6, SizesAssumption DEF Open, TypeOK, fsVars
<1>7. CASE Mark \/ MarkFails
  BY <1>1, <1>3, <1>7 DEF Mark, MarkFails, TypeOK, Paths
<1>8. CASE SyncMark \/ SyncTmp \/ SyncOverlay
  BY <1>8 DEF SyncMark, SyncTmp, SyncOverlay, SyncFile, TypeOK
<1>9. CASE SyncMarkDir \/ SyncBackingDir \/ SyncOverlayDir
  BY <1>1, <1>5, <1>9 DEF SyncMarkDir, SyncBackingDir, SyncOverlayDir, SyncDirectory, TypeOK
<1>10. CASE RemoveTmp \/ RemoveTmpOverlay \/ Unmark
  BY <1>3, <1>10 DEF RemoveTmp, RemoveTmpOverlay, Unmark, Remove, TypeOK, Paths
<1>11. CASE CreateTmp \/ CreateOverlay \/ CreateTmpFails
  <2>1. /\ names' \in [Paths -> Files \union {NoFile}]
        /\ onDisk' \in [Dirs -> SUBSET [Paths -> Files \union {NoFile}]]
    BY <1>1, <1>3, <1>11 DEF CreateTmp, CreateOverlay, CreateTmpFails, TypeOK, Paths
  <2>2. body' \in [Files -> [Blocks -> Cells \union {"container"}]]
    BY <1>11 DEF CreateTmp, CreateOverlay, CreateTmpFails, TypeOK, Cells
  <2>3. off' \in 1 .. NumBlocks + 1
    BY <1>11, SizesAssumption DEF CreateTmp, CreateOverlay, CreateTmpFails, TypeOK
  <2> QED
    BY <1>1, <1>11, <2>1, <2>2, <2>3 DEF CreateTmp, CreateOverlay, CreateTmpFails, TypeOK
<1>12. CASE CopyBlock
  <2>1. off' \in 1 .. NumBlocks + 1
    BY <1>12, SizesAssumption DEF CopyBlock, Blocks
  <2>2. names["overlay"] \in Files /\ names["backing"] \in Files
    BY DEF SeenSafe, SeenOverlays, SeenBackings
  <2>3. View(off) \in Cells \union {"container"}
    BY <1>12, <2>2 DEF View, ReadChain, ReadBacking, TypeOK, CopyBlock
  <2>4. body' \in [Files -> [Blocks -> Cells \union {"container"}]]
    BY <1>12, <2>3 DEF CopyBlock, TypeOK
  <2> QED
    BY <1>12, <2>1, <2>4 DEF CopyBlock, TypeOK
<1>13. CASE CloseTmp \/ Verify
  BY <1>13 DEF CloseTmp, Verify, TypeOK, fsVars
<1>14. CASE RenameBacking \/ RenameOverlay
  BY <1>4, <1>14 DEF RenameBacking, RenameOverlay, TypeOK, Paths
<1>15. CASE Fails
  <2>1. /\ names' \in [Paths -> Files \union {NoFile}]
        /\ onDisk' \in [Dirs -> SUBSET [Paths -> Files \union {NoFile}]]
    <3>1. CASE Remove("tmpBacking")
      BY <1>3, <3>1 DEF Remove, Paths
    <3>2. CASE Remove("tmpOverlay")
      BY <1>3, <3>2 DEF Remove, Paths
    <3>3. CASE UNCHANGED <<names, onDisk>>
      BY <3>3 DEF TypeOK
    <3> QED
      BY <1>15, <3>1, <3>2, <3>3 DEF Fails
  <2> QED
    BY <1>15, <2>1 DEF Fails, TypeOK
<1>16. CASE Crash
  <2>1. names' \in [Paths -> Files \union {NoFile}]
    BY <1>1, <1>16 DEF Crash, TypeOK
  <2>2. onDisk' \in [Dirs -> SUBSET [Paths -> Files \union {NoFile}]]
    BY <1>16, <2>1 DEF Crash
  <2>3. torn' \subseteq Files
    BY <1>16 DEF Crash, TypeOK
  <2> QED
    BY <1>16, <2>1, <2>2, <2>3 DEF Crash, TypeOK
<1>17. CASE UNCHANGED vars
  BY <1>17 DEF vars, fsVars, TypeOK
<1> QED
  BY <1>6, <1>7, <1>8, <1>9, <1>10, <1>11, <1>12, <1>13, <1>14, <1>15, <1>16,
     <1>17 DEF Next, Step, Terminated

-----------------------------------------------------------------------------

\* The overlay and the backing file stay what they are, now and on disk.
Kept ==
  /\ names'["overlay"] = names["overlay"] /\ names'["backing"] = names["backing"]
  /\ \A n \in onDisk'[OverlayDir] :
       n \in onDisk[OverlayDir] \/ n["overlay"] = names["overlay"]
  /\ \A n \in onDisk'[BackingDir] :
       n \in onDisk[BackingDir] \/ n["backing"] = names["backing"]

LEMMA KeptByLink ==
  ASSUME TypeOK, NEW p \in Paths \ {"overlay", "backing"}, NEW f, Link(p, f)
  PROVE  Kept
<1>1. Dir(p) \in Dirs /\ OverlayDir \in Dirs /\ BackingDir \in Dirs
  BY DEF Dir, Dirs
<1> QED
  BY <1>1 DEF Link, SetNames, TypeOK, Kept, Paths

LEMMA KeptBySync ==
  ASSUME TypeOK, NEW d \in Dirs, SyncDir(d)
  PROVE  Kept
BY DEF SyncDir, TypeOK, Kept, Dirs

\* A step that leaves the files in place alone, and works on none that can be
\* seen.
LEMMA Aside ==
  ASSUME CommitInv, Kept, run' = run, torn' = torn,
         \A f \in dirty' :
           \/ f \in dirty
           \/ (f \in {NewBacking, Marker} /\ pc \in BeforeRename)
           \/ (f = NewOverlay /\ pc \in BeforeRename \union Replaced),
         \A f \in SeenOverlays \union SeenBackings \union {OldOverlay, OldBacking} :
           body'[f] = body[f],
         pc # "idle",
         pc' \in BeforeRename => pc \in BeforeRename,
         pc' \in Replaced => pc \in BeforeRename \union Replaced
  PROVE  ChainsGood' /\ SeenSafe' /\ Fresh'
<1> USE DEF CommitInv
<1>1. SeenOverlays' \subseteq SeenOverlays /\ SeenBackings' \subseteq SeenBackings
  BY DEF Kept, SeenOverlays, SeenBackings
<1>2. ChainsGood'
  BY <1>1 DEF ChainsGood, ReadChain, ReadBacking, Original
<1>3. \A f \in {NewBacking, Marker} : f[2] <= run /\ (pc \in BeforeRename => f \notin SeenOverlays \union SeenBackings)
  BY SizesAssumption DEF Fresh, NewBacking, Marker, TypeOK
<1>4. NewOverlay[2] <= run /\ (pc \in BeforeRename \union Replaced => NewOverlay \notin SeenOverlays \union SeenBackings)
  BY DEF Fresh, NewOverlay, TypeOK
<1>5. SeenSafe'
  BY <1>1, <1>3, <1>4 DEF SeenSafe
<1>6. Fresh'
  BY <1>1, <1>3, <1>4 DEF Fresh
<1> QED
  BY <1>2, <1>5, <1>6

LEMMA FileNames ==
  ASSUME CommitInv, pc # "idle"
  PROVE  /\ NewBacking # OldBacking /\ NewBacking # OldOverlay /\ NewBacking # Marker
         /\ NewOverlay # OldBacking /\ NewOverlay # OldOverlay /\ NewOverlay # Marker
         /\ NewOverlay # NewBacking
         /\ NewBacking \in Files /\ NewOverlay \in Files
         /\ NewBacking \notin torn /\ NewOverlay \notin torn
BY DEF CommitInv, Fresh, TypeOK, Files, NewBacking, NewOverlay, Marker,
       OldBacking, OldOverlay

\* The steps up to the rename of the backing file.
LEMMA PrepareStep ==
  ASSUME CommitInv,
         \/ Mark \/ SyncMark \/ SyncMarkDir \/ RemoveTmp \/ CreateTmp
         \/ CopyBlock \/ CloseTmp \/ SyncTmp \/ Verify
  PROVE  ChainsGood' /\ SeenSafe' /\ Fresh' /\ Stages' /\ OKIsDurable'
<1> USE DEF CommitInv
<1>1. pc \in BeforeRename /\ pc' \in BeforeRename /\ pc # "idle" /\ outcome # "ok"
  BY DEF Mark, SyncMark, SyncMarkDir, RemoveTmp, CreateTmp, CopyBlock, CloseTmp,
         SyncTmp, Verify, BeforeRename, Stages
<1>2. /\ run' = run /\ torn' = torn /\ outcome' = outcome
      /\ dirty' \subseteq dirty \union {NewBacking, Marker}
  BY DEF Mark, SyncMark, SyncMarkDir, RemoveTmp, CreateTmp, CopyBlock, CloseTmp,
         SyncTmp, Verify, SyncFile, SyncDirectory, fsVars
<1>3. Kept
  <2>1. CASE Mark \/ RemoveTmp \/ CreateTmp
    BY <2>1, KeptByLink DEF Mark, RemoveTmp, CreateTmp, Remove, Paths
  <2>2. CASE SyncMarkDir
    BY <2>2, KeptBySync DEF SyncMarkDir, SyncDirectory, Dirs
  <2>3. CASE SyncMark \/ CopyBlock \/ CloseTmp \/ SyncTmp \/ Verify
    BY <2>3 DEF SyncMark, CopyBlock, CloseTmp, SyncTmp, Verify, SyncFile, fsVars, Kept
  <2> QED
    BY <2>1, <2>2, <2>3
<1>4. NewBacking \notin SeenOverlays \union SeenBackings
  BY <1>1 DEF Fresh, NewBacking, TypeOK
<1>5. \A f \in Files : f # NewBacking => body'[f] = body[f]
  BY DEF Mark, SyncMark, SyncMarkDir, RemoveTmp, CreateTmp, CopyBlock, CloseTmp,
         SyncTmp, Verify, SyncFile, SyncDirectory, fsVars, TypeOK
<1>6. OldOverlay \in Files /\ OldBacking \in Files
  BY SizesAssumption DEF OldOverlay, OldBacking, Files
<1>7. ChainsGood' /\ SeenSafe' /\ Fresh'
  <2>1. \A f \in SeenOverlays \union SeenBackings \union {OldOverlay, OldBacking} :
          body'[f] = body[f]
    BY <1>1, <1>4, <1>5, <1>6, FileNames DEF SeenSafe
  <2>2. pc' \notin Replaced
    BY <1>1 DEF BeforeRename, Replaced
  <2> QED
    BY <1>1, <1>2, <1>3, <2>1, <2>2, Aside
<1>8. OKIsDurable'
  BY <1>1, <1>2 DEF OKIsDurable
<1>9. Stages'
  <2>1. CASE Mark \/ SyncMark \/ SyncMarkDir \/ RemoveTmp
    BY <1>1, <1>2, <2>1 DEF Mark, SyncMark, SyncMarkDir, RemoveTmp, Stages, Replaced
  <2>2. CASE CreateTmp
    BY <1>1, <1>2, <2>2 DEF CreateTmp, Link, SetNames, Stages, Replaced, TypeOK,
                            Paths, NewBacking
  <2>3. CASE CopyBlock \/ CloseTmp
    BY <1>1, <1>2, <2>3 DEF CopyBlock, CloseTmp, fsVars, Stages, Replaced, NewBacking
  <2>4. CASE SyncTmp
    BY <1>1, <1>2, <2>4 DEF SyncTmp, SyncFile, Stages, Replaced, NewBacking
  <2>5. CASE Verify
    <3>1. \A b \in Blocks : View(b) = Original(b)
      BY DEF ChainsGood, SeenOverlays, SeenBackings, View
    <3>2. \A b \in Blocks : body'[NewBacking'][b] = Original(b)'
      BY <1>2, <2>5, <3>1 DEF Verify, Matches, fsVars, NewBacking, Original,
                              ReadChain, ReadBacking
    <3> QED
      BY <1>1, <1>2, <2>5, <3>2 DEF Verify, fsVars, Stages, Replaced, NewBacking
  <2> QED
    BY <2>1, <2>2, <2>3, <2>4, <2>5
<1> QED
  BY <1>7, <1>8, <1>9

\* The new backing file is as good as the old one under every overlay seen.
LEMMA RenameBackingStep ==
  ASSUME BackingReadAs = BackingFormat, CommitInv, RenameBacking
  PROVE  ChainsGood' /\ SeenSafe' /\ Fresh' /\ Stages' /\ OKIsDurable'
<1> USE DEF CommitInv
<1>1. /\ pc = "rename_backing" /\ pc' = "sync_backing_dir"
      /\ UNCHANGED <<run, off, outcome, dirty, torn, body>>
      /\ names["tmpBacking"] = NewBacking /\ NewBacking \notin dirty
      /\ \A b \in Blocks : body[NewBacking][b] = Original(b)
      /\ outcome # "ok"
  BY DEF RenameBacking, Stages
<1>2. /\ names' = [names EXCEPT !["backing"] = NewBacking, !["tmpBacking"] = NoFile]
      /\ onDisk' = [onDisk EXCEPT ![BackingDir] = @ \union {names'}]
  BY <1>1 DEF RenameBacking, Rename, SetNames, Dir
<1>3. names'["backing"] = NewBacking /\ names'["overlay"] = names["overlay"]
  BY <1>2 DEF TypeOK, Paths
<1>4. /\ SeenOverlays' \subseteq SeenOverlays
      /\ SeenBackings' \subseteq SeenBackings \union {NewBacking}
  BY <1>2, <1>3 DEF SeenOverlays, SeenBackings, TypeOK, Dirs
<1>5. ChainsGood'
  <2> SUFFICES ASSUME NEW o \in SeenOverlays, NEW f \in SeenBackings \union {NewBacking},
                      NEW b \in Blocks
               PROVE  ReadChain(o, f, b) = Original(b)
    BY <1>1, <1>4 DEF ChainsGood, ReadChain, ReadBacking, Original
  <2>1. CASE f \in SeenBackings
    BY <2>1 DEF ChainsGood
  <2>2. CASE f = NewBacking
    <3>1. ReadChain(o, names["backing"], b) = Original(b)
      BY DEF ChainsGood, SeenBackings
    <3> QED
      BY <1>1, <2>2, <3>1 DEF ReadChain, ReadBacking
  <2> QED
    BY <2>1, <2>2
<1>6. SeenSafe'
  BY <1>1, <1>4, FileNames DEF SeenSafe
<1>7. Fresh'
  BY <1>1, <1>4 DEF Fresh, NewBacking, BeforeRename, Replaced, TypeOK
<1>8. Stages'
  BY <1>1, <1>3 DEF Stages, Replaced, NewBacking, Original, ReadChain, ReadBacking
<1>9. OKIsDurable'
  BY <1>1 DEF OKIsDurable
<1> QED
  BY <1>5, <1>6, <1>7, <1>8, <1>9

\* The steps between the two renames.
LEMMA ResetStep ==
  ASSUME CommitInv,
         SyncBackingDir \/ RemoveTmpOverlay \/ CreateOverlay \/ SyncOverlay
  PROVE  ChainsGood' /\ SeenSafe' /\ Fresh' /\ Stages' /\ OKIsDurable'
<1> USE DEF CommitInv
<1>1. pc \in Replaced /\ pc' \in Replaced /\ pc # "idle" /\ outcome # "ok"
  BY DEF SyncBackingDir, RemoveTmpOverlay, CreateOverlay, SyncOverlay, Replaced, Stages
<1>2. /\ run' = run /\ torn' = torn /\ outcome' = outcome
      /\ dirty' \subseteq dirty \union {NewOverlay}
  BY DEF SyncBackingDir, RemoveTmpOverlay, CreateOverlay, SyncOverlay, SyncFile,
         SyncDirectory
<1>3. Kept
  <2>1. CASE RemoveTmpOverlay \/ CreateOverlay
    BY <2>1, KeptByLink DEF RemoveTmpOverlay, CreateOverlay, Remove, Paths
  <2>2. CASE SyncBackingDir
    BY <2>2, KeptBySync DEF SyncBackingDir, SyncDirectory, Dirs
  <2>3. CASE SyncOverlay
    BY <2>3 DEF SyncOverlay, SyncFile, Kept
  <2> QED
    BY <2>1, <2>2, <2>3
<1>4. NewOverlay \notin SeenOverlays \union SeenBackings
  BY <1>1 DEF Fresh, NewOverlay, TypeOK
<1>5. \A f \in Files : f # NewOverlay => body'[f] = body[f]
  BY DEF SyncBackingDir, RemoveTmpOverlay, CreateOverlay, SyncOverlay, SyncFile,
         SyncDirectory, TypeOK
<1>6. OldOverlay \in Files /\ OldBacking \in Files
  BY SizesAssumption DEF OldOverlay, OldBacking, Files
<1>7. \A f \in SeenOverlays \union SeenBackings \union {OldOverlay, OldBacking} :
        body'[f] = body[f]
  BY <1>1, <1>4, <1>5, <1>6, FileNames DEF SeenSafe
<1>8. ChainsGood' /\ SeenSafe' /\ Fresh'
  <2>1. pc' \in BeforeRename => pc \in BeforeRename
    BY <1>1 DEF BeforeRename, Replaced
  <2>2. pc' \in Replaced => pc \in BeforeRename \union Replaced
    BY <1>1
  <2>3. \A f \in dirty' :
          \/ f \in dirty
          \/ (f \in {NewBacking, Marker} /\ pc \in BeforeRename)
          \/ (f = NewOverlay /\ pc \in BeforeRename \union Replaced)
    BY <1>1, <1>2
  <2>4. /\ \A f \in SeenOverlays \union SeenBackings \union {OldOverlay, OldBacking} :
             body'[f] = body[f]
        /\ run' = run /\ torn' = torn /\ pc # "idle"
    BY <1>1, <1>2, <1>7
  <2> HIDE DEF CommitInv
  <2> QED
    BY <1>3, <2>1, <2>2, <2>3, <2>4, Aside
<1>9. OKIsDurable'
  BY <1>1, <1>2 DEF OKIsDurable
<1>10. \A b \in Blocks : body'[NewBacking][b] = Original(b)' /\ Original(b)' = Original(b)
  BY <1>1, <1>5, <1>7, FileNames DEF Stages, Original, ReadChain, ReadBacking
<1>11. names["backing"] = NewBacking
  BY <1>1 DEF Stages
<1>12. Stages'
  <2>1. CASE SyncBackingDir
    BY <1>1, <1>2, <1>3, <1>10, <1>11, <2>1
       DEF SyncBackingDir, SyncDirectory, SyncDir, Stages, Replaced, NewBacking,
           TypeOK, Dirs, Kept
  <2>2. CASE RemoveTmpOverlay
    BY <1>1, <1>2, <1>3, <1>10, <1>11, <2>2
       DEF RemoveTmpOverlay, Stages, Replaced, NewBacking, Kept
  <2>3. CASE CreateOverlay
    <3>1. names'["tmpOverlay"] = NewOverlay
      BY <2>3 DEF CreateOverlay, Link, SetNames, TypeOK, Paths
    <3>2. \A b \in Blocks : body'[NewOverlay][b] = "hole"
      BY <1>1, <2>3, FileNames DEF CreateOverlay, TypeOK
    <3> QED
      BY <1>1, <1>2, <1>3, <1>10, <1>11, <2>3, <3>1, <3>2
         DEF CreateOverlay, Stages, Replaced, NewBacking, NewOverlay, Kept
  <2>4. CASE SyncOverlay
    BY <1>1, <1>2, <1>3, <1>10, <1>11, <2>4
       DEF SyncOverlay, SyncFile, Stages, Replaced, NewBacking, NewOverlay, Kept
  <2> QED
    BY <2>1, <2>2, <2>3, <2>4
<1> QED
  BY <1>8, <1>9, <1>12

\* The fresh overlay holds nothing, and the only backing file that can be seen
\* by then is the new one.
LEMMA RenameOverlayStep ==
  ASSUME BackingReadAs = BackingFormat, CommitInv, RenameOverlay
  PROVE  ChainsGood' /\ SeenSafe' /\ Fresh' /\ Stages' /\ OKIsDurable'
<1> USE DEF CommitInv
<1>1. /\ pc = "rename_overlay" /\ pc' = "sync_overlay_dir"
      /\ UNCHANGED <<run, off, outcome, dirty, torn, body>>
      /\ names["tmpOverlay"] = NewOverlay /\ NewOverlay \notin dirty
      /\ \A b \in Blocks : body[NewOverlay][b] = "hole" /\ body[NewBacking][b] = Original(b)
      /\ names["backing"] = NewBacking
      /\ \A n \in onDisk[BackingDir] : n["backing"] = NewBacking
      /\ outcome # "ok"
  BY DEF RenameOverlay, Stages, Replaced
<1>2. /\ names' = [names EXCEPT !["overlay"] = NewOverlay, !["tmpOverlay"] = NoFile]
      /\ onDisk' = [onDisk EXCEPT ![OverlayDir] = @ \union {names'}]
  BY <1>1 DEF RenameOverlay, Rename, SetNames, Dir
<1>3. names'["overlay"] = NewOverlay /\ names'["backing"] = NewBacking
  BY <1>1, <1>2 DEF TypeOK, Paths
<1>4. \A n \in onDisk'[BackingDir] : n["backing"] = NewBacking
  BY <1>1, <1>2, <1>3 DEF TypeOK, Dirs
<1>5. SeenOverlays' \subseteq SeenOverlays \union {NewOverlay} /\ SeenBackings' = {NewBacking}
  <2>1. SeenOverlays' \subseteq SeenOverlays \union {NewOverlay}
    BY <1>2, <1>3 DEF SeenOverlays, TypeOK, Dirs
  <2>2. SeenBackings' = {NewBacking}
    BY <1>3, <1>4 DEF SeenBackings
  <2> QED
    BY <2>1, <2>2
<1>6. ChainsGood'
  <2> SUFFICES ASSUME NEW o \in SeenOverlays \union {NewOverlay}, NEW b \in Blocks
               PROVE  ReadChain(o, NewBacking, b) = Original(b)
    BY <1>1, <1>5 DEF ChainsGood, ReadChain, ReadBacking, Original
  <2>1. CASE o \in SeenOverlays
    BY <1>1, <2>1 DEF ChainsGood, SeenBackings
  <2>2. CASE o = NewOverlay
    BY <1>1, <2>2 DEF ReadChain, ReadBacking
  <2> QED
    BY <2>1, <2>2
<1>7. SeenSafe'
  BY <1>1, <1>5, FileNames DEF SeenSafe, SeenBackings
<1>8. Fresh'
  BY <1>1, <1>5 DEF Fresh, SeenBackings, NewBacking, NewOverlay, BeforeRename,
                    Replaced, TypeOK
<1>9. Stages'
  BY <1>1, <1>3, <1>4 DEF Stages, Replaced, NewBacking, NewOverlay
<1>10. OKIsDurable'
  BY <1>1 DEF OKIsDurable
<1> QED
  BY <1>6, <1>7, <1>8, <1>9, <1>10

\* The end of a call: its success, an error, or the removal of the marker.
LEMMA EndStep ==
  ASSUME CommitInv,
         SyncOverlayDir \/ Unmark \/ MarkFails \/ CreateTmpFails \/ Fails
  PROVE  ChainsGood' /\ SeenSafe' /\ Fresh' /\ Stages' /\ OKIsDurable'
<1> USE DEF CommitInv
<1>1. /\ pc # "idle" /\ pc' \in {"unmark", "idle"}
      /\ pc' \notin BeforeRename /\ pc' \notin Replaced
  BY DEF SyncOverlayDir, Unmark, MarkFails, CreateTmpFails, Fails, BeforeRename, Replaced
<1>2. run' = run /\ torn' = torn /\ body' = body
  BY DEF SyncOverlayDir, Unmark, MarkFails, CreateTmpFails, Fails, SyncDirectory
<1>3. Kept
  <2>1. CASE Link("marker", Marker) \/ Link("marker", NoFile)
    BY <2>1, KeptByLink DEF Paths
  <2>2. CASE Link("tmpBacking", NewBacking) \/ Link("tmpBacking", NoFile)
             \/ Link("tmpOverlay", NoFile)
    BY <2>2, KeptByLink DEF Paths
  <2>3. CASE UNCHANGED <<names, onDisk>>
    BY <2>3 DEF Kept
  <2>4. CASE SyncDir(OverlayDir)
    BY <2>4, KeptBySync DEF Dirs
  <2> QED
    BY <2>1, <2>2, <2>3, <2>4
       DEF SyncOverlayDir, Unmark, MarkFails, CreateTmpFails, Fails, SyncDirectory, Remove
<1>4. \A f \in dirty' : f \in dirty \/ (f \in {NewBacking, Marker} /\ pc \in BeforeRename)
  BY DEF SyncOverlayDir, Unmark, MarkFails, CreateTmpFails, Fails, SyncDirectory, BeforeRename
<1>5. ChainsGood' /\ SeenSafe' /\ Fresh'
  <2> HIDE DEF CommitInv
  <2> QED
    BY <1>1, <1>2, <1>3, <1>4, Aside
<1>6. Stages' /\ OKIsDurable'
  <2>1. CASE SyncOverlayDir
    <3>1. /\ names' = names /\ dirty' = dirty
          /\ onDisk' = [onDisk EXCEPT ![OverlayDir] = {names}]
          /\ names["overlay"] = NewOverlay /\ names["backing"] = NewBacking
          /\ \A n \in onDisk[BackingDir] : n["backing"] = NewBacking
      BY <2>1 DEF SyncOverlayDir, SyncDirectory, SyncDir, Stages
    <3>2. /\ \A n \in onDisk'[OverlayDir] : n["overlay"] = NewOverlay
          /\ \A n \in onDisk'[BackingDir] : n["backing"] = NewBacking
      BY <3>1 DEF TypeOK, Dirs
    <3>3. {NewOverlay, NewBacking} \intersect (dirty \union torn) = {}
      BY <3>1 DEF SeenSafe, SeenOverlays, SeenBackings
    <3>4. NewOverlay' = NewOverlay /\ NewBacking' = NewBacking
      BY <1>2 DEF NewOverlay, NewBacking
    <3>5. OKIsDurable'
      BY <1>2, <3>1, <3>2, <3>3, <3>4 DEF OKIsDurable
    <3>6. Stages'
      BY <1>1, <3>1, <3>4 DEF Stages, Replaced
    <3> QED
      BY <3>5, <3>6
  <2>2. CASE Unmark
    <3>1. pc = "unmark" /\ outcome' = outcome /\ dirty' = dirty
      BY <2>2 DEF Unmark
    <3>2. NewOverlay' = NewOverlay /\ NewBacking' = NewBacking
      BY <1>2 DEF NewOverlay, NewBacking
    <3>3. Stages'
      BY <1>1, <1>3, <3>1, <3>2 DEF Stages, Replaced, Kept
    <3>4. OKIsDurable'
      BY <1>2, <1>3, <3>1, <3>2 DEF OKIsDurable, Stages, Kept
    <3> QED
      BY <3>3, <3>4
  <2>3. CASE MarkFails \/ CreateTmpFails \/ Fails
    <3>1. outcome' = "error"
      BY <2>3 DEF MarkFails, CreateTmpFails, Fails
    <3> QED
      BY <1>1, <3>1 DEF Stages, Replaced, OKIsDurable
  <2> QED
    BY <2>1, <2>2, <2>3
<1> QED
  BY <1>5, <1>6

\* What a crash leaves could be seen before it.
LEMMA CrashStep ==
  ASSUME CommitInv, Crash
  PROVE  ChainsGood' /\ SeenSafe' /\ Fresh' /\ Stages' /\ OKIsDurable'
<1> USE DEF CommitInv
<1>1. /\ pc' = "idle" /\ outcome' = "crashed" /\ run' = run /\ body' = body
      /\ dirty' = {} /\ torn' \subseteq torn \union dirty
      /\ onDisk' = [d \in Dirs |-> {names'}]
  BY DEF Crash
<1>2. PICK o \in onDisk[OverlayDir], f \in onDisk[BackingDir] :
        /\ OverlayDir = BackingDir => o = f
        /\ names' = [p \in Paths |-> IF Dir(p) = OverlayDir THEN o[p] ELSE f[p]]
  BY DEF Crash
<1>3. names'["overlay"] = o["overlay"] /\ names'["backing"] = f["backing"]
  BY <1>2 DEF Dir, Paths
<1>4. SeenOverlays' \subseteq SeenOverlays /\ SeenBackings' \subseteq SeenBackings
  BY <1>1, <1>2, <1>3 DEF SeenOverlays, SeenBackings, Dirs
<1>5. ChainsGood'
  BY <1>1, <1>4 DEF ChainsGood, ReadChain, ReadBacking, Original
<1>6. SeenSafe'
  BY <1>1, <1>4 DEF SeenSafe
<1>7. Fresh'
  BY <1>1, <1>4 DEF Fresh, BeforeRename, Replaced
<1>8. Stages' /\ OKIsDurable'
  BY <1>1 DEF Stages, Replaced, OKIsDurable
<1> QED
  BY <1>5, <1>6, <1>7, <1>8

LEMMA OpenStep ==
  ASSUME CommitInv, Open
  PROVE  ChainsGood' /\ SeenSafe' /\ Fresh' /\ Stages' /\ OKIsDurable'
<1> USE DEF CommitInv
<1>1. /\ pc = "idle" /\ pc' = "mark" /\ outcome' = "none" /\ run' = run + 1
      /\ UNCHANGED <<names, onDisk, dirty, torn, body>>
  BY DEF Open, fsVars
<1>2. SeenOverlays' = SeenOverlays /\ SeenBackings' = SeenBackings
  BY <1>1 DEF SeenOverlays, SeenBackings
<1>3. ChainsGood' /\ SeenSafe'
  BY <1>1, <1>2 DEF ChainsGood, SeenSafe, ReadChain, ReadBacking, Original
<1>4. Fresh'
  <2>1. \A f \in Files : f[2] \in Nat
    BY SizesAssumption DEF Files
  <2>2. run \in Nat
    BY SizesAssumption DEF TypeOK
  <2> QED
    BY <1>1, <1>2, <2>1, <2>2 DEF Fresh, SeenSafe, TypeOK
<1>5. Stages' /\ OKIsDurable'
  BY <1>1 DEF Stages, Replaced, OKIsDurable
<1> QED
  BY <1>3, <1>4, <1>5

LEMMA CommitStep ==
  ASSUME BackingReadAs = BackingFormat, CommitInv, [Next]_vars
  PROVE  CommitInv'
<1>1. TypeOK'
  BY TypeStep DEF CommitInv
<1>2. ChainsGood' /\ SeenSafe' /\ Fresh' /\ Stages' /\ OKIsDurable'
  <2>1. CASE UNCHANGED vars
    <3>1. SeenOverlays' = SeenOverlays /\ SeenBackings' = SeenBackings
      BY <2>1 DEF vars, fsVars, SeenOverlays, SeenBackings
    <3>2. ChainsGood' /\ SeenSafe' /\ Fresh'
      BY <2>1, <3>1 DEF vars, fsVars, CommitInv, ChainsGood, SeenSafe, Fresh,
                        ReadChain, ReadBacking, Original
    <3>3. Stages' /\ OKIsDurable'
      BY <2>1 DEF vars, fsVars, CommitInv, Stages, OKIsDurable, NewOverlay,
                  NewBacking, Original, ReadChain, ReadBacking
    <3> QED
      BY <3>2, <3>3
  <2>2. CASE Next
    BY <2>1, <2>2, OpenStep, PrepareStep, RenameBackingStep, ResetStep,
       RenameOverlayStep, EndStep, CrashStep DEF Next, Step, Terminated
  <2> QED
    BY <2>1, <2>2
<1> QED
  BY <1>1, <1>2 DEF CommitInv

\* When the backing file is read the way commit found it to be, no interleaving
\* of errors, crashes and repeated calls ever shows the guest another disk.
THEOREM GuestDiskPreserved ==
  ASSUME BackingReadAs = BackingFormat PROVE Spec => []ViewPreserved
<1>1. Init => CommitInv
  BY CommitInit
<1>2. CommitInv /\ [Next]_vars => CommitInv'
  BY CommitStep
<1>3. CommitInv => ViewPreserved
  <2> SUFFICES ASSUME CommitInv PROVE ViewPreserved
    OBVIOUS
  <2>1. names["overlay"] \in SeenOverlays /\ names["backing"] \in SeenBackings
    BY DEF SeenOverlays, SeenBackings
  <2>2. NoFile \notin Files
    BY DEF NoFile, Files
  <2> QED
    BY <2>1, <2>2 DEF CommitInv, ChainsGood, SeenSafe, ViewPreserved, Readable, View
<1> QED
  BY <1>1, <1>2, <1>3, PTL DEF Spec

\* Once a call has returned nil, no crash undoes what it did.
THEOREM CommitDurable ==
  ASSUME BackingReadAs = BackingFormat PROVE Spec => []OKIsDurable
<1>1. Init => CommitInv
  BY CommitInit
<1>2. CommitInv /\ [Next]_vars => CommitInv'
  BY CommitStep
<1>3. CommitInv => OKIsDurable
  BY DEF CommitInv
<1> QED
  BY <1>1, <1>2, <1>3, PTL DEF Spec

\* The variables keep to their types (the blocks written included: the reads
\* commit makes are of files that exist).
THEOREM CommitTypeCorrect ==
  ASSUME BackingReadAs = BackingFormat PROVE Spec => []TypeOK
<1>1. Init => CommitInv
  BY CommitInit
<1>2. CommitInv /\ [Next]_vars => CommitInv'
  BY CommitStep
<1>3. CommitInv => TypeOK
  BY DEF CommitInv
<1> QED
  BY <1>1, <1>2, <1>3, PTL DEF Spec

-----------------------------------------------------------------------------
(* The marker.                                                             *)

\* The statements that run between the writing of the marker and its removal,
\* and those of them that run when its entry has been synced.
Marked == {"sync_mark", "sync_mark_dir", "remove_tmp", "create", "copy",
           "sync_tmp", "verify", "rename_backing", "sync_overlay_dir"} \union Replaced
Announced == Marked \ {"sync_mark", "sync_mark_dir"}

\* From the sync of its directory on the marker is in every state a crash may
\* leave, and it is only removed when the call has made up its mind.
MarkerOK ==
  /\ pc \in Marked => names["marker"] = Marker
  /\ pc \in Announced => \A n \in onDisk[OverlayDir] : n["marker"] = Marker
  /\ pc = "unmark" => outcome # "none"

LEMMA MarkerInit == Init => MarkerOK
BY DEF Init, MarkerOK, Marked, Announced, Replaced

\* The other entries come and go without the marker.
LEMMA MarkerKeptByLink ==
  ASSUME TypeOK, NEW p \in Paths \ {"marker"}, NEW f, Link(p, f)
  PROVE  /\ names'["marker"] = names["marker"]
         /\ \A n \in onDisk'[OverlayDir] :
              n \in onDisk[OverlayDir] \/ n["marker"] = names["marker"]
<1>1. Dir(p) \in Dirs /\ OverlayDir \in Dirs
  BY DEF Dir, Dirs
<1> QED
  BY <1>1 DEF Link, SetNames, TypeOK, Paths

LEMMA MarkerKeptByRename ==
  ASSUME TypeOK, NEW p \in Paths \ {"marker"}, NEW q \in Paths \ {"marker"}, Rename(p, q)
  PROVE  /\ names'["marker"] = names["marker"]
         /\ \A n \in onDisk'[OverlayDir] :
              n \in onDisk[OverlayDir] \/ n["marker"] = names["marker"]
<1>1. Dir(q) \in Dirs /\ OverlayDir \in Dirs
  BY DEF Dir, Dirs
<1> QED
  BY <1>1 DEF Rename, SetNames, TypeOK, Paths

LEMMA MarkerKeptBySync ==
  ASSUME TypeOK, NEW d \in Dirs, SyncDir(d)
  PROVE  /\ names'["marker"] = names["marker"]
         /\ \A n \in onDisk'[OverlayDir] :
              n \in onDisk[OverlayDir] \/ n["marker"] = names["marker"]
<1>1. OverlayDir \in Dirs
  BY DEF Dirs
<1> QED
  BY <1>1 DEF SyncDir, TypeOK

LEMMA MarkerStep ==
  ASSUME TypeOK, MarkerOK, [Next]_vars
  PROVE  MarkerOK'
<1>1. CASE Open \/ Unmark \/ MarkFails \/ Crash
  BY <1>1 DEF Open, Unmark, MarkFails, Crash, MarkerOK, Marked, Announced, Replaced
<1>2. CASE Mark
  <2>1. names'["marker"] = Marker
    BY <1>2 DEF Mark, Link, SetNames, TypeOK, Paths
  <2> QED
    BY <1>2, <2>1 DEF Mark, MarkerOK, Marked, Announced, Replaced, Marker
<1>3. CASE SyncMarkDir
  <2>1. /\ names' = names /\ names["marker"] = Marker
        /\ pc' = "remove_tmp"
    BY <1>3 DEF SyncMarkDir, SyncDirectory, SyncDir, MarkerOK, Marked, Replaced
  <2>2. \A n \in onDisk'[OverlayDir] : n["marker"] = Marker
    BY <1>3, <2>1 DEF SyncMarkDir, SyncDirectory, SyncDir, TypeOK, Dirs
  <2> QED
    BY <2>1, <2>2 DEF MarkerOK, Marker
<1>4. CASE CreateTmpFails \/ Fails \/ SyncOverlayDir
  BY <1>4 DEF CreateTmpFails, Fails, SyncOverlayDir, MarkerOK, Marked, Announced, Replaced
<1>5. CASE SyncMark
  BY <1>5 DEF SyncMark, SyncFile, MarkerOK, Marked, Announced, Replaced, Marker
<1>6. CASE \/ RemoveTmp \/ CreateTmp \/ CopyBlock \/ CloseTmp \/ SyncTmp \/ Verify
           \/ RenameBacking \/ SyncBackingDir \/ RemoveTmpOverlay \/ CreateOverlay
           \/ SyncOverlay \/ RenameOverlay
  <2>1. pc \in Announced /\ pc' \in Announced
    BY <1>6 DEF RemoveTmp, CreateTmp, CopyBlock, CloseTmp, SyncTmp, Verify,
                RenameBacking, SyncBackingDir, RemoveTmpOverlay, CreateOverlay,
                SyncOverlay, RenameOverlay, Announced, Marked, Replaced
  <2>2. /\ names["marker"] = Marker
        /\ \A n \in onDisk[OverlayDir] : n["marker"] = Marker
    BY <2>1 DEF MarkerOK, Announced
  <2>3. /\ names'["marker"] = names["marker"]
        /\ \A n \in onDisk'[OverlayDir] :
             n \in onDisk[OverlayDir] \/ n["marker"] = names["marker"]
    <3>1. CASE RemoveTmp \/ CreateTmp \/ RemoveTmpOverlay \/ CreateOverlay
      BY <3>1, MarkerKeptByLink
         DEF RemoveTmp, CreateTmp, RemoveTmpOverlay, CreateOverlay, Remove, Paths
    <3>2. CASE RenameBacking \/ RenameOverlay
      BY <3>2, MarkerKeptByRename DEF RenameBacking, RenameOverlay, Paths
    <3>3. CASE SyncBackingDir
      BY <3>3, MarkerKeptBySync DEF SyncBackingDir, SyncDirectory, Dirs
    <3>4. CASE CopyBlock \/ CloseTmp \/ SyncTmp \/ Verify \/ SyncOverlay
      BY <3>4 DEF CopyBlock, CloseTmp, SyncTmp, Verify, SyncOverlay, SyncFile, fsVars
    <3> QED
      BY <1>6, <3>1, <3>2, <3>3, <3>4
  <2>4. Marker' = Marker /\ pc' # "unmark"
    BY <2>1 DEF Marker, Announced, Marked, Replaced
  <2> QED
    BY <2>1, <2>2, <2>3, <2>4 DEF MarkerOK
<1>7. CASE UNCHANGED vars
  BY <1>7 DEF vars, fsVars, MarkerOK, Marker
<1> QED
  BY <1>1, <1>2, <1>3, <1>4, <1>5, <1>6, <1>7 DEF Next, Step, Terminated

\* A crash that shows the new backing file came after the rename, and so after
\* the sync of the marker's entry.
LEMMA MarkerSurvives ==
  ASSUME CommitInv, MarkerOK, Crash, pc # "idle", outcome = "none",
         names'["backing"] = NewBacking
  PROVE  names'["marker"] # NoFile
<1>1. PICK o \in onDisk[OverlayDir], f \in onDisk[BackingDir] :
        /\ OverlayDir = BackingDir => o = f
        /\ names' = [p \in Paths |-> IF Dir(p) = OverlayDir THEN o[p] ELSE f[p]]
  BY DEF Crash
<1>2. names'["backing"] = f["backing"] /\ names'["marker"] = o["marker"]
  BY <1>1 DEF Dir, Paths
<1>3. NewBacking \in SeenBackings
  BY <1>2 DEF SeenBackings
<1>4. pc \notin BeforeRename
  <2>1. NewBacking[2] = run /\ run \in Nat
    BY SizesAssumption DEF NewBacking, CommitInv, TypeOK
  <2>2. pc \in BeforeRename => NewBacking[2] < run
    BY <1>3 DEF CommitInv, Fresh
  <2> QED
    BY <2>1, <2>2
<1>5. pc \in Announced
  BY <1>4 DEF CommitInv, TypeOK, MarkerOK, BeforeRename, Announced, Marked, Replaced
<1>6. o["marker"] = Marker
  BY <1>5 DEF MarkerOK
<1> QED
  BY <1>2, <1>6 DEF Marker, NoFile

\* Whoever finds a new backing file under an overlay that was not reset, after a
\* crash, finds the marker too: the rename of the backing file never reaches the
\* disk before the marker's entry.
THEOREM MarkerTells ==
  ASSUME BackingReadAs = BackingFormat PROVE Spec => MarkerCovers
<1>1. Init => CommitInv /\ MarkerOK
  BY CommitInit, MarkerInit
<1>2. CommitInv /\ MarkerOK /\ [Next]_vars => CommitInv' /\ MarkerOK'
  BY CommitStep, MarkerStep DEF CommitInv
<1>3. ASSUME CommitInv, MarkerOK, [Next]_vars
      PROVE  [ pc # "idle" /\ outcome = "none" /\ outcome' = "crashed"
               /\ names'["backing"] = NewBacking /\ names'["overlay"] # NewOverlay
                 => names'["marker"] # NoFile ]_vars
  <2> SUFFICES ASSUME pc # "idle", outcome = "none", outcome' = "crashed",
                      names'["backing"] = NewBacking
               PROVE  names'["marker"] # NoFile
    OBVIOUS
  <2>1. Crash
    <3>1. ~ UNCHANGED vars
      BY DEF vars
    <3>2. ~ Step
      BY DEF Step, Mark, SyncMark, SyncMarkDir, RemoveTmp, CreateTmp, CopyBlock,
             CloseTmp, SyncTmp, Verify, RenameBacking, SyncBackingDir,
             RemoveTmpOverlay, CreateOverlay, SyncOverlay, RenameOverlay,
             SyncOverlayDir, Unmark, MarkFails, CreateTmpFails, Fails,
             SyncFile, SyncDirectory
    <3>3. ~ Open /\ ~ Terminated
      BY <3>1 DEF Open, Terminated
    <3> QED
      BY <1>3, <3>1, <3>2, <3>3 DEF Next
  <2> QED
    BY <1>3, <2>1, MarkerSurvives
<1> QED
  BY <1>1, <1>2, <1>3, PTL DEF Spec, MarkerCovers
=============================================================================
