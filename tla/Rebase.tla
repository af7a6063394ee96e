------------------------------- MODULE Rebase -------------------------------
(***************************************************************************)
(* RebasePath of internal/formats/qcow2/rebase.go, which gives an image    *)
(* another backing file in up to three writes, each of which may fail or   *)
(* be the last; what Open (reader.go) then takes for the backing file; and *)
(* the reads of the chain that it opened (Qcow2Reader, Qcow2Map).          *)
(*                                                                         *)
(* A unit of the first cluster is 36 bytes: a header of version 2 takes 2, *)
(* one of version 3 takes 3 or more. A name has one letter to a unit.      *)
(***************************************************************************)
EXTENDS Qcow2Map

CONSTANTS
  HeaderLengths,   \* HeaderLength of the image: 2 (version 2), 3 or more
  FirstCluster,    \* units of a cluster
  Images,          \* names that lead to an image -> what may be found there
  NewNames,        \* names that RebasePath may be given, the empty one clears
  MaxRebases       \* bound: calls of RebasePath

ASSUME RebaseAssumption ==
  /\ HeaderLengths \subseteq 2 .. FirstCluster /\ FirstCluster \in Nat
  /\ <<>> \notin DOMAIN Images /\ MaxRebases \in Nat
  /\ DOMAIN Images \union NewNames \subseteq Seq(STRING)
  /\ \A n \in DOMAIN Images : \A i \in DOMAIN n : n[i] # "zero"    \* no path has a NUL
  /\ \A n \in DOMAIN Images : Images[n] # {} /\ Images[n] \subseteq BackingImage

Marshalled == 3    \* MarshalBinary writes 104 bytes, whatever the version

Units == 0 .. FirstCluster - 1

NoName == [off |-> 0, size |-> 0]

VARIABLES
  HeaderLength,  \* h.HeaderLength
  cluster,       \* the first cluster: "header", letters and zeros
  fields,        \* BackingFileOffset and BackingFileSize in the file
  h,             \* the same in the header that RebasePath has read
  at,            \* the next statement of RebasePath; "idle"; "open": read from
  goal,          \* newBacking of the last call
  before,        \* history: the name when that call came
  outcome,       \* of that call: "none" yet, "ok", "error", "stopped"
  calls          \* calls so far

fileVars    == <<HeaderLength, cluster, fields>>
rebaseVars  == <<fileVars, h, at, goal, before, outcome, calls, vars>>

\* readBackingFileName.
BackingName ==
  IF fields.off = 0 \/ fields.size = 0 THEN <<>>
  ELSE [i \in 1 .. fields.size |->
          IF fields.off + i - 1 \in Units THEN cluster[fields.off + i - 1] ELSE "zero"]

\* The cluster once name n is written at unit o of it.
WithName(c, o, n) ==
  [u \in Units |-> IF u \in o .. o + Len(n) - 1 THEN n[u - o + 1] ELSE c[u]]

ZeroName(n) == [i \in 1 .. n |-> "zero"]

\* An image that Create, or another program, made with or without a backing
\* file, whose name may come later in the cluster than where rebase puts it.
RebaseInit ==
  /\ HeaderLength \in HeaderLengths
  /\ \E n \in {<<>>} \union DOMAIN Images :
       \E o \in {HeaderLength, HeaderLength + 1} :
         LET blank == [u \in Units |-> IF u < HeaderLength THEN "header" ELSE "zero"] IN
           /\ o + Len(n) <= FirstCluster
           /\ cluster = WithName(blank, o, n)
           /\ fields = IF n = <<>> THEN NoName ELSE [off |-> o, size |-> Len(n)]
  /\ h = NoName /\ at = "idle"
  /\ goal = <<>> /\ before = <<>> /\ outcome = "none" /\ calls = 0
  /\ Closed

-----------------------------------------------------------------------------
(* RebasePath.                                                             *)

\* Mutant: a name may reach into the next cluster.
maxBytesOfCluster == FirstCluster
maxBytes == FirstCluster - HeaderLength

RebasePath ==
  /\ at = "idle" /\ calls < MaxRebases
  /\ \E n \in NewNames :
       /\ goal' = n
       /\ h' = IF n = <<>> THEN NoName ELSE [off |-> HeaderLength, size |-> Len(n)]
       /\ IF Len(n) > maxBytes
          THEN at' = "idle" /\ outcome' = "error"
          ELSE /\ at' = CASE n # <<>> -> "zero"
                          [] n = <<>> /\ BackingName # <<>> -> "clear"
                          [] n = <<>> /\ BackingName = <<>> -> "header"
               /\ outcome' = "none"
  /\ before' = BackingName
  /\ calls' = calls + 1
  /\ UNCHANGED <<fileVars, vars>>

ClearName ==        \* the old name is zeroed where it is
  /\ at = "clear"
  /\ cluster' = WithName(cluster, fields.off, ZeroName(fields.size))
  /\ at' = "header"
  /\ UNCHANGED <<HeaderLength, fields, h, goal, before, outcome, calls, vars>>

\* Mutant: the new name is written over what was there.
ZeroAreaSkipped ==
  /\ at = "zero"
  /\ at' = "name"
  /\ UNCHANGED <<fileVars, h, goal, before, outcome, calls, vars>>

ZeroArea ==
  /\ at = "zero"
  /\ cluster' = WithName(cluster, HeaderLength, ZeroName(maxBytes))
  /\ at' = "name"
  /\ UNCHANGED <<HeaderLength, fields, h, goal, before, outcome, calls, vars>>

WriteName ==
  /\ at = "name"
  /\ cluster' = WithName(cluster, HeaderLength, goal)
  /\ at' = "header"
  /\ UNCHANGED <<HeaderLength, fields, h, goal, before, outcome, calls, vars>>

\* Mutant: the header keeps the length of the old name.
WriteHeaderOldSize ==
  /\ at = "header"
  /\ cluster' = [u \in Units |-> IF u < Marshalled THEN "header" ELSE cluster[u]]
  /\ fields' = [h EXCEPT !.size = IF fields.size = 0 THEN @ ELSE fields.size]
  /\ at' = "idle" /\ outcome' = "ok"
  /\ UNCHANGED <<HeaderLength, h, goal, before, calls, vars>>

WriteHeader ==
  /\ at = "header"
  /\ cluster' = [u \in Units |-> IF u < Marshalled THEN "header" ELSE cluster[u]]
  /\ fields' = h
  /\ at' = "idle" /\ outcome' = "ok"
  /\ UNCHANGED <<HeaderLength, h, goal, before, calls, vars>>

\* The program is killed, or a write fails, its first units having reached the
\* file. A header is written whole or not at all.
RebaseStops ==
  /\ at \in {"clear", "zero", "name", "header"}
  /\ LET o    == IF at = "clear" THEN fields.off ELSE HeaderLength
         name == CASE at = "clear"  -> ZeroName(fields.size)
                   [] at = "zero"   -> ZeroName(maxBytes)
                   [] at = "name"   -> goal
                   [] at = "header" -> <<>>
     IN  \E n \in 0 .. Len(name) : cluster' = WithName(cluster, o, SubSeq(name, 1, n))
  /\ at' = "idle" /\ outcome' = "stopped"
  /\ UNCHANGED <<HeaderLength, fields, h, goal, before, calls, vars>>

-----------------------------------------------------------------------------
(* Open, and a read of what it opened.                                     *)

\* Nothing is left of the calls of RebasePath but the file.
AnotherProcess ==
  /\ at' = "open" /\ h' = NoName
  /\ goal' = <<>> /\ before' = <<>> /\ outcome' = "none" /\ calls' = 0
  /\ UNCHANGED fileVars

OpenChain ==
  /\ at = "idle"
  /\ BackingName = <<>> \/ BackingName \in DOMAIN Images
  /\ backed' = (BackingName # <<>>)
  /\ backing' \in IF BackingName = <<>> THEN {NoBacking} ELSE Images[BackingName]
  /\ ReadAt
  /\ AnotherProcess

OpenFails ==        \* there is no image of that name: "open backing"
  /\ at = "idle" /\ BackingName # <<>> /\ BackingName \notin DOMAIN Images
  /\ AnotherProcess
  /\ pc' = "failed"
  /\ UNCHANGED <<refs, backed, backing, off, len, read, p>>

ReadImage ==
  /\ at = "open" /\ Step
  /\ UNCHANGED <<fileVars, h, at, goal, before, outcome, calls>>

RebaseNext ==
  \/ RebasePath \/ ClearName \/ ZeroArea \/ WriteName \/ WriteHeader \/ RebaseStops
  \/ OpenChain \/ OpenFails \/ ReadImage

\* The loop of a read goes on by itself; that it ever fails is not assumed.
ReadGoesOn == ReadImage /\ pc' # "failed"

RebaseSpec == RebaseInit /\ [][RebaseNext]_rebaseVars /\ WF_rebaseVars(ReadGoesOn)

-----------------------------------------------------------------------------

TypeOK ==
  /\ HeaderLength \in HeaderLengths
  /\ DOMAIN cluster = Units
  /\ fields.off + fields.size <= FirstCluster
  /\ at \in {"idle", "clear", "zero", "name", "header", "open"}
  /\ at # "open" => pc = "closed"
  /\ pc # "closed" => ReaderTypeOK

\* After RebasePath has returned nil the image has the backing file that was
\* asked for, or none if none was.
NewNameReadsBack == outcome = "ok" => BackingName = goal

\* What a call that was stopped leaves: an image that opens on the old backing
\* file, on the new one (on none, if that is what was asked), or, as the header
\* still tells where the old name was and how long, on the file that a piece of
\* the new name leads to. Letters of the two names are never mixed, and an image
\* that had no backing file has none or the new one.
StoppedOpensOn ==
  outcome = "stopped" /\ (BackingName = <<>> \/ BackingName \in DOMAIN Images) =>
    \/ BackingName \in {before, goal}
    \/ \E o \in 1 .. Len(goal) - Len(before) + 1 :
         BackingName = SubSeq(goal, o, o + Len(before) - 1)
=============================================================================
