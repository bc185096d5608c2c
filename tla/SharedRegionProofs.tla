-------------------------- MODULE SharedRegionProofs --------------------------
(***************************************************************************)
(* Proofs about SharedRegion, for every set of ranks and whatever becomes  *)
(* of the free huge pages: that ranks which come up on one path share one  *)
(* file, that they are on one path unless huge pages came back after some  *)
(* rank gave them up, and that no file is left behind.                     *)
(***************************************************************************)
EXTENDS SharedRegion, SequenceTheorems, TLAPS

-----------------------------------------------------------------------------
(***************************************************************************)
(* The inductive invariant.                                                *)
(***************************************************************************)
Label == {"open", "reopen", "wait", "validate", "truncate", "discard", "map",
          "mapped", "raised", "gone"}
Done  == {"mapped", "raised", "gone"}
File  == 0 .. Len(size)

Types ==
    /\ pc \in [Rank -> Label]
    /\ path \in [Rank -> Path]
    /\ creator \in [Rank -> BOOLEAN]
    /\ size \in Seq({"empty", "full"})
    /\ fd \in [Rank -> File]
    /\ dir \in [Path -> File]
    /\ backed \in BOOLEAN
    /\ recovered \in BOOLEAN

Full(f) == f # NoFile /\ size[f] = "full"
Owner(r) == pc[r] \in {"validate", "truncate", "discard"}

\* What a rank has open at each label.
OpenFiles ==
    /\ \A r \in Rank : pc[r] \in {"open", "reopen"} => fd[r] = NoFile
    /\ \A r \in Rank : pc[r] = "wait" => fd[r] # NoFile
    /\ \A r \in Rank : pc[r] \in {"map", "mapped"} => Full(fd[r])

\* A name has one owner, from its creation until it is sized or given up, and
\* leads to the file that owner has open.
Owners ==
    /\ \A r \in Rank : Owner(r) =>
          fd[r] = dir[path[r]] /\ fd[r] # NoFile /\ size[fd[r]] = "empty"
    /\ \A r, s \in Rank : Owner(r) /\ Owner(s) /\ path[r] = path[s] => r = s

\* No file has two names, and who has a file open came by its name.
Names ==
    /\ dir["huge"] = dir["shm"] => dir["huge"] = NoFile
    /\ \A r \in Rank, p \in Path : fd[r] = dir[p] /\ fd[r] # NoFile => path[r] = p
    /\ \A r, s \in Rank : fd[r] = fd[s] /\ fd[r] # NoFile => path[r] = path[s]

\* A sized file keeps its name as long as some rank has yet to open it.
FullFilesAreNamed ==
    (\E r \in Rank : pc[r] \notin Done) =>
        \A f \in File : Full(f) => \E p \in Path : dir[p] = f

\* Every name has a rank that is to unlink it, or that failed to.
NamesAreOwned ==
    \A p \in Path : dir[p] # NoFile =>
        \E r \in Rank :
            /\ fd[r] = dir[p] /\ path[r] = p
            /\ Owner(r) \/ (creator[r] /\ pc[r] \in {"map", "mapped", "raised"})

\* Two sized files that ranks of one path have open are the same.
OneFilePerPath ==
    \A r, s \in Rank :
        Full(fd[r]) /\ Full(fd[s]) /\ path[r] = path[s] => fd[r] = fd[s]

\* While no pages came back: once a rank fell back, no rank will ever size the
\* huge-page file.  And the first to fall back does so because pages lack.
FallBackIsFinal ==
    /\ \A s \in Rank : path[s] = "shm" =>
          /\ ~Full(dir["huge"])
          /\ \A r \in Rank : path[r] = "huge" => ~backed /\ pc[r] # "truncate"
    /\ dir["shm"] # NoFile => \E s \in Rank : path[s] = "shm"
    /\ \A r \in Rank : path[r] = "huge" =>
          /\ pc[r] = "discard" => ~backed
          /\ pc[r] \in {"reopen", "wait"} /\ dir["huge"] = NoFile =>
                \E s \in Rank : path[s] = "shm"

OneFullFile == \A f, g \in File : Full(f) /\ Full(g) => f = g

Structure ==
    Types /\ OpenFiles /\ Owners /\ Names /\ FullFilesAreNamed /\ NamesAreOwned

IInv == Structure /\ OneFilePerPath /\ (~recovered => FallBackIsFinal /\ OneFullFile)

-----------------------------------------------------------------------------
(***************************************************************************)
(* The steps, without the operators of SharedRegion.                       *)
(***************************************************************************)
\* A new file is empty, and the files there are do not change.
LEMMA CreateGrows ==
  ASSUME Types, NEW r \in Rank, Create(r)
  PROVE  /\ size' \in Seq({"empty", "full"})
         /\ Len(size) \in Nat
         /\ Len(size') = Len(size) + 1
         /\ \A f \in 1 .. Len(size) : size'[f] = size[f]
         /\ size'[Len(size) + 1] = "empty"
  BY AppendProperties, LenProperties DEF Types, Create

\* Sizing a file changes no other one.
LEMMA TruncateSizes ==
  ASSUME Types, NEW r \in Rank, fd[r] # NoFile, Truncate(r, TRUE)
  PROVE  /\ size' \in Seq({"empty", "full"})
         /\ Len(size') = Len(size)
         /\ \A f \in 1 .. Len(size) :
               size'[f] = IF f = fd[r] THEN "full" ELSE size[f]
<1>1. Len(size) \in Nat /\ fd[r] \in 1 .. Len(size)
  BY LenProperties DEF Types, File, NoFile
<1>2. size' = [size EXCEPT ![fd[r]] = "full"]
  BY DEF Truncate
<1>3. size \in Seq({"empty", "full"})
  BY DEF Types
<1> HIDE DEF Types
<1> QED
  BY <1>1, <1>2, <1>3, ExceptSeq

\* A joiner opens the file, falls back, or raises.
LEMMA ReopenCases ==
  ASSUME NEW r \in Rank, Reopen(r)
  PROVE  /\ pc[r] = "reopen" /\ UNCHANGED <<creator, dir, size, backed, recovered>>
         /\ \/ /\ dir[path[r]] # NoFile
               /\ fd' = [fd EXCEPT ![r] = dir[path[r]]]
               /\ pc' = [pc EXCEPT ![r] = "wait"] /\ path' = path
            \/ /\ dir["huge"] = NoFile /\ path[r] = "huge" /\ fd' = fd
               /\ pc' = [pc EXCEPT ![r] = "open"]
               /\ path' = [path EXCEPT ![r] = "shm"]
            \/ /\ pc' = [pc EXCEPT ![r] = "raised"] /\ path' = path /\ fd' = fd
<1>1. CASE dir[path[r]] # NoFile
  BY <1>1 DEF Reopen, Opens, Goto
<1>2. CASE dir[path[r]] = NoFile /\ path[r] = "huge"
  BY <1>2 DEF Reopen, FallBack, Goto
<1>3. CASE dir[path[r]] = NoFile /\ path[r] # "huge"
  BY <1>3 DEF Reopen, Goto
<1> QED
  BY <1>1, <1>2, <1>3

\* A wait that ends without the size falls back or raises.
LEMMA TimedOutCases ==
  ASSUME NEW r \in Rank, TimedOut(r)
  PROVE  /\ pc[r] = "wait" /\ UNCHANGED <<creator, dir, size, backed, recovered>>
         /\ fd' = [fd EXCEPT ![r] = NoFile]
         /\ \/ /\ dir["huge"] = NoFile /\ path[r] = "huge"
               /\ pc' = [pc EXCEPT ![r] = "open"]
               /\ path' = [path EXCEPT ![r] = "shm"]
            \/ pc' = [pc EXCEPT ![r] = "raised"] /\ path' = path
  BY DEF TimedOut, Opens, Abandoned, FallBack, Goto

\* An owner that gives up unlinks its name, and falls back or raises.
LEMMA DiscardCases ==
  ASSUME NEW r \in Rank, Discard(r)
  PROVE  /\ pc[r] = "discard" /\ UNCHANGED <<creator, size, backed, recovered>>
         /\ fd' = [fd EXCEPT ![r] = NoFile]
         /\ dir' = [dir EXCEPT ![path[r]] = NoFile]
         /\ \/ /\ path[r] = "huge"
               /\ pc' = [pc EXCEPT ![r] = "open"]
               /\ path' = [path EXCEPT ![r] = "shm"]
            \/ /\ path[r] # "huge"
               /\ pc' = [pc EXCEPT ![r] = "raised"] /\ path' = path
  BY DEF Discard, Opens, Unlink, FallBack, Goto

\* The structure is inductive: it does not depend on the huge pages.
LEMMA StructureKept == Structure /\ [Next]_vars => Structure'
<1> SUFFICES ASSUME Structure, [Next]_vars PROVE Structure'
  OBVIOUS
<1>0. Len(size) \in Nat /\ NoFile \in File
  BY LenProperties DEF Structure, Types, File, NoFile
<1>1. ASSUME NEW r \in Rank, Create(r) PROVE Structure'
  <2>0. /\ size' \in Seq({"empty", "full"})
        /\ Len(size') = Len(size) + 1
        /\ \A f \in 1 .. Len(size) : size'[f] = size[f]
        /\ size'[Len(size) + 1] = "empty"
    BY <1>1, CreateGrows DEF Structure
  <2>1. Types'
    BY <1>0, <1>1, <2>0
      DEF Structure, Create, Goto, Opens, Unlink, File, NoFile, Types,
          Label, Path
  <2>2. OpenFiles'
    BY <1>0, <1>1, <2>0
      DEF Structure, Create, Goto, Opens, Unlink, File, NoFile, Types,
          OpenFiles, Full
  <2>3. Owners'
    BY <1>0, <1>1, <2>0
      DEF Structure, Create, Goto, Opens, Unlink, File, NoFile, Types,
          Owners, Owner, OpenFiles
  <2>4. Names'
    BY <1>0, <1>1, <2>0
      DEF Structure, Create, Goto, Opens, Unlink, File, NoFile, Types,
          Names, OpenFiles, Path
  <2>5. FullFilesAreNamed'
    BY <1>0, <1>1, <2>0
      DEF Structure, Create, Goto, Opens, Unlink, File, NoFile, Types,
          FullFilesAreNamed, Full, Done, Owners, Owner, Path
  <2>6. NamesAreOwned'
    BY <1>0, <1>1, <2>0
      DEF Structure, Create, Goto, Opens, Unlink, File, NoFile, Types,
          NamesAreOwned, Owner, OpenFiles, Owners, Names, Path
  <2> QED
    BY <2>1, <2>2, <2>3, <2>4, <2>5, <2>6 DEF Structure
<1>2. ASSUME NEW r \in Rank, AlreadyExists(r) PROVE Structure'
  <2>0. size' = size /\ File' = File
    BY <1>2 DEF AlreadyExists, File
  <2>1. Types'
    BY <1>0, <1>2, <2>0
      DEF Structure, AlreadyExists, Goto, Opens, Unlink, Types, Label,
          Path
  <2>2. OpenFiles'
    BY <1>0, <1>2, <2>0
      DEF Structure, AlreadyExists, Goto, Opens, Unlink, Types,
          OpenFiles, Full
  <2>3. Owners'
    BY <1>0, <1>2, <2>0
      DEF Structure, AlreadyExists, Goto, Opens, Unlink, Types, Owners,
          Owner, OpenFiles
  <2>4. Names'
    BY <1>0, <1>2, <2>0
      DEF Structure, AlreadyExists, Goto, Opens, Unlink, Types, Names,
          OpenFiles, Path
  <2>5. FullFilesAreNamed'
    BY <1>0, <1>2, <2>0
      DEF Structure, AlreadyExists, Goto, Opens, Unlink, Types,
          FullFilesAreNamed, Full, Done, Owners, Owner, Path
  <2>6. NamesAreOwned'
    BY <1>0, <1>2, <2>0
      DEF Structure, AlreadyExists, Goto, Opens, Unlink, Types,
          NamesAreOwned, Owner, OpenFiles, Owners, Names, Path
  <2> QED
    BY <2>1, <2>2, <2>3, <2>4, <2>5, <2>6 DEF Structure
<1>3. ASSUME NEW r \in Rank, Reopen(r) PROVE Structure'
  <2>0. size' = size /\ File' = File
    BY <1>3, ReopenCases DEF Reopen, File
  <2>1. Types'
    BY <1>0, <1>3, ReopenCases, <2>0 DEF Structure, Types, Label, Path
  <2>2. OpenFiles'
    <3>1. \A q \in Rank \ {r} : pc'[q] = pc[q] /\ fd'[q] = fd[q]
      BY <1>0, <1>3, ReopenCases DEF Structure, Types
    <3>2. \/ pc'[r] = "wait" /\ fd'[r] # NoFile
          \/ pc'[r] = "open" /\ fd'[r] = NoFile
          \/ pc'[r] = "raised"
      BY <1>0, <1>3, ReopenCases DEF Structure, Types, OpenFiles
    <3> QED BY <1>0, <2>0, <3>1, <3>2 DEF Structure, OpenFiles, Full
  <2>3. Owners'
    BY <1>0, <1>3, ReopenCases, <2>0
      DEF Structure, Types, Owners, Owner, OpenFiles
  <2>4. Names'
    BY <1>0, <1>3, ReopenCases, <2>0
      DEF Structure, Types, Names, OpenFiles, Path
  <2>5. FullFilesAreNamed'
    BY <1>0, <1>3, ReopenCases, <2>0
      DEF Structure, Types, FullFilesAreNamed, Full, Done, Owners,
          Owner, Path
  <2>6. NamesAreOwned'
    BY <1>0, <1>3, ReopenCases, <2>0
      DEF Structure, Types, NamesAreOwned, Owner, OpenFiles, Owners,
          Names, Path
  <2> QED
    BY <2>1, <2>2, <2>3, <2>4, <2>5, <2>6 DEF Structure
<1>4. ASSUME NEW r \in Rank, SizeReached(r) PROVE Structure'
  <2>0. size' = size /\ File' = File
    BY <1>4 DEF SizeReached, File
  <2>1. Types'
    BY <1>0, <1>4, <2>0
      DEF Structure, SizeReached, Goto, Opens, Unlink, Types, Label,
          Path
  <2>2. OpenFiles'
    BY <1>0, <1>4, <2>0
      DEF Structure, SizeReached, Goto, Opens, Unlink, Types, OpenFiles,
          Full
  <2>3. Owners'
    BY <1>0, <1>4, <2>0
      DEF Structure, SizeReached, Goto, Opens, Unlink, Types, Owners,
          Owner, OpenFiles
  <2>4. Names'
    BY <1>0, <1>4, <2>0
      DEF Structure, SizeReached, Goto, Opens, Unlink, Types, Names,
          OpenFiles, Path
  <2>5. FullFilesAreNamed'
    BY <1>0, <1>4, <2>0
      DEF Structure, SizeReached, Goto, Opens, Unlink, Types,
          FullFilesAreNamed, Full, Done, Owners, Owner, Path
  <2>6. NamesAreOwned'
    BY <1>0, <1>4, <2>0
      DEF Structure, SizeReached, Goto, Opens, Unlink, Types,
          NamesAreOwned, Owner, OpenFiles, Owners, Names, Path
  <2> QED
    BY <2>1, <2>2, <2>3, <2>4, <2>5, <2>6 DEF Structure
<1>5. ASSUME NEW r \in Rank, TimedOut(r) PROVE Structure'
  <2>0. size' = size /\ File' = File
    BY <1>5, TimedOutCases DEF TimedOut, File
  <2>1. Types'
    BY <1>0, <1>5, TimedOutCases, <2>0 DEF Structure, Types, Label, Path
  <2>2. OpenFiles'
    BY <1>0, <1>5, TimedOutCases, <2>0 DEF Structure, Types, OpenFiles, Full
  <2>3. Owners'
    BY <1>0, <1>5, TimedOutCases, <2>0
      DEF Structure, Types, Owners, Owner, OpenFiles
  <2>4. Names'
    BY <1>0, <1>5, TimedOutCases, <2>0
      DEF Structure, Types, Names, OpenFiles, Path
  <2>5. FullFilesAreNamed'
    BY <1>0, <1>5, TimedOutCases, <2>0
      DEF Structure, Types, FullFilesAreNamed, Full, Done, Owners,
          Owner, Path
  <2>6. NamesAreOwned'
    BY <1>0, <1>5, TimedOutCases, <2>0
      DEF Structure, Types, NamesAreOwned, Owner, OpenFiles, Owners,
          Names, Path
  <2> QED
    BY <2>1, <2>2, <2>3, <2>4, <2>5, <2>6 DEF Structure
<1>6. ASSUME NEW r \in Rank, NEW ok \in BOOLEAN, Validate(r, ok)
      PROVE Structure'
  <2>0. size' = size /\ File' = File
    BY <1>6 DEF Validate, File
  <2>1. Types'
    BY <1>0, <1>6, <2>0
      DEF Structure, Validate, Goto, Opens, Unlink, Types, Label, Path
  <2>2. OpenFiles'
    BY <1>0, <1>6, <2>0
      DEF Structure, Validate, Goto, Opens, Unlink, Types, OpenFiles,
          Full
  <2>3. Owners'
    BY <1>0, <1>6, <2>0
      DEF Structure, Validate, Goto, Opens, Unlink, Types, Owners,
          Owner, OpenFiles
  <2>4. Names'
    BY <1>0, <1>6, <2>0
      DEF Structure, Validate, Goto, Opens, Unlink, Types, Names,
          OpenFiles, Path
  <2>5. FullFilesAreNamed'
    BY <1>0, <1>6, <2>0
      DEF Structure, Validate, Goto, Opens, Unlink, Types,
          FullFilesAreNamed, Full, Done, Owners, Owner, Path
  <2>6. NamesAreOwned'
    BY <1>0, <1>6, <2>0
      DEF Structure, Validate, Goto, Opens, Unlink, Types,
          NamesAreOwned, Owner, OpenFiles, Owners, Names, Path
  <2> QED
    BY <2>1, <2>2, <2>3, <2>4, <2>5, <2>6 DEF Structure
<1>7. ASSUME NEW r \in Rank, NEW ok \in BOOLEAN, Truncate(r, ok)
      PROVE Structure'
  <2>0. /\ size' \in Seq({"empty", "full"})
        /\ Len(size') = Len(size)
        /\ \A f \in 1 .. Len(size) :
              size'[f] = IF ok /\ f = fd[r] THEN "full" ELSE size[f]
    <3>1. CASE ok
      <4>1. fd[r] # NoFile
        BY <1>7 DEF Structure, Owners, Owner, Truncate
      <4> QED
        BY <1>7, <3>1, <4>1, TruncateSizes DEF Structure
    <3>2. CASE ~ok
      BY <1>7, <3>2 DEF Structure, Types, Truncate
    <3> QED
      BY <3>1, <3>2
  <2>1. Types'
    BY <1>0, <1>7, <2>0
      DEF Structure, Truncate, Goto, Opens, Unlink, File, NoFile, Types,
          Label, Path
  <2>11. pc[r] = "truncate" /\ Owner(r) /\ fd' = fd /\ path' = path /\ dir' = dir
    BY <1>7 DEF Truncate, Owner
  <2>12. fd[r] \in 1 .. Len(size) /\ fd[r] = dir[path[r]] /\ size[fd[r]] = "empty"
    BY <1>0, <2>11 DEF Structure, Types, Owners, File, NoFile
  <2>13. File' = File /\ \A f \in File \ {NoFile} : f \in 1 .. Len(size)
    BY <1>0, <2>0 DEF File, NoFile
  <2>14. \A f \in File : Full(f)' <=> (Full(f) \/ (ok /\ f = fd[r]))
    <3> SUFFICES ASSUME NEW f \in File PROVE Full(f)' <=> (Full(f) \/ (ok /\ f = fd[r]))
      OBVIOUS
    <3>1. CASE f = NoFile
      BY <3>1, <2>12 DEF Full, NoFile
    <3>2. CASE f # NoFile
      <4>1. f \in 1 .. Len(size)
        BY <3>2, <2>13
      <4>2. size'[f] = IF ok /\ f = fd[r] THEN "full" ELSE size[f]
        BY <4>1, <2>0
      <4> QED
        BY <3>2, <4>2, <2>12 DEF Full
    <3> QED
      BY <3>1, <3>2
  <2>15. pc' = [pc EXCEPT ![r] = IF ok THEN "map" ELSE "discard"]
    BY <1>7 DEF Truncate, Goto
  <2>2. OpenFiles'
    BY <1>0, <2>11, <2>12, <2>14, <2>15
      DEF Structure, Types, OpenFiles, Full, NoFile
  <2>3. Owners'
    <3>1. ASSUME NEW s \in Rank, Owner(s)' PROVE Owner(s)
      BY <3>1, <2>11, <2>15 DEF Owner, Structure, Types
    <3>2. ASSUME NEW s \in Rank, Owner(s)'
          PROVE  fd[s] = dir[path[s]] /\ fd[s] # NoFile /\ size'[fd[s]] = "empty"
      <4>1. /\ fd[s] = dir[path[s]] /\ fd[s] \in 1 .. Len(size)
            /\ size[fd[s]] = "empty"
        BY <3>1, <3>2, <1>0, <2>13 DEF Structure, Types, Owners
      <4>2. ok => s # r
        BY <3>2, <2>15 DEF Owner, Structure, Types
      <4>3. ok => fd[s] # fd[r]
        BY <4>1, <4>2, <2>11, <2>12, <3>1, <3>2
          DEF Structure, Types, Owners, Names, Path, NoFile
      <4> QED
        BY <4>1, <4>3, <2>0 DEF NoFile
    <3> QED
      BY <3>1, <3>2, <2>11 DEF Structure, Owners
  <2>4. Names'
    BY <2>11 DEF Structure, Names
  <2>5. FullFilesAreNamed'
    BY <2>11, <2>12, <2>13, <2>14, <2>15
      DEF Structure, Types, FullFilesAreNamed, Done
  <2>6. NamesAreOwned'
    <3>1. creator' = IF ok THEN [creator EXCEPT ![r] = TRUE] ELSE creator
      BY <1>7 DEF Truncate
    <3> QED
      BY <2>11, <2>15, <3>1 DEF Structure, Types, NamesAreOwned, Owner
  <2> QED
    BY <2>1, <2>2, <2>3, <2>4, <2>5, <2>6 DEF Structure
<1>8. ASSUME NEW r \in Rank, NEW ok \in BOOLEAN, Map(r, ok) PROVE Structure'
  <2>0. size' = size /\ File' = File
    BY <1>8 DEF Map, File
  <2>1. Types'
    BY <1>0, <1>8, <2>0
      DEF Structure, Map, Goto, Opens, Unlink, Types, Label, Path
  <2>2. OpenFiles'
    BY <1>0, <1>8, <2>0
      DEF Structure, Map, Goto, Opens, Unlink, Types, OpenFiles, Full
  <2>3. Owners'
    BY <1>0, <1>8, <2>0
      DEF Structure, Map, Goto, Opens, Unlink, Types, Owners, Owner,
          OpenFiles
  <2>4. Names'
    BY <1>0, <1>8, <2>0
      DEF Structure, Map, Goto, Opens, Unlink, Types, Names, OpenFiles,
          Path
  <2>5. FullFilesAreNamed'
    BY <1>0, <1>8, <2>0
      DEF Structure, Map, Goto, Opens, Unlink, Types, FullFilesAreNamed,
          Full, Done, Owners, Owner, Path
  <2>6. NamesAreOwned'
    BY <1>0, <1>8, <2>0
      DEF Structure, Map, Goto, Opens, Unlink, Types, NamesAreOwned,
          Owner, OpenFiles, Owners, Names, Path
  <2> QED
    BY <2>1, <2>2, <2>3, <2>4, <2>5, <2>6 DEF Structure
<1>9. ASSUME NEW r \in Rank, Discard(r) PROVE Structure'
  <2>0. size' = size /\ File' = File
    BY <1>9, DiscardCases DEF Discard, File
  <2>1. Types'
    BY <1>0, <1>9, DiscardCases, <2>0 DEF Structure, Types, Label, Path
  <2>2. OpenFiles'
    BY <1>0, <1>9, DiscardCases, <2>0 DEF Structure, Types, OpenFiles, Full
  <2>3. Owners'
    BY <1>0, <1>9, DiscardCases, <2>0
      DEF Structure, Types, Owners, Owner, OpenFiles
  <2>4. Names'
    BY <1>0, <1>9, DiscardCases, <2>0
      DEF Structure, Types, Names, OpenFiles, Path
  <2>5. FullFilesAreNamed'
    BY <1>0, <1>9, DiscardCases, <2>0
      DEF Structure, Types, FullFilesAreNamed, Full, Done, Owners,
          Owner, Path
  <2>6. NamesAreOwned'
    BY <1>0, <1>9, DiscardCases, <2>0
      DEF Structure, Types, NamesAreOwned, Owner, OpenFiles, Owners,
          Names, Path
  <2> QED
    BY <2>1, <2>2, <2>3, <2>4, <2>5, <2>6 DEF Structure
<1>10. ASSUME NEW r \in Rank, Cleanup(r) PROVE Structure'
  <2>0. size' = size /\ File' = File
    BY <1>10 DEF Cleanup, File
  <2>1. Types'
    BY <1>0, <1>10, <2>0
      DEF Structure, Cleanup, Goto, Opens, Unlink, Types, Label, Path
  <2>2. OpenFiles'
    BY <1>0, <1>10, <2>0
      DEF Structure, Cleanup, Goto, Opens, Unlink, Types, OpenFiles,
          Full
  <2>3. Owners'
    BY <1>0, <1>10, <2>0
      DEF Structure, Cleanup, Goto, Opens, Unlink, Types, Owners, Owner,
          OpenFiles
  <2>4. Names'
    BY <1>0, <1>10, <2>0
      DEF Structure, Cleanup, Goto, Opens, Unlink, Types, Names,
          OpenFiles, Path
  <2>5. FullFilesAreNamed'
    BY <1>0, <1>10, <2>0
      DEF Structure, Cleanup, Goto, Opens, Unlink, Types,
          FullFilesAreNamed, Full, Done, Owners, Owner, Path
  <2>6. NamesAreOwned'
    BY <1>0, <1>10, <2>0
      DEF Structure, Cleanup, Goto, Opens, Unlink, Types, NamesAreOwned,
          Owner, OpenFiles, Owners, Names, Path
  <2> QED
    BY <2>1, <2>2, <2>3, <2>4, <2>5, <2>6 DEF Structure
<1>11. ASSUME BackingChanges PROVE Structure'
  <2>0. size' = size /\ File' = File
    BY <1>11 DEF BackingChanges, File
  <2>1. Types'
    BY <1>0, <1>11, <2>0
      DEF Structure, BackingChanges, Goto, Opens, Unlink, Types, Label,
          Path
  <2>2. OpenFiles'
    BY <1>0, <1>11, <2>0
      DEF Structure, BackingChanges, Goto, Opens, Unlink, Types,
          OpenFiles, Full
  <2>3. Owners'
    BY <1>0, <1>11, <2>0
      DEF Structure, BackingChanges, Goto, Opens, Unlink, Types, Owners,
          Owner, OpenFiles
  <2>4. Names'
    BY <1>0, <1>11, <2>0
      DEF Structure, BackingChanges, Goto, Opens, Unlink, Types, Names,
          OpenFiles, Path
  <2>5. FullFilesAreNamed'
    BY <1>0, <1>11, <2>0
      DEF Structure, BackingChanges, Goto, Opens, Unlink, Types,
          FullFilesAreNamed, Full, Done, Owners, Owner, Path
  <2>6. NamesAreOwned'
    BY <1>0, <1>11, <2>0
      DEF Structure, BackingChanges, Goto, Opens, Unlink, Types,
          NamesAreOwned, Owner, OpenFiles, Owners, Names, Path
  <2> QED
    BY <2>1, <2>2, <2>3, <2>4, <2>5, <2>6 DEF Structure
<1>12. CASE UNCHANGED vars
  BY <1>12
    DEF vars, Structure, File, Done, Owner, Full, Types, OpenFiles,
        Owners, Names, FullFilesAreNamed, NamesAreOwned
<1> QED
  BY <1>1, <1>2, <1>3, <1>4, <1>5, <1>6, <1>7, <1>8, <1>9, <1>10, <1>11, <1>12
    DEF Next, Step

\* Ranks of one path share one file: it keeps its name while a rank opens.
LEMMA OnePathKept ==
  ASSUME Structure, Structure', OneFilePerPath, [Next]_vars
  PROVE  OneFilePerPath'
<1>0. Len(size) \in Nat /\ NoFile \in File /\ \A r \in Rank : fd[r] \in File
  BY LenProperties DEF Structure, Types, File, NoFile
\* A rank on its way may take up no other sized file than that of its path.
<1>1. ASSUME NEW r \in Rank, pc[r] \notin Done, NEW s \in Rank, Full(fd[s]), path[r] = path[s]
      PROVE  fd[s] = dir[path[r]]
  <2>1. PICK p \in Path : dir[p] = fd[s]
    BY <1>0, <1>1 DEF Structure, FullFilesAreNamed
  <2>2. path[s] = p
    BY <1>1, <2>1 DEF Full, Structure, Names
  <2> QED
    BY <1>1, <2>1, <2>2
\* Most steps size no file, and give no rank another one, or another path with
\* a file open.
<1>2. ASSUME \A f \in File \ {NoFile} : size'[f] = size[f],
             \A r \in Rank : \/ fd'[r] = fd[r] /\ path'[r] = path[r]
                            \/ ~Full(fd[r])'
      PROVE  OneFilePerPath'
  <2> SUFFICES ASSUME NEW r \in Rank, NEW s \in Rank, Full(fd[r])', Full(fd[s])',
                      path'[r] = path'[s]
               PROVE  fd'[r] = fd'[s]
    BY DEF OneFilePerPath
  <2>1. fd'[r] = fd[r] /\ path'[r] = path[r] /\ fd'[s] = fd[s] /\ path'[s] = path[s]
    BY <1>2
  <2>2. Full(fd[r]) /\ Full(fd[s])
    BY <1>0, <1>2, <2>1 DEF Full
  <2> QED
    BY <2>1, <2>2 DEF OneFilePerPath
<1>3. ASSUME NEW r \in Rank, Create(r) PROVE OneFilePerPath'
  <2>1. /\ \A f \in 1 .. Len(size) : size'[f] = size[f]
        /\ size'[Len(size) + 1] = "empty"
    BY <1>3, CreateGrows DEF Structure
  <2>2. fd' = [fd EXCEPT ![r] = Len(size) + 1] /\ path' = path
    BY <1>3 DEF Create, Opens
  <2>3. \A f \in File \ {NoFile} : size'[f] = size[f]
    BY <1>0, <2>1 DEF File, NoFile
  <2>4. ~Full(fd[r])' /\ \A s \in Rank \ {r} : fd'[s] = fd[s]
    BY <2>1, <2>2 DEF Full, Structure, Types
  <2> QED
    BY <1>2, <2>2, <2>3, <2>4
<1>4. ASSUME NEW r \in Rank, Reopen(r) PROVE OneFilePerPath'
  <2>1. size' = size /\ pc[r] \notin Done /\ fd[r] = NoFile
    BY <1>4, ReopenCases DEF Done, Structure, OpenFiles
  <2>2. CASE fd' = [fd EXCEPT ![r] = dir[path[r]]] /\ path' = path
    <3>1. \A f : Full(f)' <=> Full(f)
      BY <2>1 DEF Full
    <3>2. fd'[r] = dir[path[r]] /\ \A s \in Rank \ {r} : fd'[s] = fd[s]
      BY <2>2 DEF Structure, Types
    <3>3. ASSUME NEW s \in Rank \ {r}, Full(fd[s]), path[s] = path[r] PROVE fd[s] = dir[path[r]]
      BY <1>1, <2>1, <3>3
    <3> QED
      BY <2>2, <3>1, <3>2, <3>3 DEF OneFilePerPath
  <2>3. CASE fd' = fd /\ path' \in {path, [path EXCEPT ![r] = "shm"]}
    <3>1. ~Full(fd[r])'
      BY <2>1, <2>3 DEF Full
    <3> QED
      BY <1>2, <2>1, <2>3, <3>1 DEF Structure, Types
  <2> QED
    BY <1>4, <2>2, <2>3, ReopenCases
<1>5. ASSUME NEW r \in Rank, TimedOut(r) \/ Discard(r) PROVE OneFilePerPath'
  <2>1. /\ size' = size /\ fd' = [fd EXCEPT ![r] = NoFile]
        /\ path' \in {path, [path EXCEPT ![r] = "shm"]}
    BY <1>5, TimedOutCases, DiscardCases
  <2>2. ~Full(fd[r])'
    BY <2>1 DEF Full, Structure, Types
  <2> QED
    BY <1>2, <2>1, <2>2 DEF Structure, Types
<1>6. ASSUME NEW r \in Rank, NEW ok \in BOOLEAN, Truncate(r, ok) PROVE OneFilePerPath'
  <2>1. pc[r] = "truncate" /\ fd' = fd /\ path' = path
    BY <1>6 DEF Truncate
  <2>2. fd[r] = dir[path[r]] /\ fd[r] # NoFile
    BY <2>1 DEF Structure, Owners, Owner
  <2>3. CASE ~ok
    BY <1>2, <1>6, <2>1, <2>3 DEF Truncate
  <2>4. CASE ok
    <3>1. \A f \in File : f # fd[r] /\ Full(f)' => Full(f)
      <4>1. Truncate(r, TRUE)
        BY <1>6, <2>4
      <4>2. \A f \in 1 .. Len(size) : size'[f] = IF f = fd[r] THEN "full" ELSE size[f]
        BY <2>2, <4>1, TruncateSizes DEF Structure
      <4> QED
        BY <1>0, <4>2 DEF Full, File, NoFile
    <3>2. ASSUME NEW s \in Rank, fd[s] # fd[r], Full(fd[s])' PROVE path[s] # path[r]
      BY <1>0, <1>1, <2>1, <2>2, <3>1, <3>2 DEF Done
    <3>3. ASSUME NEW s \in Rank, fd[s] = fd[r] PROVE path[s] = path[r]
      BY <2>2, <3>3 DEF Structure, Names
    <3> SUFFICES ASSUME NEW s \in Rank, NEW q \in Rank, Full(fd[s])', Full(fd[q])',
                        path[s] = path[q], fd[s] # fd[q]
                 PROVE  FALSE
      BY <2>1 DEF OneFilePerPath
    <3>4. fd[s] # fd[r] /\ fd[q] # fd[r]
      BY <3>2, <3>3
    <3>5. Full(fd[s]) /\ Full(fd[q])
      BY <1>0, <2>1, <3>1, <3>4
    <3> QED
      BY <3>5 DEF OneFilePerPath
  <2> QED
    BY <2>3, <2>4
<1>7. ASSUME NEW r \in Rank, Cleanup(r) PROVE OneFilePerPath'
  <2>1. size' = size /\ path' = path /\ fd' = [fd EXCEPT ![r] = NoFile]
    BY <1>7 DEF Cleanup, Opens
  <2>2. ~Full(fd[r])'
    BY <2>1 DEF Full, Structure, Types
  <2> QED
    BY <1>2, <2>1, <2>2 DEF Structure, Types
<1>8. ASSUME UNCHANGED <<path, fd, size>> PROVE OneFilePerPath'
  BY <1>2, <1>8
<1> QED
  BY <1>3, <1>4, <1>5, <1>6, <1>7, <1>8
    DEF Next, Step, AlreadyExists, SizeReached, Validate, Map, BackingChanges, vars

\* Until pages come back the fallback is final and one file at most is sized.
LEMMA OnceKept ==
  ASSUME ~recovered', Structure, Structure', FallBackIsFinal, OneFullFile, [Next]_vars
  PROVE  FallBackIsFinal' /\ OneFullFile'
<1>0. Len(size) \in Nat /\ NoFile \in File /\ \A p \in Path : dir[p] \in File
  BY LenProperties DEF Structure, Types, File, NoFile
<1>00. ASSUME size' = size PROVE OneFullFile'
  BY <1>00 DEF OneFullFile, Full, File
<1>1. ASSUME NEW r \in Rank, Create(r) PROVE FallBackIsFinal' /\ OneFullFile'
  <2>1. /\ Len(size') = Len(size) + 1
        /\ \A f \in 1 .. Len(size) : size'[f] = size[f]
        /\ size'[Len(size) + 1] = "empty"
    BY <1>1, CreateGrows DEF Structure
  <2>2. \A f \in File' : Full(f)' <=> f \in File /\ Full(f)
    BY <1>0, <2>1 DEF Full, File, NoFile
  <2>3. dir' = [dir EXCEPT ![path[r]] = Len(size) + 1]
    BY <1>1 DEF Create
  <2>4. \A f \in File' : f = Len(size) + 1 => ~Full(f)'
    BY <2>1 DEF Full
  <2>5. OneFullFile'
    BY <2>2 DEF OneFullFile
  <2>6. FallBackIsFinal'
    <3>1. Full(dir["huge"])' => Full(dir["huge"])
      <4>1. dir'["huge"] \in {dir["huge"], Len(size) + 1} /\ dir'["huge"] \in File'
        BY <2>3 DEF Structure, Types, Path
      <4> QED
        BY <4>1, <2>2, <2>4 DEF Full
    <3>2. path' = path /\ backed' = backed /\ pc' = [pc EXCEPT ![r] = "validate"]
      BY <1>1 DEF Create, Goto
    <3> QED
      BY <3>1, <3>2, <2>3, <1>0, <1>1
        DEF Structure, Types, Path, FallBackIsFinal, Create
  <2> QED
    BY <2>5, <2>6
<1>2. ASSUME NEW r \in Rank, AlreadyExists(r)
      PROVE FallBackIsFinal' /\ OneFullFile'
  <2>1. size' = size
    BY <1>2 DEF AlreadyExists
  <2>2. FallBackIsFinal'
    BY <1>0, <1>2, <2>1
      DEF AlreadyExists, Goto, Opens, Unlink, Structure, Types, Path,
          FallBackIsFinal, Full
  <2> QED
    BY <1>00, <2>1, <2>2
<1>3. ASSUME NEW r \in Rank, Reopen(r) PROVE FallBackIsFinal' /\ OneFullFile'
  <2>1. size' = size
    BY <1>3, ReopenCases DEF Reopen
  <2>2. FallBackIsFinal'
    BY <1>0, <1>3, ReopenCases, <2>1
      DEF Structure, Types, Path, FallBackIsFinal, Full, Owners, Owner
  <2> QED
    BY <1>00, <2>1, <2>2
<1>4. ASSUME NEW r \in Rank, SizeReached(r)
      PROVE FallBackIsFinal' /\ OneFullFile'
  <2>1. size' = size
    BY <1>4 DEF SizeReached
  <2>2. FallBackIsFinal'
    BY <1>0, <1>4, <2>1
      DEF SizeReached, Goto, Opens, Unlink, Structure, Types, Path,
          FallBackIsFinal, Full
  <2> QED
    BY <1>00, <2>1, <2>2
<1>5. ASSUME NEW r \in Rank, TimedOut(r)
      PROVE FallBackIsFinal' /\ OneFullFile'
  <2>1. size' = size
    BY <1>5, TimedOutCases DEF TimedOut
  <2>2. FallBackIsFinal'
    BY <1>0, <1>5, TimedOutCases, <2>1
      DEF Structure, Types, Path, FallBackIsFinal, Full, Owners, Owner
  <2> QED
    BY <1>00, <2>1, <2>2
<1>6. ASSUME NEW r \in Rank, NEW ok \in BOOLEAN, Validate(r, ok)
      PROVE FallBackIsFinal' /\ OneFullFile'
  <2>1. size' = size
    BY <1>6 DEF Validate
  <2>2. FallBackIsFinal'
    BY <1>0, <1>6, <2>1
      DEF Validate, Goto, Opens, Unlink, Structure, Types, Path,
          FallBackIsFinal, Full
  <2> QED
    BY <1>00, <2>1, <2>2
<1>7. ASSUME NEW r \in Rank, NEW ok \in BOOLEAN, Truncate(r, ok)
      PROVE FallBackIsFinal' /\ OneFullFile'
  <2>1. pc[r] = "truncate" /\ UNCHANGED <<path, fd, dir, backed, recovered>>
    BY <1>7 DEF Truncate
  <2>2. CASE ~ok
    <3>1. size' = size /\ pc' = [pc EXCEPT ![r] = "discard"]
      BY <1>7, <2>2 DEF Truncate, Goto
    <3>2. path[r] = "huge" => ~backed
      BY <1>7, <2>2 DEF Truncate
    <3> QED
      BY <1>00, <2>1, <3>1, <3>2 DEF Structure, Types, FallBackIsFinal, Full
  <2>3. CASE ok
    <3>1. /\ fd[r] = dir[path[r]] /\ fd[r] # NoFile /\ size[fd[r]] = "empty"
          /\ pc' = [pc EXCEPT ![r] = "map"]
      BY <1>7, <2>1, <2>3 DEF Structure, Owners, Owner, Truncate, Goto
    <3>2. /\ Len(size') = Len(size)
          /\ \A f \in 1 .. Len(size) :
                size'[f] = IF f = fd[r] THEN "full" ELSE size[f]
      BY <1>7, <2>3, <3>1, TruncateSizes DEF Structure
    <3>3. \A f \in File \ {fd[r]} : Full(f)' <=> Full(f)
      BY <1>0, <3>2 DEF Full, File, NoFile
    <3>4. \A f \in File : ~Full(f)
      <4>1. SUFFICES ASSUME NEW f \in File, Full(f) PROVE FALSE
        OBVIOUS
      <4>2. PICK p \in Path : dir[p] = f
        BY <2>1, <4>1 DEF Structure, FullFilesAreNamed, Done
      <4>3. p # path[r] /\ path[r] \in Path
        BY <3>1, <4>1, <4>2 DEF Full, Structure, Types
      <4>4. CASE path[r] = "shm"
        BY <4>1, <4>2, <4>3, <4>4 DEF FallBackIsFinal, Path
      <4>5. CASE path[r] = "huge"
        <5>1. dir["shm"] # NoFile
          BY <4>1, <4>2, <4>3, <4>5 DEF Full, Path
        <5> QED
          BY <2>1, <4>5, <5>1 DEF FallBackIsFinal
      <4> QED
        BY <4>3, <4>4, <4>5 DEF Path
    <3>5. OneFullFile'
      <4>1. File' = File
        BY <3>2 DEF File
      <4> QED
        BY <3>3, <3>4, <4>1 DEF OneFullFile
    <3>6. FallBackIsFinal'
      <4>1. ASSUME NEW s \in Rank, path[s] = "shm" PROVE ~Full(dir["huge"])'
        <5>1. path[r] = "shm"
          BY <2>1, <4>1 DEF FallBackIsFinal, Structure, Types, Path
        <5>2. dir["huge"] # fd[r]
          BY <3>1, <5>1 DEF Structure, Names
        <5> QED
          BY <1>0, <2>1, <3>3, <3>4, <5>2 DEF Path
      <4> QED
        BY <2>1, <3>1, <4>1 DEF Structure, Types, FallBackIsFinal
    <3> QED
      BY <3>5, <3>6
  <2> QED
    BY <2>2, <2>3
<1>8. ASSUME NEW r \in Rank, NEW ok \in BOOLEAN, Map(r, ok)
      PROVE FallBackIsFinal' /\ OneFullFile'
  <2>1. size' = size
    BY <1>8 DEF Map
  <2>2. FallBackIsFinal'
    BY <1>0, <1>8, <2>1
      DEF Map, Goto, Opens, Unlink, Structure, Types, Path,
          FallBackIsFinal, Full
  <2> QED
    BY <1>00, <2>1, <2>2
<1>9. ASSUME NEW r \in Rank, Discard(r) PROVE FallBackIsFinal' /\ OneFullFile'
  <2>1. size' = size
    BY <1>9, DiscardCases DEF Discard
  <2>2. FallBackIsFinal'
    BY <1>0, <1>9, DiscardCases, <2>1
      DEF Structure, Types, Path, FallBackIsFinal, Full, Owners, Owner,
          Names, OpenFiles
  <2> QED
    BY <1>00, <2>1, <2>2
<1>10. ASSUME NEW r \in Rank, Cleanup(r)
      PROVE FallBackIsFinal' /\ OneFullFile'
  <2>1. size' = size
    BY <1>10 DEF Cleanup
  <2>2. FallBackIsFinal'
    BY <1>0, <1>10, <2>1
      DEF Cleanup, Goto, Opens, Unlink, Structure, Types, Path,
          FallBackIsFinal, Full, Owners, Owner
  <2> QED
    BY <1>00, <2>1, <2>2
<1>11. ASSUME BackingChanges PROVE FallBackIsFinal' /\ OneFullFile'
  <2>1. size' = size
    BY <1>11 DEF BackingChanges
  <2>2. FallBackIsFinal'
    BY <1>0, <1>11, <2>1
      DEF BackingChanges, GaveUp, Structure, Types, Path, FallBackIsFinal, Full
  <2> QED
    BY <1>00, <2>1, <2>2
<1>12. CASE UNCHANGED vars
  BY <1>12 DEF vars, FallBackIsFinal, OneFullFile, Full, File
<1> QED
  BY <1>1, <1>2, <1>3, <1>4, <1>5, <1>6, <1>7, <1>8, <1>9, <1>10, <1>11, <1>12
    DEF Next, Step

\* The invariant holds from the empty file system on, whatever the ranks do.
THEOREM Invariant == Spec => []IInv
<1>1. Init => IInv
  <2> SUFFICES ASSUME Init PROVE IInv
    OBVIOUS
  <2>1. Len(size) = 0 /\ size \in Seq({"empty", "full"}) /\ File = {0}
    BY EmptySeq DEF Init, File
  <2>2. Structure
    BY <2>1
      DEF Init, Structure, Types, OpenFiles, Owners, Names,
          FullFilesAreNamed,
       NamesAreOwned, Owner, Full, Label, Path, NoFile
  <2>3. FallBackIsFinal /\ OneFullFile /\ OneFilePerPath
    BY <2>1 DEF Init, FallBackIsFinal, OneFullFile, OneFilePerPath, Full, Path, NoFile
  <2> QED
    BY <2>2, <2>3 DEF IInv
<1>2. IInv /\ [Next]_vars => IInv'
  <2> SUFFICES ASSUME IInv, [Next]_vars PROVE IInv'
    OBVIOUS
  <2>1. Structure' /\ OneFilePerPath'
    BY StructureKept, OnePathKept DEF IInv
  <2>2. ASSUME ~recovered' PROVE ~recovered
    BY <2>2 DEF Next, Step, Create, AlreadyExists, Reopen, SizeReached, TimedOut, Validate,
                Truncate, Discard, Map, Cleanup, BackingChanges, vars
  <2> QED
    BY <2>1, <2>2, OnceKept DEF IInv
<1> QED
  BY <1>1, <1>2, PTL DEF Spec

\* SplitOnlyOnRecovery: ranks that came up on one path share one file, sized,
\* and they are on one path unless huge pages came back after some rank gave
\* them up (_open_hugetlb_region).
THEOREM OneFile == Spec => []SplitOnlyOnRecovery
<1>1. IInv => SplitOnlyOnRecovery
  <2> SUFFICES ASSUME IInv, NEW r \in Mapped, NEW s \in Mapped
               PROVE  /\ size[fd[r]] = "full"
                      /\ path[r] = path[s] => fd[r] = fd[s]
                      /\ ~recovered => path[r] = path[s]
    BY DEF SplitOnlyOnRecovery
  <2>1. /\ Full(fd[r]) /\ Full(fd[s])
        /\ r \in Rank /\ s \in Rank /\ fd[r] \in File /\ fd[s] \in File
    BY DEF IInv, Structure, Types, OpenFiles, Mapped
  <2>2. path[r] = path[s] => fd[r] = fd[s]
    BY <2>1 DEF IInv, OneFilePerPath
  <2>3. ~recovered => fd[r] = fd[s]
    BY <2>1 DEF IInv, OneFullFile
  <2> QED
    BY <2>1, <2>2, <2>3 DEF IInv, Structure, Names, Full
<1> QED
  BY <1>1, Invariant, PTL

\* Once no rank is opening or using it the file is gone, or its creator raised
\* with the file already live (cleanup, _discard_hugetlb_stub).
THEOREM NoFileStays == Spec => []NothingIsLeftBehind
<1>1. IInv => NothingIsLeftBehind
  BY DEF IInv, Structure, NamesAreOwned, NothingIsLeftBehind, Opening,
     Mapped, Owner
<1> QED
  BY <1>1, Invariant, PTL
=============================================================================
