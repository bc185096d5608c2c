----------------------------- MODULE SharedRegion -----------------------------
(***************************************************************************)
(* How the ranks of an engine come to map one file, and how it goes away   *)
(* (SharedOffloadRegion, v1/kv_offload/cpu/shared_offload_region.py).      *)
(*                                                                         *)
(* Each rank runs __init__ on its own; they meet in the file system only.  *)
(* Who creates a file exclusively is its creator, sizes it or gives it up; *)
(* the others open it and wait for its size.  With huge pages requested    *)
(* the same is tried on the huge-page mount first, and a rank that finds   *)
(* nothing live there falls back to /dev/shm.                              *)
(*                                                                         *)
(* A wait may time out at any moment: nothing orders its 30 seconds with   *)
(* what the creator does.  Free huge pages come and go as other processes  *)
(* take and free them; recovered remembers that they came back after some  *)
(* rank had given them up.                                                 *)
(***************************************************************************)
EXTENDS Naturals, Sequences, FiniteSets

CONSTANT Rank

ASSUME RegionAssumption == IsFiniteSet(Rank)

Path == {"huge", "shm"}
NoFile == 0

VARIABLES
    pc,         \* rank -> where in __init__ it is
    path,       \* rank -> mmap_path, as one of Path
    fd,         \* rank -> the file it has open, or NoFile
    creator,    \* rank -> _creator
    dir,        \* path -> the file of that name, or NoFile
    size,       \* file -> "empty" or "full"
    backed,     \* would the huge-page mount pass validation now, and give
                \* the file its size?
    recovered   \* history: it would again, after some rank fell back

vars == <<pc, path, fd, creator, dir, size, backed, recovered>>

Init ==
    /\ \E p \in Path : path = [r \in Rank |-> p]    \* _hugetlb_tier_requested
    /\ pc = [r \in Rank |-> "open"]
    /\ fd = [r \in Rank |-> NoFile]
    /\ creator = [r \in Rank |-> FALSE]
    /\ dir = [p \in Path |-> NoFile]
    /\ size = <<>>
    /\ backed \in BOOLEAN
    /\ recovered = FALSE

Goto(r, l) == pc' = [pc EXCEPT ![r] = l]
Opens(r, f) == fd' = [fd EXCEPT ![r] = f]
Unlink(p) == dir' = [dir EXCEPT ![p] = NoFile]

\* _hugetlb_fallback: __init__ goes on with the file in /dev/shm.
FallBack(r) == Goto(r, "open") /\ path' = [path EXCEPT ![r] = "shm"]

-----------------------------------------------------------------------------
(***************************************************************************)
(* __init__ and _open_hugetlb_region, from one system call to the next.    *)
(***************************************************************************)
\* O_CREAT | O_EXCL
Create(r) ==
    /\ pc[r] = "open" /\ dir[path[r]] = NoFile
    /\ size' = Append(size, "empty")
    /\ dir' = [dir EXCEPT ![path[r]] = Len(size) + 1]
    /\ Opens(r, Len(size) + 1)
    /\ Goto(r, "validate")
    /\ UNCHANGED <<path, creator, backed, recovered>>

AlreadyExists(r) ==
    /\ pc[r] = "open" /\ dir[path[r]] # NoFile
    /\ Goto(r, "reopen")
    /\ UNCHANGED <<path, fd, creator, dir, size, backed, recovered>>

\* The file may be gone again: of the two, only the huge one has a fallback.
Reopen(r) ==
    /\ pc[r] = "reopen"
    /\ CASE dir[path[r]] # NoFile ->
              Opens(r, dir[path[r]]) /\ Goto(r, "wait") /\ UNCHANGED path
         [] dir[path[r]] = NoFile /\ path[r] = "huge" -> FallBack(r) /\ UNCHANGED fd
         [] OTHER -> Goto(r, "raised") /\ UNCHANGED <<path, fd>>
    /\ UNCHANGED <<creator, dir, size, backed, recovered>>

\* Mutant: a joiner checks the budget too.
SizeReachedIfBacked(r) ==
    /\ pc[r] = "wait" /\ size[fd[r]] = "full"
    /\ IF path[r] = "huge" /\ ~backed THEN FallBack(r) ELSE Goto(r, "map") /\ UNCHANGED path
    /\ UNCHANGED <<fd, creator, dir, size, backed, recovered>>

\* _wait_for_file_size
SizeReached(r) ==
    /\ pc[r] = "wait" /\ size[fd[r]] = "full"
    /\ Goto(r, "map")
    /\ UNCHANGED <<path, fd, creator, dir, size, backed, recovered>>

\* Mutant: the wait has no timeout.
TimedOutNever(r) == FALSE

\* The name no longer leads to a file, of whichever creator.
Abandoned(r) == path[r] = "huge" /\ dir["huge"] = NoFile

TimedOut(r) ==
    /\ pc[r] = "wait" /\ size[fd[r]] = "empty"
    /\ Opens(r, NoFile)
    /\ IF Abandoned(r) THEN FallBack(r) ELSE Goto(r, "raised") /\ UNCHANGED path
    /\ UNCHANGED <<creator, dir, size, backed, recovered>>

\* _validate_hugetlb_backing, check_shm_free_space
Validate(r, ok) ==
    /\ pc[r] = "validate" /\ (path[r] = "huge" => ok = backed)
    /\ Goto(r, IF ok THEN "truncate" ELSE "discard")
    /\ UNCHANGED <<path, fd, creator, dir, size, backed, recovered>>

Truncate(r, ok) ==
    /\ pc[r] = "truncate" /\ (path[r] = "huge" => ok \/ ~backed)
    /\ IF ok THEN /\ Goto(r, "map")
                  /\ size' = [size EXCEPT ![fd[r]] = "full"]
                  /\ creator' = [creator EXCEPT ![r] = TRUE]
             ELSE Goto(r, "discard") /\ UNCHANGED <<size, creator>>
    /\ UNCHANGED <<path, fd, dir, backed, recovered>>

\* Mutant: the creator leaves its stub.
DiscardNothing(r) ==
    /\ pc[r] = "discard"
    /\ Opens(r, NoFile)
    /\ IF path[r] = "huge" THEN FallBack(r) ELSE Goto(r, "raised") /\ UNCHANGED path
    /\ UNCHANGED <<creator, dir, size, backed, recovered>>

\* The creator removes its stub, and falls back or raises.
Discard(r) ==
    /\ pc[r] = "discard"
    /\ Unlink(path[r])
    /\ Opens(r, NoFile)
    /\ IF path[r] = "huge" THEN FallBack(r) ELSE Goto(r, "raised") /\ UNCHANGED path
    /\ UNCHANGED <<creator, size, backed, recovered>>

\* mmap, madvise and populating may raise; nothing is undone then.
Map(r, ok) ==
    /\ pc[r] = "map"
    /\ Goto(r, IF ok THEN "mapped" ELSE "raised")
    /\ UNCHANGED <<path, fd, creator, dir, size, backed, recovered>>

\* cleanup, of a rank whose peers are past __init__ too.
Cleanup(r) ==
    /\ pc[r] = "mapped"
    /\ \A s \in Rank : pc[s] \in {"mapped", "raised", "gone"}
    /\ Opens(r, NoFile)
    /\ IF creator[r] THEN Unlink(path[r]) ELSE UNCHANGED dir
    /\ creator' = [creator EXCEPT ![r] = FALSE]
    /\ Goto(r, "gone")
    /\ UNCHANGED <<path, size, backed, recovered>>

\* Free huge pages come and go (HugePages_Free).
GaveUp(r) == path[r] = "shm" \/ pc[r] = "discard"
BackingChanges ==
    /\ backed' = ~backed
    /\ recovered' = (recovered \/ (~backed /\ \E r \in Rank : GaveUp(r)))
    /\ UNCHANGED <<pc, path, fd, creator, dir, size>>

Step(r) ==
    \/ Create(r) \/ AlreadyExists(r) \/ Reopen(r) \/ SizeReached(r) \/ TimedOut(r)
    \/ \E ok \in BOOLEAN : Validate(r, ok) \/ Truncate(r, ok) \/ Map(r, ok)
    \/ Discard(r)

Next == BackingChanges \/ \E r \in Rank : Step(r) \/ Cleanup(r)

Spec == Init /\ [][Next]_vars

\* A rank is not kept from running; a wait ends by its timeout.
FairSpec == Spec /\ \A r \in Rank : WF_vars(Step(r))

-----------------------------------------------------------------------------
(***************************************************************************)
(* Properties.                                                             *)
(***************************************************************************)
Opening == {r \in Rank : pc[r] \notin {"mapped", "raised", "gone"}}
Mapped == {r \in Rank : pc[r] = "mapped"}

\* The ranks that came up on one path share one file, sized, whoever fell back
\* and whatever became of the budget after the creator took it; and they are on
\* one path, unless huge pages came back after some rank gave them up
\* (_open_hugetlb_region).
SplitOnlyOnRecovery ==
    \A r, s \in Mapped :
        /\ size[fd[r]] = "full"
        /\ path[r] = path[s] => fd[r] = fd[s]
        /\ ~recovered => path[r] = path[s]

\* What the code says of it: a rank falls back where no live huge-page region
\* exists, so that ranks are not split across two files.
RanksShareOneFile ==
    \A r, s \in Mapped : fd[r] = fd[s] /\ path[r] = path[s] /\ size[fd[r]] = "full"

\* Once no rank is opening or using it, the file is gone, unless its creator
\* failed with the file already live (cleanup, _discard_hugetlb_stub).
NothingIsLeftBehind ==
    Opening \cup Mapped = {} =>
        \A p \in Path : dir[p] # NoFile =>
            \E r \in Rank : pc[r] = "raised" /\ creator[r] /\ fd[r] = dir[p]

\* Every rank comes up or raises: none opens and falls back for ever.
OpeningEnds == \A r \in Rank : <>(r \notin Opening)
=============================================================================
