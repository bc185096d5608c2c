---------------------------- MODULE StaleHitLadder ----------------------------
(***************************************************************************)
(* The stale-hit guard of get_num_new_matched_tokens                       *)
(* (kv_connector/v1/offloading/scheduler.py) for one waiting request, with *)
(* the admission gate of the core scheduler that it works around.          *)
(*                                                                         *)
(* A hit of the CPU tier is all or nothing: the core admits the request    *)
(* only if the whole sequence fits.  When the same hit is reported again   *)
(* and again without progress, the connector answers 0 (a fallback), pins  *)
(* that answer for a while and at last enters escape mode, in which the    *)
(* core lets the request in with room for one chunk.                       *)
(*                                                                         *)
(* Timers are relative: ages grow to the largest bound they are compared   *)
(* with, deadlines count down.                                             *)
(***************************************************************************)
EXTENDS Integers

CONSTANTS
    Hits,               \* hit lengths, in tokens, the tier can report; no 0
    Boundaries,         \* values of num_computed_tokens
    MaxLookups,         \* _stale_hit_max_lookups, 0 when disabled
    RepeatWindow,       \* _stale_hit_repeat_window
    PinSecs,            \* _stale_hit_pin_seconds, 0 when disabled
    FallbackLimit,      \* _stale_hit_fallback_limit, 0 when disabled
    TtlSecs,            \* _stale_hit_ttl_secs, 0 when disabled
    WallSecs,           \* _escape_wall_secs, 0 when disabled
    RefusalSecs         \* _escape_refusal_secs, 0 when disabled

ASSUME LadderAssumption ==
    /\ Hits \subseteq Nat \ {0} /\ Boundaries \subseteq Nat
    /\ {MaxLookups, PinSecs, FallbackLimit, TtlSecs, WallSecs, RefusalSecs}
          \subseteq Nat
    /\ RepeatWindow \in Nat \ {0}

VARIABLES
    s,                  \* the stale_hit_* and escape_* fields of the request
    answer,             \* the last answer: a hit, 0, or Retry
    computed,           \* num_computed_tokens of the waiting request
    tier,               \* what the lookup in the manager would return
    room,               \* free GPU blocks: "none", for a "chunk", for "all"
    admitted,           \* the request left the waiting queue
    busy,               \* transfer_jobs: the request has transfers in flight
    asked               \* the scheduler asked since the clock last moved

vars == <<s, answer, computed, tier, room, admitted, busy, asked>>
envVars == <<computed, tier, room, admitted, busy>>

Retry == -1             \* None: the tier needs more time
Unset == -1             \* a field that holds no value

MaxOf(a, b) == IF a >= b THEN a ELSE b
WallBound == MaxOf(TtlSecs, WallSecs)

Fresh == [streak |-> 0, lastHit |-> Unset, lastComputed |-> Unset,
          lastAge |-> RepeatWindow, pinLeft |-> 0, fallbacks |-> 0,
          wallAge |-> Unset, escape |-> FALSE, refusalLeft |-> 0,
          claimActive |-> FALSE, claimHit |-> Unset, claimComputed |-> Unset]

-----------------------------------------------------------------------------
(***************************************************************************)
(* What a call does before it asks the manager.                            *)
(***************************************************************************)
SameBoundary == computed = s.lastComputed

Hold == IF s.wallAge = Unset THEN 0 ELSE s.wallAge
WallReached == WallSecs > 0 /\ Hold >= WallSecs
RefusalOpen == RefusalSecs > 0 /\ s.refusalLeft > 0

\* Mutant: the refusal window does not suppress the release at the wall.
EscapeHoldsToTheWall == s.escape /\ SameBoundary /\ ~WallReached

EscapeHolds == s.escape /\ SameBoundary /\ (~WallReached \/ RefusalOpen)
\* Mutant: before V4 HOLD, a held claim did not keep the escape.
ClaimHoldsNever == FALSE

ClaimHolds == /\ s.escape /\ SameBoundary
              /\ WallReached /\ ~RefusalOpen /\ s.claimActive

\* Escape mode left on progress, or at the wall when no claim is held.
Released ==
    LET cold == [s EXCEPT !.escape = FALSE, !.streak = 0, !.fallbacks = 0,
                          !.wallAge = Unset, !.refusalLeft = 0]
    IN  IF ~s.escape THEN s
        ELSE IF SameBoundary THEN cold
        ELSE [cold EXCEPT !.claimActive = FALSE, !.claimHit = Unset,
                          !.claimComputed = Unset]

ReachesPin == ~EscapeHolds /\ ~ClaimHolds
PinHolds == ReachesPin /\ PinSecs > 0 /\ s.pinLeft > 0 /\ SameBoundary
ReachesLookup == ReachesPin /\ ~PinHolds

\* The fields as the lookup finds them: a lapsed or overtaken pin is gone.
Entry == [Released EXCEPT !.pinLeft = IF PinSecs > 0 THEN 0 ELSE @]

\* The claim that led to the escape, seen again outside of escape mode
\* (ESC-CLAIM); BlockoutNeverRuns shows that no call gets here.
ClaimBlocked ==
    /\ ReachesLookup
    /\ tier \in Hits /\ RefusalSecs > 0
    /\ Entry.claimActive
    /\ tier = Entry.claimHit /\ computed = Entry.claimComputed

(***************************************************************************)
(* The ladder, once the manager has answered.                              *)
(***************************************************************************)
IsRepeat ==
    /\ tier \in Hits /\ MaxLookups > 0
    /\ tier = Entry.lastHit /\ computed = Entry.lastComputed

\* Mutant: the former identity window, which every pin outlasts.
InWindowLegacy == Entry.lastAge < 1

InWindow == Entry.lastAge < RepeatWindow

\* Mutant: the first repeat does not set wall_start.
WallAgeUnanchored == Entry.wallAge

\* wall_start is set by the first repeat.
WallAge == IF Entry.wallAge = Unset THEN 0 ELSE Entry.wallAge

BudgetSpent == Entry.streak + 1 >= MaxLookups

ForceEscape ==
    \/ FallbackLimit > 0 /\ Entry.fallbacks + 1 >= FallbackLimit
    \/ TtlSecs > 0 /\ WallAge >= TtlSecs

Seen(st) == [st EXCEPT !.lastHit = tier, !.lastComputed = computed,
                       !.lastAge = 0]

Reply(a, st) ==
    /\ answer' = a
    /\ s' = st
    /\ asked' = TRUE
    /\ UNCHANGED envVars

\* Transfers in flight gate every other branch.
DelayForJobs == busy /\ Reply(Retry, s)

HoldEscape == EscapeHolds /\ Reply(0, s)

\* V4 HOLD: the wall is anchored again and the escape goes on.
HoldClaim ==
    /\ ClaimHolds
    /\ Reply(0, [s EXCEPT !.wallAge = 0, !.refusalLeft = WallSecs])

HoldPin == PinHolds /\ Reply(0, s)

\* Not a repeat, which includes a lookup that has to be retried; or a claim
\* that is blocked, presented as a miss with the escape armed again.
FreshLookup ==
    LET claimStays == tier = Entry.claimHit /\ computed = Entry.claimComputed
        st == [Entry EXCEPT
                 !.streak = 0, !.fallbacks = 0, !.wallAge = Unset,
                 !.escape = FALSE, !.refusalLeft = 0,
                 !.claimActive = @ /\ claimStays,
                 !.claimHit = IF claimStays THEN @ ELSE Unset,
                 !.claimComputed = IF claimStays THEN @ ELSE Unset]
        blocked == [Entry EXCEPT
                      !.escape = TRUE, !.wallAge = IF @ = Unset THEN 0 ELSE @,
                      !.lastHit = 0, !.lastComputed = computed, !.lastAge = 0]
    IN  /\ ReachesLookup
        /\ ClaimBlocked \/ ~IsRepeat
        /\ IF ClaimBlocked THEN Reply(0, blocked) ELSE Reply(tier, Seen(st))

SlowRepeat ==
    /\ ReachesLookup /\ ~ClaimBlocked /\ IsRepeat /\ ~InWindow
    /\ Reply(tier, Seen([Entry EXCEPT !.wallAge = WallAge, !.streak = 0]))

Repeat ==
    /\ ReachesLookup /\ ~ClaimBlocked /\ IsRepeat /\ InWindow /\ ~BudgetSpent
    /\ Reply(tier, Seen([Entry EXCEPT !.wallAge = WallAge, !.streak = @ + 1]))

Fallback ==
    /\ ReachesLookup /\ ~ClaimBlocked /\ IsRepeat /\ InWindow /\ BudgetSpent
    /\ ~ForceEscape
    /\ Reply(0, [Entry EXCEPT !.wallAge = WallAge, !.streak = 0,
                              !.fallbacks = @ + 1, !.pinLeft = PinSecs])

\* SERVERKILL
EnterEscape ==
    LET claim == RefusalSecs > 0 IN
    /\ ReachesLookup /\ ~ClaimBlocked /\ IsRepeat /\ InWindow /\ BudgetSpent
    /\ ForceEscape
    /\ Reply(0, [Entry EXCEPT
                   !.wallAge = WallAge, !.streak = 0, !.fallbacks = 0,
                   !.escape = TRUE, !.pinLeft = 0,
                   !.refusalLeft = IF claim THEN RefusalSecs ELSE @,
                   !.claimActive = @ \/ claim,
                   !.claimHit = IF claim THEN tier ELSE @,
                   !.claimComputed = IF claim THEN computed ELSE @])

\* allocate_slots, tried right after the call: a hit to be loaded and a plain
\* prefill need room for the whole sequence; in escape mode a chunk is enough.
Fits ==
    /\ asked /\ answer # Retry
    /\ \/ room = "all"
       \/ room = "chunk" /\ answer = 0 /\ s.escape

GetNumNewMatchedTokens ==
    /\ ~admitted /\ ~Fits
    /\ \/ DelayForJobs
       \/ ~busy /\ (\/ HoldEscape \/ HoldClaim \/ HoldPin
                    \/ FreshLookup \/ SlowRepeat \/ Repeat
                    \/ Fallback \/ EnterEscape)

-----------------------------------------------------------------------------
(***************************************************************************)
(* The core scheduler and the world around it.                             *)
(***************************************************************************)

\* A hit starts a load; a plain prefill stores what it computes, or nothing.
Admit ==
    /\ ~admitted /\ Fits
    /\ admitted' = TRUE
    /\ busy' \in IF answer = 0 THEN BOOLEAN ELSE {TRUE}
    /\ UNCHANGED <<s, answer, computed, tier, room, asked>>

TransfersFinish ==
    /\ busy
    /\ busy' = FALSE
    /\ UNCHANGED <<s, answer, computed, tier, room, admitted, asked>>

\* A preempted request waits again, with the blocks still cached for it.
Preempt ==
    /\ admitted
    /\ admitted' = FALSE
    /\ computed' \in Boundaries
    /\ asked' = FALSE
    /\ UNCHANGED <<s, answer, tier, room, busy>>

\* Other requests move the local boundary, the tier's answer and the room.
\* Between the question to the tier and the allocation nothing else runs.
LocalHitChanges ==
    /\ ~admitted /\ ~asked
    /\ computed' \in Boundaries \ {computed}
    /\ UNCHANGED <<s, answer, tier, room, admitted, busy, asked>>

TierChanges ==
    /\ ~asked
    /\ tier' \in (Hits \cup {0, Retry}) \ {tier}
    /\ UNCHANGED <<s, answer, computed, room, admitted, busy, asked>>

RoomChanges ==
    /\ ~asked
    /\ room' \in {"none", "chunk", "all"} \ {room}
    /\ UNCHANGED <<s, answer, computed, tier, admitted, busy, asked>>

Down(t) == IF t > 0 THEN t - 1 ELSE 0
Up(t, bound) == IF t < bound THEN t + 1 ELSE t

\* One unit of time.  schedule() asks about a waiting request and tries to
\* allocate for it in one pass, which the clock does not interrupt.
Tick ==
    /\ admitted \/ (asked /\ ~Fits)
    /\ s' = [s EXCEPT !.lastAge = Up(@, RepeatWindow),
                      !.wallAge = IF @ = Unset THEN Unset ELSE Up(@, WallBound),
                      !.pinLeft = Down(@),
                      !.refusalLeft = Down(@)]
    /\ asked' = FALSE
    /\ UNCHANGED <<answer, envVars>>

Init ==
    /\ s = Fresh
    /\ answer = 0
    /\ computed \in Boundaries
    /\ tier \in Hits \cup {0, Retry}
    /\ room \in {"none", "chunk", "all"}
    /\ admitted = FALSE
    /\ busy = FALSE
    /\ asked = FALSE

Next ==
    \/ GetNumNewMatchedTokens
    \/ Admit
    \/ TransfersFinish
    \/ Preempt
    \/ LocalHitChanges
    \/ TierChanges
    \/ RoomChanges
    \/ Tick

\* The scheduler keeps stepping: it asks, admits what fits, and time passes;
\* the workers finish their transfers.
Fairness ==
    /\ WF_vars(TransfersFinish)
    /\ WF_vars(GetNumNewMatchedTokens)
    /\ WF_vars(Admit)
    /\ WF_vars(Tick)

Spec == Init /\ [][Next]_vars /\ Fairness

-----------------------------------------------------------------------------
(***************************************************************************)
(* Properties.                                                             *)
(***************************************************************************)

\* Counters and timers stay within the limits they are compared with.
TypeOK ==
    /\ s.streak \in 0 .. MaxOf(MaxLookups - 1, 0)
    /\ s.fallbacks \in Nat /\ (FallbackLimit > 0 => s.fallbacks < FallbackLimit)
    /\ s.lastAge \in 0 .. RepeatWindow
    /\ s.pinLeft \in 0 .. PinSecs
    /\ s.wallAge \in -1 .. WallBound
    /\ s.refusalLeft \in 0 .. MaxOf(RefusalSecs, WallSecs)
    /\ {s.escape, s.claimActive} \subseteq BOOLEAN
    /\ {s.lastHit, s.claimHit} \subseteq Hits \cup {0, Unset}
    /\ {s.lastComputed, s.claimComputed} \subseteq Boundaries \cup {Unset}
    /\ answer \in Hits \cup {0, Retry}

\* While a claim is held the request is in escape mode, for the boundary of
\* the claim: the relaxed gate of the core stays armed (V4 HOLD), and every
\* escape has a clock running.
ClaimKeepsEscape ==
    /\ s.claimActive => s.escape /\ s.claimComputed = s.lastComputed
    /\ s.escape => s.wallAge # Unset /\ s.pinLeft = 0

\* The claim blockout (ESC-CLAIM) is never reached.
BlockoutNeverRuns == ~admitted /\ ~busy => ~ClaimBlocked

\* The fields of the ladder agree with each other in every order of lookups,
\* completions and timers: counters within their limits, a claim only inside
\* an escape of its boundary, a clock for every escape, no claim blockout.
LadderIsConsistent == TypeOK /\ ClaimKeepsEscape /\ BlockoutNeverRuns

\* The tier cannot re-assert the hit a request was wedged on: from escape on,
\* no hit is answered until the local boundary has moved.
FalseClaimStaysDown ==
    [][(s.claimActive /\ SameBoundary /\ GetNumNewMatchedTokens)
         => answer' \notin Hits]_vars

\* With a refusal window, only progress ends an escape.
EscapeEndsOnProgress ==
    [][(s.escape /\ ~s'.escape) => s.lastComputed # computed]_vars

\* A request wedged on a frozen hit is admitted once a chunk fits for good:
\* no order of pins, windows and walls postpones the escape for ever.
WedgeIsAdmitted ==
    \A h \in Hits, n \in Boundaries :
        <>[](tier = h /\ computed = n /\ room = "chunk") => []<>admitted
=============================================================================
