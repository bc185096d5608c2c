------------------------- MODULE StaleHitLadderProofs -------------------------
(***************************************************************************)
(* Theorems about StaleHitLadder, for any timers and limits: the fields of *)
(* the ladder agree, a refused hit stays refused, and, with a refusal      *)
(* window, only progress ends an escape.                                   *)
(***************************************************************************)
EXTENDS StaleHitLadder, TLAPS

(***************************************************************************)
(* The inductive invariant.                                                *)
(***************************************************************************)
\* The fields of a request and the limits they keep, one by one.
Ladder == [streak : 0 .. MaxOf(MaxLookups - 1, 0),
           lastHit : Hits \cup {0, Unset}, lastComputed : Boundaries \cup {Unset},
           lastAge : 0 .. RepeatWindow, pinLeft : 0 .. PinSecs, fallbacks : Nat,
           wallAge : -1 .. WallBound, escape : BOOLEAN,
           refusalLeft : 0 .. MaxOf(RefusalSecs, WallSecs),
           claimActive : BOOLEAN, claimHit : Hits \cup {0, Unset},
           claimComputed : Boundaries \cup {Unset}]

\* The request and what it was last told have their types.
Types ==
    /\ s \in Ladder
    /\ answer \in Hits \cup {0, Retry}
    /\ computed \in Boundaries
    /\ tier \in Hits \cup {0, Retry}

\* How the fields of a request agree (ClaimKeepsEscape and the limit on
\* fallbacks).  With a refusal window, whoever escapes also holds a claim: the
\* wall then anchors the clock again and never ends the escape.
Agree(st) ==
    /\ st.claimActive => st.escape /\ st.claimComputed = st.lastComputed
    /\ st.escape => st.wallAge # Unset /\ st.pinLeft = 0
    /\ RefusalSecs > 0 => (st.escape => st.claimActive)
    /\ FallbackLimit > 0 => st.fallbacks < FallbackLimit

IInv == Types /\ Agree(s)

-----------------------------------------------------------------------------
\* The bounds of the fields are numbers, and no limit is below what it bounds.
LEMMA Limits ==
  /\ MaxOf(MaxLookups - 1, 0) \in Nat /\ MaxOf(RefusalSecs, WallSecs) \in Nat
  /\ WallBound \in Nat /\ RepeatWindow \in Nat
  /\ 0 \in -1 .. WallBound /\ Unset \in -1 .. WallBound
  /\ MaxLookups > 0 => MaxOf(MaxLookups - 1, 0) = MaxLookups - 1
  /\ RefusalSecs <= MaxOf(RefusalSecs, WallSecs)
  /\ WallSecs <= MaxOf(RefusalSecs, WallSecs)
  BY LadderAssumption DEF MaxOf, WallBound, Unset

\* A call that gets as far as the lookup has left escape mode, has no claim and
\* no pin; the rest of what it remembers is as it was, or reset.
LEMMA EntryIsClean ==
  ASSUME IInv, ReachesLookup
  PROVE  /\ Entry \in Ladder
         /\ ~Entry.escape /\ ~Entry.claimActive /\ Entry.pinLeft = 0
         /\ Entry.lastHit = s.lastHit /\ Entry.lastComputed = s.lastComputed
         /\ FallbackLimit > 0 => Entry.fallbacks < FallbackLimit
<1>1. Released \in Ladder /\ ~Released.escape /\ ~Released.claimActive
      /\ Released.lastHit = s.lastHit /\ Released.lastComputed = s.lastComputed
      /\ (FallbackLimit > 0 => Released.fallbacks < FallbackLimit)
  <2>1. CASE ~s.escape
    BY <2>1 DEF IInv, Types, Agree, Released
  <2>2. CASE s.escape
    <3> DEFINE cold == [s EXCEPT !.escape = FALSE, !.streak = 0, !.fallbacks = 0,
                                 !.wallAge = Unset, !.refusalLeft = 0]
    <3>1. cold \in Ladder /\ ~cold.escape /\ cold.claimActive = s.claimActive
          /\ cold.lastHit = s.lastHit /\ cold.lastComputed = s.lastComputed
          /\ cold.fallbacks = 0
      <4>1. s \in Ladder
        BY DEF IInv, Types
      <4>2. 0 \in 0 .. MaxOf(MaxLookups - 1, 0) /\ 0 \in 0 .. MaxOf(RefusalSecs, WallSecs)
        BY Limits
      <4>3. cold \in Ladder
        BY <4>1, <4>2, Limits DEF Ladder
      <4> QED
        BY <4>1, <4>3 DEF Ladder
    <3>2. CASE SameBoundary
      <4>1. ~s.claimActive
        BY <2>2, <3>2 DEF ReachesLookup, ReachesPin, EscapeHolds, ClaimHolds
      <4>2. Released = cold
        BY <2>2, <3>2 DEF Released
      <4> QED
        BY <3>1, <4>1, <4>2
    <3>3. CASE ~SameBoundary
      <4>1. Released = [cold EXCEPT !.claimActive = FALSE, !.claimHit = Unset,
                                    !.claimComputed = Unset]
        BY <2>2, <3>3 DEF Released
      <4> HIDE DEF cold
      <4> QED
        BY <3>1, <4>1 DEF Ladder
    <3> QED
      BY <3>2, <3>3
  <2> QED
    BY <2>1, <2>2
<1>2. Entry = [Released EXCEPT !.pinLeft = IF PinSecs > 0 THEN 0 ELSE @]
  BY DEF Entry
<1> HIDE DEF Released, Entry
<1> QED
  BY <1>1, <1>2, LadderAssumption DEF Ladder

\* A call that gets to the lookup holds no claim, so none is ever compared with
\* an answer of the tier.
LEMMA NoBlockout == IInv => ~ClaimBlocked
  BY EntryIsClean DEF ClaimBlocked

\* What is remembered of an answer is a hit, or none, and a boundary.
LEMMA SeenKeeps ==
  ASSUME Types, NEW st \in Ladder
  PROVE  /\ Seen(st) \in Ladder
         /\ Seen(st).lastComputed = computed
         /\ \A f \in {"streak", "pinLeft", "fallbacks", "wallAge", "escape",
                      "refusalLeft", "claimActive", "claimHit", "claimComputed"} :
               Seen(st)[f] = st[f]
<1>1. tier \in Hits \cup {0, Unset} /\ computed \in Boundaries \cup {Unset}
      /\ 0 \in 0 .. RepeatWindow
  BY Limits DEF Types, Retry, Unset
<1>2. Seen(st) \in Ladder
  BY <1>1 DEF Seen, Ladder
<1> QED
  BY <1>1, <1>2 DEF Seen, Ladder

\* A repeat leaves the clock of the wall running.
LEMMA WallAgeRuns ==
  ASSUME IInv, ReachesLookup
  PROVE  WallAge \in -1 .. WallBound /\ WallAge # Unset
  BY EntryIsClean, Limits DEF WallAge, Ladder, Unset

-----------------------------------------------------------------------------
(***************************************************************************)
(* Each branch of a call keeps the invariant.                              *)
(***************************************************************************)
\* An answer that is no repeat resets the ladder and is passed on.
LEMMA FreshKeeps ==
  ASSUME IInv, FreshLookup
  PROVE  s' \in Ladder /\ Agree(s') /\ answer' = tier
<1> DEFINE stays == tier = Entry.claimHit /\ computed = Entry.claimComputed
           st == [Entry EXCEPT
                    !.streak = 0, !.fallbacks = 0, !.wallAge = Unset,
                    !.escape = FALSE, !.refusalLeft = 0,
                    !.claimActive = @ /\ stays,
                    !.claimHit = IF stays THEN @ ELSE Unset,
                    !.claimComputed = IF stays THEN @ ELSE Unset]
<1>1. s' = Seen(st) /\ answer' = tier /\ ReachesLookup
  BY NoBlockout DEF FreshLookup, Reply
<1>2. Entry \in Ladder /\ ~Entry.claimActive
  BY <1>1, EntryIsClean
<1> HIDE DEF Entry
<1>3. st \in Ladder
  <2>1. 0 \in 0 .. MaxOf(MaxLookups - 1, 0) /\ 0 \in 0 .. MaxOf(RefusalSecs, WallSecs)
    BY Limits
  <2>2. [Entry EXCEPT !.streak = 0, !.fallbacks = 0, !.wallAge = Unset,
                      !.escape = FALSE, !.refusalLeft = 0] \in Ladder
    BY <1>2, <2>1, Limits DEF Ladder
  <2> DEFINE st1 == [Entry EXCEPT !.streak = 0, !.fallbacks = 0, !.wallAge = Unset,
                                  !.escape = FALSE, !.refusalLeft = 0]
  <2>3. st = [st1 EXCEPT !.claimActive = @ /\ stays,
                         !.claimHit = IF stays THEN @ ELSE Unset,
                         !.claimComputed = IF stays THEN @ ELSE Unset]
    OBVIOUS
  <2>4. st1 \in Ladder
    BY <2>2
  <2> HIDE DEF st, st1
  <2>5. CASE stays
    BY <2>3, <2>4, <2>5 DEF Ladder
  <2>6. CASE ~stays
    BY <2>3, <2>4, <2>6 DEF Ladder
  <2> QED
    BY <2>5, <2>6
<1>4. ~st.escape /\ ~st.claimActive /\ st.fallbacks = 0
  BY <1>2 DEF Ladder
<1> HIDE DEF st
<1> QED
  BY <1>1, <1>3, <1>4, SeenKeeps DEF Agree, IInv

\* A repeat that is answered with the hit, in or out of the window.
LEMMA RepeatKeeps ==
  ASSUME IInv, SlowRepeat \/ Repeat
  PROVE  s' \in Ladder /\ Agree(s') /\ answer' = tier
<1> PICK n \in 0 .. MaxOf(MaxLookups - 1, 0) :
      /\ s' = Seen([Entry EXCEPT !.wallAge = WallAge, !.streak = n])
      /\ answer' = tier /\ ReachesLookup
  <2>1. CASE SlowRepeat
    <3>1. ReachesLookup /\ answer' = tier
          /\ s' = Seen([Entry EXCEPT !.wallAge = WallAge, !.streak = 0])
      BY <2>1 DEF SlowRepeat, Reply
    <3>2. 0 \in 0 .. MaxOf(MaxLookups - 1, 0)
      BY Limits
    <3> QED
      BY <3>1, <3>2
  <2>2. CASE Repeat
    <3>1. ReachesLookup /\ Entry.streak + 1 < MaxLookups /\ answer' = tier
          /\ s' = Seen([Entry EXCEPT !.wallAge = WallAge, !.streak = Entry.streak + 1])
      BY <2>2, EntryIsClean, LadderAssumption DEF Repeat, Reply, BudgetSpent, Ladder
    <3>2. Entry.streak + 1 \in 0 .. MaxOf(MaxLookups - 1, 0)
      BY <3>1, EntryIsClean, Limits, LadderAssumption DEF Ladder
    <3> QED
      BY <3>1, <3>2
  <2> QED
    BY <2>1, <2>2
<1> DEFINE st == [Entry EXCEPT !.wallAge = WallAge, !.streak = n]
<1>1. Entry \in Ladder /\ ~Entry.escape /\ ~Entry.claimActive
      /\ (FallbackLimit > 0 => Entry.fallbacks < FallbackLimit)
  BY EntryIsClean
<1>2. WallAge \in -1 .. WallBound
  BY WallAgeRuns
<1> HIDE DEF Entry
<1>3. st \in Ladder /\ ~st.escape /\ ~st.claimActive /\ st.fallbacks = Entry.fallbacks
  BY <1>1, <1>2 DEF Ladder
<1> HIDE DEF st
<1> QED
  BY <1>1, <1>3, SeenKeeps DEF st, Agree, IInv

\* A fallback counts, pins the answer 0 and stays below the limit.
LEMMA FallbackKeeps ==
  ASSUME IInv, Fallback
  PROVE  s' \in Ladder /\ Agree(s') /\ answer' = 0
<1>1. /\ ReachesLookup /\ answer' = 0 /\ ~ForceEscape
      /\ s' = [Entry EXCEPT !.wallAge = WallAge, !.streak = 0,
                            !.fallbacks = @ + 1, !.pinLeft = PinSecs]
  BY DEF Fallback, Reply
<1>2. Entry \in Ladder /\ ~Entry.escape /\ ~Entry.claimActive
  BY <1>1, EntryIsClean
<1>3. FallbackLimit > 0 => Entry.fallbacks + 1 < FallbackLimit
  BY <1>1, <1>2, LadderAssumption DEF ForceEscape, Ladder
<1>4. WallAge \in -1 .. WallBound /\ 0 \in 0 .. MaxOf(MaxLookups - 1, 0)
      /\ PinSecs \in 0 .. PinSecs
  BY <1>1, WallAgeRuns, Limits, LadderAssumption
<1> DEFINE n == Entry.fallbacks + 1
<1>5. s' = [Entry EXCEPT !.wallAge = WallAge, !.streak = 0, !.fallbacks = n,
                         !.pinLeft = PinSecs] /\ n \in Nat
  BY <1>1, <1>2 DEF Ladder
<1> HIDE DEF Entry, WallAge, n
<1>6. s' \in Ladder /\ ~s'.escape /\ ~s'.claimActive /\ s'.fallbacks = n
  BY <1>2, <1>4, <1>5 DEF Ladder
<1> QED
  BY <1>1, <1>3, <1>6 DEF Agree, n

\* Escape mode is entered with a clock and, with a refusal window, a claim.
LEMMA EscapeKeeps ==
  ASSUME IInv, EnterEscape
  PROVE  s' \in Ladder /\ Agree(s') /\ answer' = 0
<1> DEFINE claim == RefusalSecs > 0
           st == [Entry EXCEPT !.wallAge = WallAge, !.streak = 0, !.fallbacks = 0,
                               !.escape = TRUE, !.pinLeft = 0]
<1>1. /\ ReachesLookup /\ IsRepeat /\ answer' = 0
      /\ s' = [st EXCEPT !.refusalLeft = IF claim THEN RefusalSecs ELSE @,
                         !.claimActive = @ \/ claim,
                         !.claimHit = IF claim THEN tier ELSE @,
                         !.claimComputed = IF claim THEN computed ELSE @]
  BY DEF EnterEscape, Reply
<1>2. Entry \in Ladder /\ ~Entry.claimActive /\ Entry.lastComputed = computed
      /\ tier \in Hits /\ computed \in Boundaries
  BY <1>1, EntryIsClean DEF IsRepeat, IInv, Types
<1>3. /\ WallAge \in -1 .. WallBound /\ WallAge # Unset
      /\ 0 \in 0 .. MaxOf(MaxLookups - 1, 0) /\ 0 \in 0 .. PinSecs
      /\ RefusalSecs \in 0 .. MaxOf(RefusalSecs, WallSecs)
  BY <1>1, WallAgeRuns, Limits, LadderAssumption
<1> HIDE DEF Entry, WallAge
<1>4. st \in Ladder
  BY <1>2, <1>3 DEF Ladder
<1>5. st.escape /\ ~st.claimActive /\ st.pinLeft = 0 /\ st.wallAge = WallAge
      /\ st.lastComputed = computed /\ st.fallbacks = 0
  BY <1>2 DEF Ladder
<1> HIDE DEF st
<1>6. CASE claim
  <2>1. s' = [st EXCEPT !.refusalLeft = RefusalSecs, !.claimActive = TRUE,
                        !.claimHit = tier, !.claimComputed = computed]
    BY <1>1, <1>6
  <2>2. s' \in Ladder /\ s'.escape /\ s'.pinLeft = 0 /\ s'.wallAge = WallAge
        /\ s'.claimActive /\ s'.claimComputed = computed
        /\ s'.lastComputed = computed /\ s'.fallbacks = 0
    BY <1>2, <1>3, <1>4, <1>5, <2>1 DEF Ladder
  <2> QED
    BY <1>1, <1>3, <2>2 DEF Agree
<1>7. CASE ~claim
  <2>1. s' \in Ladder /\ s'.escape /\ s'.pinLeft = 0 /\ s'.wallAge = WallAge
        /\ ~s'.claimActive /\ s'.fallbacks = 0
    BY <1>1, <1>4, <1>5, <1>7 DEF Ladder
  <2> QED
    BY <1>1, <1>3, <1>7, <2>1 DEF Agree
<1> QED
  BY <1>6, <1>7

\* V4 HOLD: the clock starts again and everything else stays.
LEMMA HoldClaimKeeps ==
  ASSUME IInv, HoldClaim
  PROVE  s' \in Ladder /\ Agree(s') /\ answer' = 0
<1>1. s' = [s EXCEPT !.wallAge = 0, !.refusalLeft = WallSecs] /\ answer' = 0
  BY DEF HoldClaim, Reply
<1>2. WallSecs \in 0 .. MaxOf(RefusalSecs, WallSecs)
  BY Limits, LadderAssumption
<1>3. /\ s' \in Ladder /\ s'.wallAge = 0 /\ s'.claimActive = s.claimActive
      /\ s'.escape = s.escape /\ s'.claimComputed = s.claimComputed
      /\ s'.lastComputed = s.lastComputed /\ s'.pinLeft = s.pinLeft
      /\ s'.fallbacks = s.fallbacks
  BY <1>1, <1>2, Limits DEF Ladder, IInv, Types
<1> QED
  BY <1>1, <1>3 DEF Agree, IInv, Unset

\* Time moves the timers within their bounds and nothing else.
LEMMA TickKeeps ==
  ASSUME IInv, Tick
  PROVE  s' \in Ladder /\ Agree(s')
<1> DEFINE age == Up(s.lastAge, RepeatWindow)
           wall == IF s.wallAge = Unset THEN Unset ELSE Up(s.wallAge, WallBound)
           pin == Down(s.pinLeft)
           refusal == Down(s.refusalLeft)
<1>1. s' = [s EXCEPT !.lastAge = age, !.wallAge = wall, !.pinLeft = pin,
                     !.refusalLeft = refusal]
  BY DEF Tick
<1>2. s \in Ladder
  BY DEF IInv, Types
<1>3. /\ age \in 0 .. RepeatWindow /\ wall \in -1 .. WallBound
      /\ pin \in 0 .. PinSecs /\ refusal \in 0 .. MaxOf(RefusalSecs, WallSecs)
      /\ s.wallAge # Unset => wall # Unset
      /\ s.pinLeft = 0 => pin = 0
  <2>1. /\ s.lastAge \in 0 .. RepeatWindow /\ s.wallAge \in -1 .. WallBound
        /\ s.pinLeft \in 0 .. PinSecs
        /\ s.refusalLeft \in 0 .. MaxOf(RefusalSecs, WallSecs)
    BY <1>2 DEF Ladder
  <2>2. age \in 0 .. RepeatWindow
    BY <2>1, Limits DEF Up
  <2>3. wall \in -1 .. WallBound /\ (s.wallAge # Unset => wall # Unset)
    BY <2>1, Limits DEF Up, Unset
  <2>4. pin \in 0 .. PinSecs /\ (s.pinLeft = 0 => pin = 0)
    BY <2>1, LadderAssumption DEF Down
  <2>5. refusal \in 0 .. MaxOf(RefusalSecs, WallSecs)
    BY <2>1, Limits DEF Down
  <2> QED
    BY <2>2, <2>3, <2>4, <2>5
<1> HIDE DEF age, wall, pin, refusal
<1>4. /\ s' \in Ladder /\ s'.wallAge = wall /\ s'.claimActive = s.claimActive
      /\ s'.escape = s.escape /\ s'.claimComputed = s.claimComputed
      /\ s'.lastComputed = s.lastComputed /\ s'.pinLeft = pin
      /\ s'.fallbacks = s.fallbacks
  BY <1>1, <1>2, <1>3 DEF Ladder
<1> QED
  BY <1>3, <1>4 DEF Agree, IInv

-----------------------------------------------------------------------------
(***************************************************************************)
(* The theorems.                                                           *)
(***************************************************************************)
\* No branch of a call and no step around it breaks the invariant.
LEMMA InvariantKept == IInv /\ [Next]_vars => IInv'
<1> SUFFICES ASSUME IInv, [Next]_vars PROVE IInv'
  OBVIOUS
<1>1. CASE GetNumNewMatchedTokens
  <2>1. s' \in Ladder /\ Agree(s') /\ answer' \in Hits \cup {0, Retry}
    <3>1. CASE DelayForJobs
      BY <3>1 DEF DelayForJobs, Reply, IInv, Types
    <3>2. CASE HoldEscape \/ HoldPin
      BY <3>2 DEF HoldEscape, HoldPin, Reply, IInv, Types
    <3>3. CASE HoldClaim
      BY <3>3, HoldClaimKeeps
    <3>4. CASE FreshLookup
      BY <3>4, FreshKeeps DEF IInv, Types
    <3>5. CASE SlowRepeat \/ Repeat
      BY <3>5, RepeatKeeps DEF IInv, Types
    <3>6. CASE Fallback
      BY <3>6, FallbackKeeps
    <3>7. CASE EnterEscape
      BY <3>7, EscapeKeeps
    <3> QED
      BY <1>1, <3>1, <3>2, <3>3, <3>4, <3>5, <3>6, <3>7 DEF GetNumNewMatchedTokens
  <2>2. UNCHANGED envVars
    BY <1>1 DEF GetNumNewMatchedTokens, DelayForJobs, HoldEscape, HoldClaim,
       HoldPin, FreshLookup, SlowRepeat, Repeat, Fallback, EnterEscape, Reply
  <2> QED
    BY <2>1, <2>2 DEF IInv, Types, envVars
<1>2. CASE Admit
  BY <1>2 DEF Admit, IInv, Types
<1>3. CASE TransfersFinish
  BY <1>3 DEF TransfersFinish, IInv, Types
<1>4. CASE Preempt
  BY <1>4 DEF Preempt, IInv, Types
<1>5. CASE LocalHitChanges
  BY <1>5 DEF LocalHitChanges, IInv, Types
<1>6. CASE TierChanges
  BY <1>6 DEF TierChanges, IInv, Types
<1>7. CASE RoomChanges
  BY <1>7 DEF RoomChanges, IInv, Types
<1>8. CASE Tick
  BY <1>8, TickKeeps DEF Tick, envVars, IInv, Types
<1>9. CASE UNCHANGED vars
  BY <1>9 DEF vars, IInv, Types
<1> QED
  BY <1>1, <1>2, <1>3, <1>4, <1>5, <1>6, <1>7, <1>8, <1>9 DEF Next

\* The fields of the ladder keep their limits and agree with each other after
\* any sequence of calls, changes around the request and ticks.
THEOREM LadderInvariant == Spec => []IInv
<1>1. Init => IInv
  <2> SUFFICES ASSUME Init PROVE IInv
    OBVIOUS
  <2>1. 0 \in 0 .. MaxOf(MaxLookups - 1, 0) /\ 0 \in 0 .. MaxOf(RefusalSecs, WallSecs)
        /\ 0 \in 0 .. PinSecs /\ RepeatWindow \in 0 .. RepeatWindow
    BY Limits, LadderAssumption
  <2>2. Fresh \in Ladder
    BY <2>1, Limits DEF Fresh, Ladder
  <2> QED
    BY <2>2 DEF Init, IInv, Types, Agree, Fresh
<1> QED
  BY <1>1, InvariantKept, PTL DEF Spec

\* What the run checks of the fields, for any limits and timers: counters below
\* their limits, a claim only inside an escape of its boundary, a clock for
\* every escape, and no call that reaches the claim blockout.
THEOREM LadderConsistent == Spec => []LadderIsConsistent
<1>1. IInv => LadderIsConsistent
  <2> SUFFICES ASSUME IInv PROVE LadderIsConsistent
    OBVIOUS
  <2>1. TypeOK
    BY DEF IInv, Types, Agree, Ladder, TypeOK
  <2>2. ClaimKeepsEscape
    BY DEF IInv, Agree, ClaimKeepsEscape
  <2>3. BlockoutNeverRuns
    BY NoBlockout DEF BlockoutNeverRuns
  <2> QED
    BY <2>1, <2>2, <2>3 DEF LadderIsConsistent
<1> QED
  BY <1>1, LadderInvariant, PTL

\* A claim answers for its boundary before the lookup can: while it is held, the
\* call gives no hit (the gates at the head of the ladder).
THEOREM ClaimStaysDown == Spec => FalseClaimStaysDown
<1>1. IInv /\ [Next]_vars =>
        [(s.claimActive /\ SameBoundary /\ GetNumNewMatchedTokens)
            => answer' \notin Hits]_vars
  <2> SUFFICES ASSUME IInv, s.claimActive, SameBoundary, GetNumNewMatchedTokens
               PROVE  answer' \notin Hits
    OBVIOUS
  <2>1. ~ReachesPin
    BY DEF IInv, Agree, ReachesPin, EscapeHolds, ClaimHolds
  <2>2. answer' \in {0, Retry}
    BY <2>1 DEF GetNumNewMatchedTokens, DelayForJobs, HoldEscape, HoldClaim, HoldPin,
       FreshLookup, SlowRepeat, Repeat, Fallback, EnterEscape, PinHolds,
       ReachesLookup, Reply
  <2> QED
    BY <2>2, LadderAssumption DEF Retry
<1> QED
  BY <1>1, LadderInvariant, PTL DEF Spec, FalseClaimStaysDown

\* With a refusal window an escape ends only on progress: every escape holds a
\* claim, and a claim takes the call past the wall (V4 HOLD).
THEOREM EscapeEnds == ASSUME RefusalSecs > 0 PROVE Spec => EscapeEndsOnProgress
<1>1. IInv /\ [Next]_vars =>
        [(s.escape /\ ~s'.escape) => s.lastComputed # computed]_vars
  <2> SUFFICES ASSUME IInv, Next, s.escape, s.lastComputed = computed PROVE s'.escape
    OBVIOUS
  <2>1. s.claimActive /\ SameBoundary /\ s \in Ladder
    BY DEF IInv, Agree, SameBoundary, Types
  <2>2. ~ReachesPin
    BY <2>1 DEF ReachesPin, EscapeHolds, ClaimHolds
  <2>3. CASE GetNumNewMatchedTokens
    <3>1. CASE HoldClaim
      BY <2>1, <3>1 DEF HoldClaim, Reply, Ladder
    <3>2. CASE DelayForJobs \/ HoldEscape
      BY <3>2 DEF DelayForJobs, HoldEscape, Reply
    <3> QED
      BY <2>2, <2>3, <3>1, <3>2 DEF GetNumNewMatchedTokens, HoldPin, FreshLookup,
         SlowRepeat, Repeat, Fallback, EnterEscape, PinHolds, ReachesLookup
  <2>4. CASE Tick
    BY <2>1, <2>4 DEF Tick, Ladder
  <2> QED
    BY <2>3, <2>4 DEF Next, Admit, TransfersFinish, Preempt, LocalHitChanges,
       TierChanges, RoomChanges
<1> QED
  BY <1>1, LadderInvariant, PTL DEF Spec, EscapeEndsOnProgress
=============================================================================
