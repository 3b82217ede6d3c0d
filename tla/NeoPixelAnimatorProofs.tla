----------------------- MODULE NeoPixelAnimatorProofs -----------------------
(***************************************************************************)
(* The count of NeoPixelAnimator is right for any number of animations,    *)
(* any durations and any time between two updates, if the functions of the *)
(* animations are careful.  The count alone is not inductive: it stays     *)
(* right over ProgressReturns only because the time left of the animation  *)
(* in progress is more than what is taken off it, whatever its function    *)
(* has done (Place).                                                       *)
(***************************************************************************)
EXTENDS NeoPixelAnimator, FiniteSetTheorems, TLAPS

Place ==
  /\ pc \in {"progress", "completed"} => iAnim \in Anim
  /\ pc = "progress" => _remaining[iAnim] > delta

IInv == TypeOK /\ CountIsActive /\ Place

-----------------------------------------------------------------------------
(* Arithmetic and sets *)

\* A number within the modulus is its own remainder.
LEMMA ModSame == ASSUME NEW m \in Nat \ {0}, NEW a \in 0 .. m - 1 PROVE a % m = a
  BY SMT

\* The time is scaled down.
LEMMA DivSmaller ==
  ASSUME NEW a \in Nat, NEW s \in Nat \ {0} PROVE a \div s \in 0 .. a
  BY SMT

\* There are Count animations.
LEMMA AnimFinite == IsFiniteSet(Anim) /\ Cardinality(Anim) = Count
  BY FS_Interval, CountAssumption, SMT DEF Anim

\* The active animations can be counted, and there are no more than Count.
LEMMA ActiveFinite ==
  ASSUME TypeOK
  PROVE  /\ IsFiniteSet(Active)
         /\ Cardinality(Active) \in 0 .. Count
<1>1. Active \in SUBSET Anim BY DEF Active
<1>2. IsFiniteSet(Active) /\ Cardinality(Active) <= Count
  BY <1>1, AnimFinite, FS_Subset
<1> QED BY <1>2, FS_CardinalityType, CountAssumption

\* The count is right: an animation is running to the sketch if and only if
\* it has time left.
LEMMA ActiveAsTold ==
  ASSUME IInv, NEW i \in Anim
  PROVE  IsAnimationActive(i) <=> i \in Active
<1>1. _remaining[i] \in Nat BY DEF IInv, TypeOK
<1>2. i \in Active <=> _remaining[i] # 0 BY <1>1 DEF Active
<1>3. ASSUME i \in Active PROVE Cardinality(Active) > 0
  <2>1. Cardinality(Active) # 0 BY <1>3, ActiveFinite, FS_EmptySet DEF IInv
  <2> QED BY <2>1, ActiveFinite, CountAssumption DEF IInv
<1> QED BY <1>2, <1>3 DEF IsAnimationActive, IInv, CountIsActive

-----------------------------------------------------------------------------
(* What the steps do to the count *)

\* An animation that gets time is active.
LEMMA StartCounts ==
  ASSUME IInv, NEW i \in Anim, NEW d \in 0 .. Modulus - 1, StartAnimation(i, d)
  PROVE  /\ CountIsActive'
         /\ _activeAnimations' \in 0 .. Modulus - 1
         /\ _remaining' \in [Anim -> 0 .. Modulus - 1]
         /\ _duration' \in [Anim -> 0 .. Modulus - 1]
         /\ d > delta => _remaining'[i] > delta
         /\ \A j \in Anim : j # i => _remaining'[j] = _remaining[j]
<1> DEFINE e == IF d = 0 THEN 1 ELSE d
<1>0. TypeOK BY DEF IInv
<1>1. e \in 0 .. Modulus - 1 /\ e > 0 /\ (d > delta => e > delta)
  BY ScaleAssumption, CountAssumption, <1>0 DEF TypeOK
<1>2. /\ _remaining' = [_remaining EXCEPT ![i] = e]
      /\ _duration' = [_duration EXCEPT ![i] = e]
  BY DEF StartAnimation
<1>3. Active' = Active \cup {i}
  BY <1>0, <1>1, <1>2 DEF Active, TypeOK
<1>4. /\ IsFiniteSet(Active) /\ Cardinality(Active) \in 0 .. Count
      /\ Cardinality(Active \cup {i}) =
           IF i \in Active THEN Cardinality(Active) ELSE Cardinality(Active) + 1
      /\ IsFiniteSet(Active \cup {i})
  BY <1>0, ActiveFinite, FS_AddElement
<1>5. Cardinality(Active \cup {i}) <= Count
  <2>1. Active \cup {i} \in SUBSET Anim BY DEF Active
  <2> QED BY <2>1, AnimFinite, FS_Subset
<1>6. _activeAnimations' = Cardinality(Active \cup {i})
  <2> DEFINE n == _activeAnimations
  <2>1. n = Cardinality(Active) BY DEF IInv, CountIsActive
  <2>2. CASE i \in Active
    <3>1. IsAnimationActive(i) BY <2>2, ActiveAsTold
    <3>2. n \in 1 .. Modulus - 1
      BY <3>1, <2>1, <1>4, CountAssumption DEF IsAnimationActive
    <3>3. Dec(n) = n - 1 BY <3>2, ModSame, CountAssumption DEF Dec
    <3>4. _activeAnimations' = (n - 1 + 1) % Modulus BY <3>1, <3>3 DEF StartAnimation
    <3>5. n - 1 + 1 = n /\ n \in 0 .. Modulus - 1 BY <3>2, CountAssumption
    <3> QED BY <3>4, <3>5, ModSame, CountAssumption, <2>1, <2>2, <1>4
  <2>3. CASE i \notin Active
    <3>1. ~IsAnimationActive(i) BY <2>3, ActiveAsTold
    <3>2. _activeAnimations' = (n + 1) % Modulus BY <3>1 DEF StartAnimation
    <3>3. n + 1 \in 0 .. Modulus - 1 BY <2>1, <2>3, <1>4, <1>5, CountAssumption
    <3> QED BY <3>2, <3>3, ModSame, CountAssumption, <2>1, <2>3, <1>4
  <2> QED BY <2>2, <2>3
<1>7. _activeAnimations' \in 0 .. Modulus - 1
  BY <1>4, <1>5, <1>6, CountAssumption
<1> QED BY <1>0, <1>1, <1>2, <1>3, <1>6, <1>7 DEF TypeOK, CountIsActive

\* An animation whose time is taken away is active no more.
LEMMA StopCounts ==
  ASSUME IInv, NEW i \in Anim, i \in Active,
         _activeAnimations' = Dec(_activeAnimations),
         _remaining' = [_remaining EXCEPT ![i] = 0]
  PROVE  /\ CountIsActive'
         /\ _activeAnimations' \in 0 .. Modulus - 1
         /\ _remaining' \in [Anim -> 0 .. Modulus - 1]
<1>0. TypeOK BY DEF IInv
<1>1. Active' = Active \ {i} BY <1>0 DEF Active, TypeOK
<1>2. /\ Cardinality(Active) \in 0 .. Count
      /\ Cardinality(Active \ {i}) = Cardinality(Active) - 1
      /\ Cardinality(Active \ {i}) \in Nat
  BY <1>0, ActiveFinite, FS_RemoveElement, FS_CardinalityType
<1>3. _activeAnimations - 1 \in 0 .. Modulus - 1
  BY <1>2, CountAssumption DEF IInv, CountIsActive
<1>4. _activeAnimations' = _activeAnimations - 1
  BY <1>3, ModSame, CountAssumption DEF Dec
<1> QED BY <1>0, <1>1, <1>2, <1>3, <1>4, CountAssumption DEF TypeOK, CountIsActive, IInv

-----------------------------------------------------------------------------
(* The invariant *)

LEMMA InitIInv == Init => IInv
<1> SUFFICES ASSUME Init PROVE IInv OBVIOUS
<1>1. TypeOK
  BY CountAssumption, ScaleAssumption, BoundsAssumption DEF Init, TypeOK, Anim
<1>2. Active = {} BY CountAssumption DEF Init, Active
<1> QED BY <1>1, <1>2, FS_EmptySet DEF Init, IInv, CountIsActive, Place

\* Steps that leave the times and the count alone.
LEMMA SameCount ==
  ASSUME IInv, UNCHANGED table
  PROVE  CountIsActive'
  BY DEF IInv, CountIsActive, Active, table

LEMMA StepIInv == ASSUME Careful PROVE IInv /\ [Next]_vars => IInv'
<1> SUFFICES ASSUME IInv, [Next]_vars PROVE IInv'
  OBVIOUS
<1>0. TypeOK /\ Place BY DEF IInv
<1>1. ASSUME NEW i \in Anim, NEW d \in Duration, Start(i, d) PROVE IInv'
  <2>1. d \in 0 .. Modulus - 1 BY DurationAssumption
  <2>2. StartAnimation(i, d) BY <1>1 DEF Start
  <2>3. TypeOK'
    <3>1. /\ _activeAnimations' \in 0 .. Modulus - 1
          /\ _remaining' \in [Anim -> 0 .. Modulus - 1]
          /\ _duration' \in [Anim -> 0 .. Modulus - 1]
      BY <2>1, <2>2, StartCounts
    <3>2. age' \in 0 .. MaxAge
      BY <1>0, <2>2, BoundsAssumption DEF TypeOK, StartAnimation
    <3>3. starts' \in 0 .. MaxStarts /\ UNCHANGED <<_isRunning, pc, iAnim, delta>>
      BY <1>0, <1>1, BoundsAssumption DEF TypeOK, Start, update
    <3> QED BY <1>0, <3>1, <3>2, <3>3 DEF TypeOK
  <2>4. Place'
    BY <1>0, <1>1, <2>1, <2>2, StartCounts DEF Place, Start, update, Own
  <2> QED BY <2>1, <2>2, <2>3, <2>4, StartCounts DEF IInv
<1>2. ASSUME NEW i \in Anim, RestartAnimation(i) PROVE IInv'
  <2>1. _duration[i] \in 0 .. Modulus - 1 BY <1>0 DEF TypeOK
  <2>2. StartAnimation(i, _duration[i]) BY <1>2 DEF RestartAnimation
  <2>3. TypeOK'
    <3>1. /\ _activeAnimations' \in 0 .. Modulus - 1
          /\ _remaining' \in [Anim -> 0 .. Modulus - 1]
          /\ _duration' \in [Anim -> 0 .. Modulus - 1]
      BY <2>1, <2>2, StartCounts
    <3>2. age' \in 0 .. MaxAge
      BY <1>0, <2>2, BoundsAssumption DEF TypeOK, StartAnimation
    <3>3. starts' \in 0 .. MaxStarts /\ UNCHANGED <<_isRunning, pc, iAnim, delta>>
      BY <1>0, <1>2, BoundsAssumption DEF TypeOK, RestartAnimation, update
    <3> QED BY <1>0, <3>1, <3>2, <3>3 DEF TypeOK
  <2>4. Place'
    BY <1>0, <1>2, <2>1, <2>2, StartCounts DEF Place, RestartAnimation, update, Own
  <2> QED BY <2>1, <2>2, <2>3, <2>4, StartCounts DEF IInv
<1>3. ASSUME NEW i \in Anim, StopAnimation(i) PROVE IInv'
  <2>1. i \in Active BY <1>3, ActiveAsTold DEF StopAnimation
  <2>2. /\ CountIsActive'
        /\ _activeAnimations' \in 0 .. Modulus - 1
        /\ _remaining' \in [Anim -> 0 .. Modulus - 1]
    BY <1>3, <2>1, StopCounts DEF StopAnimation
  <2>3. UNCHANGED <<_duration, _isRunning, age, pc, iAnim, delta, starts>>
    BY <1>3 DEF StopAnimation, update
  <2>5. TypeOK' BY <1>0, <2>2, <2>3 DEF TypeOK
  <2>4. Place'
    BY <1>0, <1>3 DEF Place, StopAnimation, update, Own, TypeOK
  <2> QED BY <2>2, <2>4, <2>5 DEF IInv
<1>4. ASSUME Pause \/ Resume \/ Tick PROVE IInv'
  <2>1. UNCHANGED table BY <1>4 DEF Pause, Resume, Tick
  <2>2. TypeOK'
    <3>1. age' \in 0 .. MaxAge
      BY <1>0, <1>4, BoundsAssumption DEF TypeOK, Pause, Resume, Tick
    <3>2. _isRunning' \in BOOLEAN
      BY <1>0, <1>4, Zenon DEF TypeOK, Pause, Resume, Tick
    <3>3. UNCHANGED <<_duration, _remaining, _activeAnimations, pc, iAnim, delta, starts>>
      BY <1>4 DEF Pause, Resume, Tick, table, update
    <3> QED BY <1>0, <3>1, <3>2, <3>3 DEF TypeOK
  <2>3. Place' BY <1>0, <1>4 DEF Place, Pause, Resume, Tick, table, update
  <2> QED BY <2>1, <2>2, <2>3, SameCount DEF IInv
<1>5. ASSUME UpdateBegins PROVE IInv'
  <2>1. age \div _timeScale \in 0 .. MaxAge
    BY <1>0, DivSmaller, ScaleAssumption, BoundsAssumption DEF TypeOK
  <2>2. TypeOK'
    BY <1>0, <1>5, <2>1, CountAssumption DEF TypeOK, UpdateBegins, table
  <2>3. Place' BY <1>5 DEF Place, UpdateBegins
  <2> QED BY <1>5, <2>2, <2>3, SameCount DEF IInv, UpdateBegins
<1>6. ASSUME Skip \/ Progress \/ CompleteReturns \/ UpdateEnds PROVE IInv'
  <2>1. UNCHANGED table BY <1>6 DEF Skip, Progress, CompleteReturns, UpdateEnds
  <2>2. TypeOK'
    <3>1. iAnim' \in 0 .. Count
      BY <1>0, <1>6, CountAssumption
      DEF TypeOK, Place, Anim, Skip, Progress, CompleteReturns, UpdateEnds
    <3> QED
      BY <1>0, <1>6, <3>1, BoundsAssumption
      DEF TypeOK, Skip, Progress, CompleteReturns, UpdateEnds, table
  <2>3. Place'
    BY <1>0, <1>6, CountAssumption
    DEF Place, TypeOK, Anim, Skip, Progress, CompleteReturns, UpdateEnds, table
  <2> QED BY <2>1, <2>2, <2>3, SameCount DEF IInv
<1>7. ASSUME ProgressReturns PROVE IInv'
  <2>1. iAnim \in Anim /\ _remaining[iAnim] > delta BY <1>0, <1>7 DEF Place, ProgressReturns
  <2>2. _remaining[iAnim] - delta \in 0 .. Modulus - 1 /\ _remaining[iAnim] - delta > 0
    BY <1>0, <2>1, CountAssumption, BoundsAssumption DEF TypeOK
  <2>3. (_remaining[iAnim] - delta) % Modulus = _remaining[iAnim] - delta
    BY <2>2, ModSame, CountAssumption
  <2>4. _remaining' = [_remaining EXCEPT ![iAnim] = _remaining[iAnim] - delta]
    BY <1>7, <2>3 DEF ProgressReturns
  <2>5. Active' = Active
    BY <1>0, <2>1, <2>2, <2>4, BoundsAssumption DEF Active, TypeOK
  <2>6. TypeOK'
    BY <1>0, <1>7, <2>1, <2>2, <2>4, CountAssumption DEF TypeOK, ProgressReturns, Anim
  <2> QED BY <1>7, <2>5, <2>6 DEF IInv, CountIsActive, Place, ProgressReturns
<1>8. ASSUME Complete PROVE IInv'
  <2>1. iAnim \in Anim /\ iAnim \in Active
    BY <1>0, <1>8, CountAssumption, BoundsAssumption DEF Complete, TypeOK, Anim, Active
  <2>2. /\ CountIsActive'
        /\ _activeAnimations' \in 0 .. Modulus - 1
        /\ _remaining' \in [Anim -> 0 .. Modulus - 1]
    BY <1>8, <2>1, StopCounts DEF Complete
  <2>3. TypeOK' BY <1>0, <1>8, <2>2 DEF TypeOK, Complete
  <2> QED BY <1>8, <2>1, <2>2, <2>3 DEF IInv, Place, Complete
<1>9. ASSUME UNCHANGED vars PROVE IInv'
  BY <1>9 DEF IInv, TypeOK, CountIsActive, Active, Place, vars, table, update
<1> QED
  BY <1>1, <1>2, <1>3, <1>4, <1>5, <1>6, <1>7, <1>8, <1>9 DEF Next, Update

\* The count of active animations is the number of those with time left,
\* for every Count below the modulus, every duration and every time between
\* updates, if the functions are careful.
THEOREM CountIsActiveTheorem == ASSUME Careful PROVE Spec => []CountIsActive
<1>1. Init => IInv BY InitIInv
<1>2. IInv /\ [Next]_vars => IInv' BY StepIInv
<1>3. IInv => CountIsActive BY DEF IInv
<1> QED BY <1>1, <1>2, <1>3, PTL DEF Spec
=============================================================================
