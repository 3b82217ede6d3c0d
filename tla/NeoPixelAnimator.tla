-------------------------- MODULE NeoPixelAnimator --------------------------
(***************************************************************************)
(* The animations of NeoPixelBus (NeoPixelAnimator.h and                   *)
(* internal/NeoPixelAnimator.cpp): each has a time that is left, and       *)
(* UpdateAnimations() takes the time since the last update off it and      *)
(* calls the animation's function, which may start and stop animations,    *)
(* its own one among them.  A call is cut where it calls the sketch.       *)
(***************************************************************************)
EXTENDS Integers, FiniteSets

CONSTANTS
  Count,      \* _countAnimations
  Duration,   \* the durations the sketch asks for
  _timeScale,
  Modulus,    \* of _remaining and _activeAnimations, 2^16 in the code
  Careful,    \* a function in progress neither stops its own animation nor
              \* starts it shorter than the time since the last update
  MaxAge,     \* bound: the longest time between two updates
  MaxStarts   \* bound: how often animations are started

ASSUME CountAssumption == Count \in Nat /\ Modulus \in Nat /\ Count < Modulus
ASSUME DurationAssumption == Duration \subseteq 0 .. Modulus - 1
ASSUME ScaleAssumption == _timeScale \in Nat \ {0} /\ 1 \in 0 .. Modulus - 1
ASSUME BoundsAssumption == MaxAge \in Nat /\ MaxStarts \in Nat
ASSUME CarefulAssumption == Careful \in BOOLEAN

VARIABLES
  _duration, _remaining, _activeAnimations, _isRunning,
  age,            \* millis() - _animationLastTick
  pc, iAnim, delta, \* UpdateAnimations(): place, animation, scaled time
  starts          \* animations started so far

table  == <<_duration, _remaining, _activeAnimations>>
update == <<pc, iAnim, delta>>
vars   == <<table, _isRunning, age, update, starts>>

Anim == 0 .. Count - 1

TypeOK ==
  /\ _duration \in [Anim -> 0 .. Modulus - 1]
  /\ _remaining \in [Anim -> 0 .. Modulus - 1]
  /\ _activeAnimations \in 0 .. Modulus - 1
  /\ _isRunning \in BOOLEAN
  /\ age \in 0 .. MaxAge
  /\ pc \in {"sketch", "loop", "progress", "completed"}
  /\ iAnim \in 0 .. Count /\ delta \in 0 .. MaxAge
  /\ starts \in 0 .. MaxStarts

Init ==
  /\ _duration = [i \in Anim |-> 0] /\ _remaining = [i \in Anim |-> 0]
  /\ _activeAnimations = 0 /\ _isRunning = TRUE
  /\ age = 0
  /\ pc = "sketch" /\ iAnim = 0 /\ delta = 0
  /\ starts = 0

Dec(n) == (n - 1) % Modulus

IsAnimationActive(i) == _activeAnimations > 0 /\ _remaining[i] # 0

\* The sketch is at work, in loop() or in the function of an animation.
Sketch == pc # "loop"

\* What the function of an animation does to its own one.
Own(i) == pc = "progress" /\ i = iAnim

\* Mutant: an animation that is running is counted again.
StartAnimationCountsTwice(i, d) ==
  /\ _activeAnimations' = (_activeAnimations + 1) % Modulus
  /\ _duration' = [_duration EXCEPT ![i] = IF d = 0 THEN 1 ELSE d]
  /\ _remaining' = [_remaining EXCEPT ![i] = IF d = 0 THEN 1 ELSE d]
  /\ age' = IF _activeAnimations = 0 THEN 0 ELSE age

\* The animation is stopped first; a duration of 0 becomes 1.
StartAnimation(i, d) ==
  /\ _activeAnimations' =
       ((IF IsAnimationActive(i) THEN Dec(_activeAnimations) ELSE _activeAnimations) + 1) % Modulus
  /\ _duration' = [_duration EXCEPT ![i] = IF d = 0 THEN 1 ELSE d]
  /\ _remaining' = [_remaining EXCEPT ![i] = IF d = 0 THEN 1 ELSE d]
  /\ age' = IF _activeAnimations = 0 THEN 0 ELSE age

Start(i, d) ==
  /\ Sketch /\ starts < MaxStarts
  /\ Careful /\ Own(i) => d > delta
  /\ StartAnimation(i, d)
  /\ starts' = starts + 1
  /\ UNCHANGED <<_isRunning, update>>

RestartAnimation(i) ==
  /\ Sketch /\ starts < MaxStarts
  /\ Careful /\ Own(i) => _duration[i] > delta
  /\ _duration[i] # 0
  /\ StartAnimation(i, _duration[i])
  /\ starts' = starts + 1
  /\ UNCHANGED <<_isRunning, update>>

StopAnimation(i) ==
  /\ Sketch
  /\ ~(Careful /\ Own(i))
  /\ IsAnimationActive(i)
  /\ _activeAnimations' = Dec(_activeAnimations)
  /\ _remaining' = [_remaining EXCEPT ![i] = 0]
  /\ UNCHANGED <<_duration, _isRunning, age, update, starts>>

Pause ==
  /\ Sketch /\ _isRunning
  /\ _isRunning' = FALSE
  /\ UNCHANGED <<table, age, update, starts>>

Resume ==
  /\ Sketch /\ ~_isRunning
  /\ _isRunning' = TRUE /\ age' = 0
  /\ UNCHANGED <<table, update, starts>>

\* Mutant: what is left of the time by the scale.
UpdateBeginsWithRest ==
  /\ pc = "sketch" /\ _isRunning /\ age >= _timeScale
  /\ delta' = age % _timeScale
  /\ pc' = "loop" /\ iAnim' = 0
  /\ UNCHANGED <<table, _isRunning, age, starts>>

\* UpdateAnimations(), from here to UpdateEnds.
UpdateBegins ==
  /\ pc = "sketch" /\ _isRunning /\ age >= _timeScale
  /\ delta' = age \div _timeScale
  /\ pc' = "loop" /\ iAnim' = 0
  /\ UNCHANGED <<table, _isRunning, age, starts>>

Skip ==
  /\ pc = "loop" /\ iAnim < Count /\ _remaining[iAnim] = 0
  /\ iAnim' = iAnim + 1
  /\ UNCHANGED <<table, _isRunning, age, pc, delta, starts>>

Progress ==
  /\ pc = "loop" /\ iAnim < Count /\ _remaining[iAnim] > delta
  /\ pc' = "progress"
  /\ UNCHANGED <<table, _isRunning, age, iAnim, delta, starts>>

\* The time is taken off when the function has returned.
ProgressReturns ==
  /\ pc = "progress" /\ pc' = "loop" /\ iAnim' = iAnim + 1
  /\ _remaining' = [_remaining EXCEPT ![iAnim] = (@ - delta) % Modulus]
  /\ UNCHANGED <<_duration, _activeAnimations, _isRunning, age, delta, starts>>

Complete ==
  /\ pc = "loop" /\ iAnim < Count /\ _remaining[iAnim] \in 1 .. delta
  /\ _activeAnimations' = Dec(_activeAnimations)
  /\ _remaining' = [_remaining EXCEPT ![iAnim] = 0]
  /\ pc' = "completed"
  /\ UNCHANGED <<_duration, _isRunning, age, iAnim, delta, starts>>

CompleteReturns ==
  /\ pc = "completed" /\ pc' = "loop" /\ iAnim' = iAnim + 1
  /\ UNCHANGED <<table, _isRunning, age, delta, starts>>

UpdateEnds ==
  /\ pc = "loop" /\ iAnim = Count
  /\ pc' = "sketch" /\ iAnim' = 0 /\ delta' = 0
  /\ age' = 0
  /\ UNCHANGED <<table, _isRunning, starts>>

Update == Progress \/ ProgressReturns \/ Complete \/ CompleteReturns \/ Skip \/ UpdateEnds

\* Time passes in loop(); a function of an animation takes none.
Tick ==
  /\ pc = "sketch" /\ age < MaxAge
  /\ age' = age + 1
  /\ UNCHANGED <<table, _isRunning, update, starts>>

Next ==
  \/ \E i \in Anim, d \in Duration : Start(i, d)
  \/ \E i \in Anim : RestartAnimation(i) \/ StopAnimation(i)
  \/ Pause \/ Resume
  \/ UpdateBegins \/ Update \/ Tick

\* The sketch keeps calling UpdateAnimations(), as its header asks, and the
\* function of an animation returns.
Spec ==
  /\ Init /\ [][Next]_vars
  /\ WF_vars(UpdateBegins) /\ WF_vars(Update) /\ WF_vars(Tick)

-----------------------------------------------------------------------------
(* Properties *)

Active == {i \in Anim : _remaining[i] > 0}

\* IsAnimating, NextAvailableAnimation: what the sketch is told rests on the
\* count, which is kept apart from the times: it is the number of animations
\* with time left whatever the functions start and stop, except that one in
\* progress does not stop its own animation or start it shorter.
CountIsActive == _activeAnimations = Cardinality(Active)

\* UpdateAnimations: an animation comes to its end, unless the sketch pauses
\* or goes on starting animations for ever.
AnimationsEnd == \A i \in Anim : i \in Active ~> (i \notin Active \/ ~_isRunning)
=============================================================================
