---------------------------- MODULE OLEDDisplayUi ----------------------------
(***************************************************************************)
(* The frames of OLEDDisplayUi.cpp: update() draws when the time between   *)
(* two drawings has passed, the frames follow each other by transitions,   *)
(* and the sketch may ask for one by hand.                                 *)
(***************************************************************************)
EXTENDS Integers

CONSTANTS
  FrameCounts,                       \* how many frames the sketch sets
  ticksPerFrame, ticksPerTransition,
  updateInterval,
  Byte,      \* of the time budget, 2^8 in the code
  Late,      \* update() is called no later after the last drawing than this
  Patient,   \* the sketch waits for what it asked for by hand
  MaxCalls   \* bound: calls of the sketch other than update()

VARIABLES
  frameCount, frameState, currentFrame, nextFrameNumber,
  frameTransitionDirection, lastTransitionDirection, manuelControll,
  autoTransition,
  ticks,     \* ticksSinceLastStateSwitch
  elapsed,   \* millis() - lastUpdate, in a byte
  drawn,     \* lastUpdate # 0
  chosen,    \* the direction the sketch has set for automatic transitions
  calls      \* calls so far

time      == <<elapsed, drawn>>
direction == <<frameTransitionDirection, lastTransitionDirection, manuelControll>>
ghosts    == <<chosen, calls>>
vars      == <<frameCount, frameState, currentFrame, nextFrameNumber, direction,
               autoTransition, ticks, time, ghosts>>

None == -1
ConstantsOK ==
  /\ FrameCounts \subseteq Nat \ {0}
  /\ {ticksPerFrame, ticksPerTransition, updateInterval, Byte, MaxCalls} \subseteq Nat
  /\ updateInterval \in 1 .. Byte - 1 /\ Late \in updateInterval .. Byte
  /\ Patient \in BOOLEAN

Frame    == 0 .. frameCount - 1
AnyFrame == UNION {0 .. n - 1 : n \in FrameCounts}

\* The frame shown, and the one a transition leads to, exist (a call through
\* frameFunctions of any other number is undefined).
TypeOK ==
  /\ frameCount \in FrameCounts
  /\ frameState \in {"FIXED", "IN_TRANSITION"}
  /\ currentFrame \in Frame /\ nextFrameNumber \in Frame \cup {None}
  /\ {frameTransitionDirection, lastTransitionDirection, chosen} \subseteq {1, -1}
  /\ {manuelControll, autoTransition, drawn} \subseteq BOOLEAN
  /\ ticks \in 0 .. ticksPerFrame + ticksPerTransition + Byte
  /\ elapsed \in 0 .. Byte - 1
  /\ calls \in 0 .. MaxCalls

\* After the first setFrames().
Init ==
  /\ frameCount \in FrameCounts /\ frameState = "FIXED"
  /\ currentFrame = 0 /\ nextFrameNumber = None
  /\ frameTransitionDirection = 1 /\ lastTransitionDirection = 1
  /\ manuelControll = FALSE /\ autoTransition = TRUE
  /\ ticks = 0 /\ elapsed \in 0 .. Byte - 1 /\ drawn = FALSE
  /\ chosen = 1 /\ calls = 0

\* A call of the sketch.
Call == calls < MaxCalls /\ calls' = calls + 1

\* lastUpdate = 0
Redraw == elapsed' \in 0 .. Byte - 1 /\ drawn' = FALSE

setAutoTransition(on) ==
  /\ Call /\ autoTransition' = on
  /\ UNCHANGED <<frameCount, frameState, currentFrame, nextFrameNumber, direction, ticks, time, chosen>>

\* setAutoTransitionForwards() and setAutoTransitionBackwards()
setAutoTransitionDirection(d) ==
  /\ Call /\ chosen' = d
  /\ frameTransitionDirection' = d /\ lastTransitionDirection' = d
  /\ UNCHANGED <<frameCount, frameState, currentFrame, nextFrameNumber, manuelControll,
                 autoTransition, ticks, time>>

\* The frame that transitionToFrame() asked for is kept: it may not exist.
setFrames(n) ==
  /\ Call /\ (Patient => nextFrameNumber = None)
  /\ frameCount' = n
  /\ Redraw /\ ticks' = 0 /\ frameState' = "FIXED" /\ currentFrame' = 0
  /\ UNCHANGED <<nextFrameNumber, direction, autoTransition, chosen>>

\* Mutant: the direction is kept when it has been set.
TransitionKeepsNew(d) ==
  /\ manuelControll' = TRUE /\ frameState' = "IN_TRANSITION" /\ ticks' = 0
  /\ lastTransitionDirection' = d
  /\ frameTransitionDirection' = d

Transition(d) ==
  /\ manuelControll' = TRUE /\ frameState' = "IN_TRANSITION" /\ ticks' = 0
  /\ lastTransitionDirection' = frameTransitionDirection
  /\ frameTransitionDirection' = d

\* nextFrame() is step 1, previousFrame() is step -1.
StepFrame(d) ==
  /\ Call /\ (Patient => ~manuelControll)
  /\ frameState # "IN_TRANSITION"
  /\ Transition(d)
  /\ UNCHANGED <<frameCount, currentFrame, nextFrameNumber, autoTransition, time, chosen>>

transitionToFrame(frame) ==
  /\ Call /\ (Patient => ~manuelControll)
  /\ frame < frameCount /\ frame = currentFrame
  /\ nextFrameNumber' = frame
  /\ Transition(IF frame < currentFrame THEN -1 ELSE 1)
  /\ UNCHANGED <<frameCount, currentFrame, autoTransition, time, chosen>>

switchToFrame(frame) ==
  /\ Call
  /\ \/ /\ frame < frameCount /\ frame = currentFrame
        /\ Redraw /\ ticks' = 0 /\ frameState' = "FIXED"
     \/ /\ frame >= frameCount \/ frame # currentFrame
        /\ UNCHANGED <<time, ticks, frameState>>
  /\ UNCHANGED <<frameCount, currentFrame, nextFrameNumber, direction, autoTransition, chosen>>

getNextFrameNumber ==
  IF nextFrameNumber # None THEN nextFrameNumber
  ELSE (currentFrame + frameCount + frameTransitionDirection) % frameCount

\* Mutant: the budget has no sign.
timeBudgetUnsigned == (updateInterval - elapsed) % Byte

\* An int8_t.
timeBudget ==
  LET b == (updateInterval - elapsed) % Byte IN IF b < Byte \div 2 THEN b ELSE b - Byte

\* Frames that are late are counted.
TicksNow ==
  ticks + 1 + (IF autoTransition /\ drawn THEN (0 - timeBudget) \div updateInterval ELSE 0)

TickInTransition ==
  /\ frameState = "IN_TRANSITION"
  /\ IF TicksNow >= ticksPerTransition
     THEN /\ frameState' = "FIXED" /\ ticks' = 0
          /\ currentFrame' = getNextFrameNumber /\ nextFrameNumber' = None
     ELSE ticks' = TicksNow /\ UNCHANGED <<frameState, currentFrame, nextFrameNumber>>
  /\ UNCHANGED direction

TickFixed ==
  /\ frameState = "FIXED"
  /\ frameTransitionDirection' = IF manuelControll THEN lastTransitionDirection
                                 ELSE frameTransitionDirection
  /\ manuelControll' = FALSE
  /\ ticks' = IF TicksNow >= ticksPerFrame THEN 0 ELSE TicksNow
  /\ frameState' = IF TicksNow >= ticksPerFrame /\ autoTransition THEN "IN_TRANSITION" ELSE "FIXED"
  /\ UNCHANGED <<currentFrame, nextFrameNumber, lastTransitionDirection>>

\* update(), and the tick() it calls if it is time.
update ==
  /\ \/ /\ timeBudget <= 0
        /\ elapsed' = 0 /\ drawn' = TRUE
        /\ TickInTransition \/ TickFixed
     \/ /\ timeBudget > 0
        /\ UNCHANGED <<time, frameState, currentFrame, nextFrameNumber, direction, ticks>>
  /\ UNCHANGED <<frameCount, autoTransition, chosen, calls>>

\* millis()
Time ==
  /\ elapsed # Late /\ elapsed' = (elapsed + 1) % Byte
  /\ UNCHANGED <<frameCount, frameState, currentFrame, nextFrameNumber, direction,
                 autoTransition, ticks, drawn, ghosts>>

Next ==
  \/ \E on \in BOOLEAN : setAutoTransition(on)
  \/ \E d \in {1, -1} : setAutoTransitionDirection(d) \/ StepFrame(d)
  \/ \E n \in FrameCounts : setFrames(n)
  \/ \E frame \in AnyFrame : transitionToFrame(frame) \/ switchToFrame(frame)
  \/ update \/ Time

\* The sketch goes on calling update() (README.md), and time passes.
Spec == Init /\ [][Next]_vars /\ WF_vars(update) /\ WF_vars(Time)

-----------------------------------------------------------------------------
(* Properties *)

\* tick: a frame asked for by hand leaves the direction that the sketch set
\* for the automatic transitions as it was, if the sketch asks for no other
\* before the one it has asked for is shown and one tick older.
DirectionKept == ~manuelControll => frameTransitionDirection = chosen

\* update: with automatic transitions every frame is shown, again and again,
\* however late update() is called within Late, and though late ticks are
\* skipped.
AllFramesShown ==
  <>[]autoTransition => \A f \in AnyFrame : []<>(f < frameCount => currentFrame = f)
=============================================================================
