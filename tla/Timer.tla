------------------------------- MODULE Timer -------------------------------
(***************************************************************************)
(* The timer of Timer.cpp: the sketch calls Update() again and again, and  *)
(* the function it was given runs when the interval has passed since the   *)
(* last time, not counting the time between Pause() and Resume().  The     *)
(* function runs after the timer's state is settled, so what it does with  *)
(* the timer is a further call of the sketch, and the sketch may make any  *)
(* call at any time.                                                       *)
(***************************************************************************)
EXTENDS Integers

CONSTANTS
  Modulus,   \* of millis(), 2^32 in the code
  Last,      \* bound: the last value of millis() that is looked at
  Interval   \* the intervals the sketch asks for

VARIABLES
  now,       \* millis()
  LastTime, DiffTime, msInterval, blEnabled, blSingleShot,
  fired,     \* the last call was Update() and ran the function
  ran,       \* the time that counts, since the start or the last run
  paused,    \* Pause() has been called, and nothing that enables the timer
  pause,     \* for so long
  kept,      \* ran at the last Pause()
  restarted  \* millis() has come to its end and begun again

config  == <<msInterval, blSingleShot>>
counted == <<ran, paused, pause, kept>>
vars    == <<now, LastTime, DiffTime, config, blEnabled, fired, counted, restarted>>

ConstantsOK == Modulus \in Nat \ {0} /\ Last \in Nat /\ Interval \subseteq Nat

Time == 0 .. Modulus - 1

TypeOK ==
  /\ {now, LastTime, DiffTime} \subseteq Time /\ {ran, pause, kept} \subseteq Nat
  /\ msInterval \in Interval
  /\ {blEnabled, blSingleShot, fired, paused, restarted} \subseteq BOOLEAN

\* Create(), at boot.  DiffTime is that of a global object.
Init ==
  /\ now = 0 /\ LastTime = 0 /\ DiffTime = 0
  /\ msInterval \in Interval /\ blSingleShot \in BOOLEAN
  /\ blEnabled = FALSE /\ fired = FALSE
  /\ restarted = FALSE
  /\ ran = 0 /\ paused = FALSE /\ pause = 0 /\ kept = 0

\* What counts from here on, when there is no pause.
Counts(time) == ran' = time /\ paused' = FALSE /\ pause' = 0

Start ==
  /\ LastTime' = now /\ blEnabled' = TRUE
  /\ Counts(0) /\ fired' = FALSE
  /\ UNCHANGED <<now, DiffTime, config, kept, restarted>>

\* Of a timer that is paused already it lets the pause so far count.
Pause ==
  /\ DiffTime' = (now - LastTime) % Modulus
  /\ blEnabled' = FALSE
  /\ ran' = ran + pause /\ kept' = ran' /\ paused' = TRUE /\ pause' = 0
  /\ fired' = FALSE
  /\ UNCHANGED <<now, LastTime, config, restarted>>

\* Mutant: the pause counts.
ResumeAgain ==
  /\ blEnabled' = TRUE
  /\ Counts(kept) /\ fired' = FALSE
  /\ UNCHANGED <<now, LastTime, DiffTime, config, kept, restarted>>

\* Of a timer that is not paused it goes back to the last pause.
Resume ==
  /\ LastTime' = (now - DiffTime) % Modulus
  /\ blEnabled' = TRUE
  /\ Counts(kept) /\ fired' = FALSE
  /\ UNCHANGED <<now, DiffTime, config, kept, restarted>>

\* Stop() is setEnabled(false).  A pause that setEnabled(true) ends counts.
setEnabled(Enabled) ==
  /\ blEnabled' = Enabled /\ fired' = FALSE
  /\ IF Enabled THEN Counts(ran + pause) ELSE UNCHANGED <<ran, paused, pause>>
  /\ UNCHANGED <<now, LastTime, DiffTime, config, kept, restarted>>

setInterval(ms) ==
  /\ msInterval' = ms /\ fired' = FALSE
  /\ UNCHANGED <<now, LastTime, DiffTime, blSingleShot, blEnabled, counted, restarted>>

setSingleShot(isSingle) ==
  /\ blSingleShot' = isSingle /\ fired' = FALSE
  /\ UNCHANGED <<now, LastTime, DiffTime, msInterval, blEnabled, counted, restarted>>

\* "millis restarted"
TakenForRestarted == LastTime > (now * 2) % Modulus

\* Update() and the Tick() it calls; of a timer that is off it does nothing.
Update ==
  /\ blEnabled
  /\ LET last == IF TakenForRestarted THEN 0 ELSE LastTime
         due  == (now - last) % Modulus >= msInterval
     IN /\ fired' = due
        /\ LastTime' = IF due THEN now ELSE last
        /\ ran' = IF due THEN 0 ELSE ran
        /\ blEnabled' = ~(due /\ blSingleShot)
  /\ UNCHANGED <<now, DiffTime, config, paused, pause, kept, restarted>>

\* The clock.
Tick ==
  /\ now # Last
  /\ now' = (now + 1) % Modulus
  /\ restarted' = (restarted \/ now' = 0)
  /\ IF paused THEN pause' = pause + 1 /\ UNCHANGED ran
               ELSE ran' = ran + 1 /\ UNCHANGED pause
  /\ fired' = FALSE
  /\ UNCHANGED <<LastTime, DiffTime, config, blEnabled, paused, kept>>

Next ==
  \/ Start \/ Pause \/ Resume \/ Update \/ Tick
  \/ \E b \in BOOLEAN : setEnabled(b) \/ setSingleShot(b)
  \/ \E ms \in Interval : setInterval(ms)

Spec == Init /\ [][Next]_vars

-----------------------------------------------------------------------------
(* Properties *)

\* Update: at a call of an enabled timer the function runs exactly if the
\* interval has passed since the start or the last run, whatever calls came in
\* between (while millis() is in the lower half of its range: Last).  A pause
\* that Resume() ends does not count, a pause that another call ends does.
OnTime == [][Update => (fired' <=> ran >= msInterval)]_vars

\* Timer.cpp:87 says of the condition "millis restarted".
RestartIsReal == blEnabled /\ TakenForRestarted => restarted
=============================================================================
