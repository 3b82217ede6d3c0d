---------------------------- MODULE BlynkMsgLimit ----------------------------
(***************************************************************************)
(* The message limit of sendCmd in Blynk/src/Blynk/BlynkProtocol.h: a      *)
(* running average of the milliseconds between two commands, in integers,  *)
(* and a client that hangs up when it gets too small.  The average is      *)
(* BlynkAverageSample<32> of utility/BlynkUtility.h.                       *)
(***************************************************************************)
EXTENDS Integers

CONSTANTS
  Limit,  \* BLYNK_MSG_LIMIT, commands per second
  Gaps    \* the times the sketch leaves between two commands

ASSUME LimitAssumption == Limit \in Nat \ {0}
ASSUME GapsAssumption  == Gaps \subseteq Nat

VARIABLES deltaCmd, connected

vars == <<deltaCmd, connected>>

Init == deltaCmd = 0 /\ connected = FALSE

\* Mutant: the window is applied twice to the sample.
AverageTwice(avg, input) ==
  avg - avg \div 32 + IF input \div 64 > 0 THEN input \div 64 ELSE -1

\* BlynkAverageSample<32>(avg, input)
Average(avg, input) ==
  avg - avg \div 32 + IF input \div 32 > 0 THEN input \div 32 ELSE -1

Threshold == 1000 \div Limit

\* The login starts the average afresh and is the first command of it.
Login ==
  /\ ~connected
  /\ \E x \in Gaps :
       /\ deltaCmd' = Average(1000, x)
       /\ connected' = (deltaCmd' >= Threshold)

\* A command x milliseconds after the last one, and the "flood-error".
Send ==
  /\ connected
  /\ \E x \in Gaps :
       /\ deltaCmd' = Average(deltaCmd, x)
       /\ connected' = (deltaCmd' >= Threshold)

Next == Login \/ Send

Spec == Init /\ [][Next]_vars

-----------------------------------------------------------------------------
(* Properties *)

\* While connected, the average is at the threshold or above.
AboveThreshold ==
  /\ deltaCmd \in Int /\ connected \in BOOLEAN
  /\ connected => deltaCmd \in Nat /\ deltaCmd >= Threshold

\* sendCmd, BLYNK_MSG_LIMIT: a sketch that keeps to the limit between any two
\* commands is never cut off, whatever the rounding of the average does.
NeverCut == [][ connected => connected' ]_vars
=============================================================================
