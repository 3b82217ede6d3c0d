------------------------------- MODULE IRrecv -------------------------------
(***************************************************************************)
(* The infrared receiver of IRremoteESP8266.cpp.  The interrupt of the pin *)
(* records the time between two edges, a timer declares the message        *)
(* complete when there is no edge for a while, and the sketch decodes what *)
(* was recorded and lets the next message in.  The interrupt comes between *)
(* any two stores of the sketch; the function of the timer runs only when  *)
(* the sketch lets the system work.                                        *)
(***************************************************************************)
EXTENDS Naturals, Sequences

CONSTANTS
  RAWBUF,
  Yields    \* the sketch lets the system work before a silence has ended

VARIABLES
  rcvstate,
  rawbuf,   \* the rawlen first entries: the mark of the first edge ("start"),
            \* a time within a message ("short"), the time between two ("long")
  armed,    \* the timer runs
  enabled,  \* the interrupt of the pin
  silent,   \* no edge for longer than the timer waits
  pc,       \* the sketch: between calls, or between the stores of resume()
  hit,      \* an edge came between them
  seen      \* edges since resume(), counted to RAWBUF

line == <<enabled, silent>>
vars == <<rcvstate, rawbuf, armed, line, pc, hit, seen>>

ConstantsOK == RAWBUF \in Nat \ {0} /\ Yields \in BOOLEAN

\* What is true of the buffer: one entry more than it has room for, after an
\* edge in resume() that finds the state idle and the buffer still full.
TypeOK ==
  /\ rcvstate \in {"IDLE", "MARK", "STOP"}
  /\ rawbuf \in Seq({"start", "short", "long"})
  /\ Len(rawbuf) <= IF hit THEN RAWBUF + 1 ELSE RAWBUF
  /\ {armed, enabled, silent, hit} \subseteq BOOLEAN
  /\ pc \in {"sketch", "resume"}
  /\ seen \in 0 .. RAWBUF

\* After enableIRIn(): a message may be under way.
Init ==
  /\ rcvstate = "IDLE" /\ rawbuf = <<>> /\ armed = FALSE
  /\ enabled = TRUE /\ silent \in BOOLEAN
  /\ pc = "sketch" /\ hit = FALSE /\ seen = 0

\* Mutant: a complete message does not keep edges out.
RecordAlways ==
  /\ rcvstate' = "MARK" /\ armed' = TRUE
  /\ rawbuf' = IF rcvstate = "IDLE" THEN Append(rawbuf, "start")
               ELSE IF Len(rawbuf) < RAWBUF
                    THEN Append(rawbuf, IF silent THEN "long" ELSE "short")
                    ELSE rawbuf

\* Mutant: the end of the buffer is looked for one entry too late.
RecordPastEnd ==
  \/ /\ rcvstate = "STOP"
     /\ UNCHANGED <<rcvstate, rawbuf, armed>>
  \/ /\ rcvstate # "STOP"
     /\ rcvstate' = "MARK" /\ armed' = TRUE
     /\ rawbuf' = IF rcvstate = "IDLE" THEN Append(rawbuf, "start")
                  ELSE IF Len(rawbuf) <= RAWBUF
                       THEN Append(rawbuf, IF silent THEN "long" ELSE "short") ELSE rawbuf

\* gpio_intr(): the IDLE branch does not look at the end of the buffer.
Record ==
  \/ /\ rcvstate = "STOP"
     /\ UNCHANGED <<rcvstate, rawbuf, armed>>
  \/ /\ rcvstate = "IDLE"
     /\ rcvstate' = "MARK" /\ armed' = TRUE
     /\ rawbuf' = Append(rawbuf, "start")
  \/ /\ rcvstate = "MARK"
     /\ armed' = TRUE
     /\ rawbuf' = IF Len(rawbuf) < RAWBUF
                  THEN Append(rawbuf, IF silent THEN "long" ELSE "short") ELSE rawbuf
     /\ UNCHANGED rcvstate

\* An edge of the pin.  With Yields, a silence does not end before the timer
\* that it made due has run.
Edge ==
  /\ Yields /\ silent => ~armed
  /\ silent' = FALSE
  /\ IF enabled
     THEN /\ Record
          /\ hit' = (hit \/ pc = "resume")
          /\ seen' = IF rcvstate # "STOP" /\ seen < RAWBUF THEN seen + 1 ELSE seen
     ELSE UNCHANGED <<rcvstate, rawbuf, armed, hit, seen>>
  /\ UNCHANGED <<enabled, pc>>

Silence ==
  /\ ~silent /\ silent' = TRUE
  /\ UNCHANGED <<rcvstate, rawbuf, armed, enabled, pc, hit, seen>>

\* The timer is due, and the sketch is between two calls.
read_timeout ==
  /\ armed /\ silent /\ pc = "sketch"
  /\ armed' = FALSE
  /\ rcvstate' = IF rawbuf # <<>> THEN "STOP" ELSE rcvstate
  /\ UNCHANGED <<rawbuf, line, pc, hit, seen>>

\* resume(), after decode() or by itself: the state first, then the length.
ResumeState ==
  /\ pc = "sketch" /\ pc' = "resume"
  /\ rcvstate' = "IDLE" /\ hit' = FALSE /\ seen' = 0
  /\ UNCHANGED <<rawbuf, armed, line>>

ResumeLength ==
  /\ pc = "resume" /\ pc' = "sketch"
  /\ rawbuf' = <<>>
  /\ UNCHANGED <<rcvstate, armed, line, hit, seen>>

disableIRIn ==
  /\ pc = "sketch" /\ enabled /\ enabled' = FALSE
  /\ UNCHANGED <<rcvstate, rawbuf, armed, silent, pc, hit, seen>>

\* Called again after disableIRIn(): no interrupt comes between its stores.
enableIRIn ==
  /\ pc = "sketch" /\ ~enabled /\ enabled' = TRUE
  /\ rcvstate' = "IDLE" /\ rawbuf' = <<>> /\ armed' = FALSE
  /\ hit' = FALSE /\ seen' = 0
  /\ UNCHANGED <<silent, pc>>

Next ==
  \/ Edge \/ Silence \/ read_timeout
  \/ ResumeState \/ ResumeLength \/ disableIRIn \/ enableIRIn

Spec == Init /\ [][Next]_vars

-----------------------------------------------------------------------------
(* Properties *)

\* decode: what is decoded is one message, without the time between two in
\* it, and every edge of it since the receiver was let go, unless an edge
\* came into the middle of resume() or the sketch kept the timer waiting.
CapturedWhole ==
  rcvstate = "STOP" /\ ~hit =>
    /\ Len(rawbuf) = seen
    /\ rawbuf[1] = "start"
    /\ \A i \in 2 .. Len(rawbuf) : rawbuf[i] = "short"

\* IRremoteESP8266.h:152 says of RAWBUF "Length of raw duration buffer": no
\* edge is recorded behind it.
WithinBuffer == Len(rawbuf) <= RAWBUF
=============================================================================
