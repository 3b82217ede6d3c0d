------------------------- MODULE SoftwareSerialESP -------------------------
(***************************************************************************)
(* The software serial port of SoftwareSerialESP/SoftwareSerialESP.cpp: a  *)
(* ring buffer filled by the GPIO interrupt, one byte per interrupt, and   *)
(* emptied by the sketch.  The processor has one core: the handler runs to *)
(* its end between two instructions of the sketch, so the handler is one   *)
(* action and the calls of the sketch are cut at each access to the shared *)
(* positions.  While write() holds interrupts off, a start bit only leaves *)
(* the edge pending, and the handler samples the line too late.            *)
(***************************************************************************)
EXTENDS Naturals, Sequences, SequencesExt

CONSTANTS Byte,
          BuffSize,  \* m_buffSize
          KeepsUp    \* the sketch never lets BuffSize bytes pile up

ConstantsOK == BuffSize \in Nat \ {0} /\ KeepsUp \in BOOLEAN

VARIABLES
  m_buffer, m_inPos, m_outPos,
  m_rxValid,
  pc,      \* where the sketch is inside a call
  ch,      \* the local of read()
  outWas,  \* m_outPos before the flush() under way
  edge,    \* a falling edge is pending while interrupts are off
  in, out  \* the last byte the handler received, the last one read() returned

positions == <<m_buffer, m_inPos, m_outPos>>
call      == <<pc, ch, outWas>>
vars      == <<positions, m_rxValid, call, edge, in, out>>

Slot == 0 .. BuffSize - 1

TypeOK ==
  /\ m_buffer \in [Slot -> Byte] /\ m_inPos \in Slot /\ m_outPos \in Slot
  /\ m_rxValid \in BOOLEAN
  /\ pc \in {"idle", "checked", "loaded", "zeroIn", "zeroOut", "writing"}
  /\ ch \in Byte /\ outWas \in Slot /\ edge \in BOOLEAN

\* malloc does not clear the buffer; it holds the same byte everywhere here.
Init ==
  /\ \E b \in Byte : m_buffer = [s \in Slot |-> b] /\ ch = b
  /\ m_inPos = 0 /\ m_outPos = 0
  /\ m_rxValid = TRUE
  /\ pc = "idle" /\ outWas = 0 /\ edge = FALSE
  /\ in = <<>> /\ out = <<>>

Inc(pos) == (pos + 1) % BuffSize

\* The position the unread bytes start at.  flush() stores two positions; it
\* takes effect with the store to m_inPos, whichever comes first.
First == IF pc = "zeroIn" THEN outWas ELSE IF pc = "zeroOut" THEN 0 ELSE m_outPos

Unread ==
  [i \in 1 .. (m_inPos + BuffSize - First) % BuffSize |->
     m_buffer[(First + i - 1) % BuffSize]]

\* Mutant: the intended overflow check, one slot too early.
StoresTooFew(next) == Inc(next) # m_outPos

\* The test of rxRead before it stores: next is compared with m_inPos.
Stores(next) == next # m_inPos

\* rxRead() has assembled a byte.
rxRead(b) ==
  /\ IF Stores(Inc(m_inPos))
     THEN /\ m_buffer' = [m_buffer EXCEPT ![m_inPos] = b]
          /\ m_inPos' = Inc(m_inPos)
     ELSE UNCHANGED <<m_buffer, m_inPos>>
  /\ in' = <<b>>

Room == KeepsUp => Len(Unread) < BuffSize - 1

\* handle_interrupt on a start bit.
Receive(b) ==
  /\ pc # "writing" /\ Room
  /\ rxRead(b)
  /\ UNCHANGED <<m_outPos, m_rxValid, call, edge, out>>

\* read(): the test, the load of the byte, the store of the new position.
ReadCheck ==
  /\ pc = "idle" /\ m_rxValid /\ m_inPos # m_outPos
  /\ pc' = "checked"
  /\ UNCHANGED <<positions, m_rxValid, ch, outWas, edge, in, out>>

ReadLoad ==
  /\ pc = "checked"
  /\ ch' = m_buffer[m_outPos] /\ pc' = "loaded"
  /\ UNCHANGED <<positions, m_rxValid, outWas, edge, in, out>>

ReadStore ==
  /\ pc = "loaded"
  /\ m_outPos' = Inc(m_outPos) /\ out' = <<ch>> /\ pc' = "idle"
  /\ UNCHANGED <<m_buffer, m_inPos, m_rxValid, ch, outWas, edge, in>>

\* flush(): the compiler may emit the two stores in either order.
FlushFirst ==
  /\ pc = "idle"
  /\ \/ /\ m_outPos' = 0 /\ pc' = "zeroIn" /\ outWas' = m_outPos
        /\ UNCHANGED m_inPos
     \/ /\ m_inPos' = 0 /\ pc' = "zeroOut"
        /\ UNCHANGED <<m_outPos, outWas>>
  /\ UNCHANGED <<m_buffer, m_rxValid, ch, edge, in, out>>

FlushSecond ==
  /\ \/ pc = "zeroIn" /\ m_inPos' = 0 /\ UNCHANGED m_outPos
     \/ pc = "zeroOut" /\ m_outPos' = 0 /\ UNCHANGED m_inPos
  /\ pc' = "idle"
  /\ UNCHANGED <<m_buffer, m_rxValid, ch, outWas, edge, in, out>>

\* write(): cli(), the bits, sei().
WriteBegin ==
  /\ pc = "idle"
  /\ pc' = "writing"
  /\ UNCHANGED <<positions, m_rxValid, ch, outWas, edge, in, out>>

\* A byte comes in while interrupts are off.
LateEdge ==
  /\ pc = "writing" /\ ~edge /\ Room
  /\ edge' = TRUE
  /\ UNCHANGED <<positions, m_rxValid, call, in, out>>

\* The pending interrupt fires at sei(): the line is high and it is ignored,
\* or the handler assembles whatever the line shows from there on.
WriteEnd ==
  /\ pc = "writing"
  /\ \/ UNCHANGED <<m_buffer, m_inPos, in>>
     \/ edge /\ \E b \in Byte : rxRead(b)
  /\ pc' = "idle" /\ edge' = FALSE
  /\ UNCHANGED <<m_outPos, m_rxValid, ch, outWas, out>>

\* begin() with a speed out of range: the port stops reading for good, the
\* interrupt goes on.
BeginInvalid ==
  /\ pc = "idle" /\ m_rxValid
  /\ m_rxValid' = FALSE
  /\ UNCHANGED <<positions, call, edge, in, out>>

Sketch ==
  \/ ReadCheck \/ ReadLoad \/ ReadStore
  \/ FlushFirst \/ FlushSecond
  \/ WriteBegin \/ WriteEnd \/ BeginInvalid

Next == Sketch \/ LateEdge \/ \E b \in Byte : Receive(b)

Spec == Init /\ [][Next]_vars

-----------------------------------------------------------------------------
(* Properties *)

Queue == INSTANCE Fifo WITH Value <- Byte, Capacity <- BuffSize - 1,
                            MaxChunk <- 1, queue <- Unread

\* With a sketch that keeps up, the port is a queue: read() returns the
\* bytes of the line, all of them and in order, however the interrupt falls
\* into read() and flush(), in either order of flush()'s stores.
ImplementsFifo == Queue!Spec

\* rxRead: "Store the received value in the buffer unless we have an overflow": a
\* byte that arrives never costs the sketch bytes that were stored before.
OverflowKeepsStored ==
  [][ pc = "idle" /\ (\E b \in Byte : Receive(b)) => IsPrefix(Unread, Unread') ]_vars
=============================================================================
