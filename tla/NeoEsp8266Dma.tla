--------------------------- MODULE NeoEsp8266Dma ---------------------------
(***************************************************************************)
(* The DMA output of NeoPixelBus on the ESP8266                            *)
(* (internal/NeoEsp8266DmaMethod.h, with Show() of NeoPixelBus.h).  The    *)
(* DMA engine walks a list of blocks on its own: the data blocks, then two *)
(* blocks of zeroes.  The sketch fills the buffer the data blocks point    *)
(* to; the interrupt at the end of the first block of zeroes decides       *)
(* whether the second one leads to the data or back to the first.          *)
(* One value stands for the pixels of a data block.                        *)
(***************************************************************************)
EXTENDS Naturals

CONSTANTS
  Colour,
  Zero,    \* the buffer before it is first filled: no pulses
  Blocks,  \* number of data blocks
  Prompt   \* the handler runs before the engine leaves the second block of zeroes

ConstantsOK == Zero \notin Colour /\ Blocks \in Nat \ {0} /\ Prompt \in BOOLEAN

VARIABLES
  _pixels, _i2sBuffer, dirty, _dmaState,
  pc, fill,     \* Show(): where it is, and the next block FillBuffers copies
  at, lastLink, \* the block the engine sends; where the last one leads
  irq,          \* the end-of-block interrupt is pending
  wire, leds    \* data sent since the last pause; what the LEDs show

sketch == <<_pixels, dirty, pc, fill>>
engine == <<at, wire, leds>>
vars   == <<sketch, _i2sBuffer, _dmaState, engine, lastLink, irq>>

Data    == 1 .. Blocks  \* the descriptors, in the order of the array
First   == Blocks + 1
Last    == Blocks + 2
Picture == [Data -> Colour \cup {Zero}]
Dark    == [b \in Data |-> Zero]

TypeOK ==
  /\ {_pixels, _i2sBuffer, wire, leds} \subseteq Picture
  /\ dirty \in BOOLEAN /\ irq \in BOOLEAN
  /\ _dmaState \in {"Idle", "Pending", "Sending"}
  /\ pc \in {"sketch", "wait", "fill", "done"} /\ fill \in Data
  /\ at \in 1 .. Last /\ lastLink \in {1, First}

\* Initialize(), called by Begin() of NeoPixelBus.
Init ==
  /\ _pixels = Dark /\ _i2sBuffer = Dark /\ dirty = TRUE
  /\ _dmaState = "Sending"
  /\ pc = "sketch" /\ fill = 1
  /\ at = 1 /\ lastLink = First /\ irq = FALSE
  /\ wire = Dark /\ leds = Dark

SetPixelColor(b, c) ==
  /\ pc = "sketch"
  /\ _pixels' = [_pixels EXCEPT ![b] = c] /\ dirty' = TRUE
  /\ UNCHANGED <<pc, fill, _i2sBuffer, _dmaState, engine, lastLink, irq>>

Show ==
  /\ pc = "sketch" /\ dirty
  /\ pc' = "wait"
  /\ UNCHANGED <<_pixels, dirty, fill, _i2sBuffer, _dmaState, engine, lastLink, irq>>

\* Mutant: Update does not wait for the end of the transmission.
UpdateReadyAnyway ==
  /\ pc = "wait" /\ _dmaState # "Pending"
  /\ pc' = "fill" /\ fill' = 1
  /\ UNCHANGED <<_pixels, dirty, _i2sBuffer, _dmaState, engine, lastLink, irq>>

\* The loop in Update ends.
UpdateReady ==
  /\ pc = "wait" /\ _dmaState = "Idle"
  /\ pc' = "fill" /\ fill' = 1
  /\ UNCHANGED <<_pixels, dirty, _i2sBuffer, _dmaState, engine, lastLink, irq>>

FillBuffers ==
  /\ pc = "fill"
  /\ _i2sBuffer' = [_i2sBuffer EXCEPT ![fill] = _pixels[fill]]
  /\ IF fill = Blocks THEN pc' = "done" /\ fill' = fill ELSE pc' = pc /\ fill' = fill + 1
  /\ UNCHANGED <<_pixels, dirty, _dmaState, engine, lastLink, irq>>

UpdateDone ==
  /\ pc = "done"
  /\ _dmaState' = "Pending" /\ dirty' = FALSE /\ pc' = "sketch"
  /\ UNCHANGED <<_pixels, fill, _i2sBuffer, engine, lastLink, irq>>

\* The handler.  The block it finds finished is always the first of zeroes.
i2s_slc_isr ==
  /\ irq /\ irq' = FALSE
  /\ CASE _dmaState = "Idle"    -> UNCHANGED <<_dmaState, lastLink>>
       [] _dmaState = "Pending" -> lastLink' = 1 /\ _dmaState' = "Sending"
       [] _dmaState = "Sending" -> lastLink' = First /\ _dmaState' = "Idle"
  /\ UNCHANGED <<sketch, _i2sBuffer, engine>>

SendData ==
  /\ at \in Data
  /\ wire' = [wire EXCEPT ![at] = _i2sBuffer[at]]
  /\ at' = at + 1
  /\ UNCHANGED <<sketch, _i2sBuffer, _dmaState, leds, lastLink, irq>>

\* The zeroes are the pause that makes the LEDs take over what they were sent.
SendFirst ==
  /\ at = First /\ at' = Last
  /\ irq' = TRUE
  /\ leds' = [b \in Data |-> IF wire[b] = Zero THEN leds[b] ELSE wire[b]]
  /\ wire' = Dark
  /\ UNCHANGED <<sketch, _i2sBuffer, _dmaState, lastLink>>

SendLast ==
  /\ at = Last /\ (Prompt => ~irq)
  /\ at' = lastLink
  /\ UNCHANGED <<sketch, _i2sBuffer, _dmaState, wire, leds, lastLink, irq>>

Update == UpdateReady \/ FillBuffers \/ UpdateDone
Engine == SendData \/ SendFirst \/ SendLast

Next ==
  \/ \E b \in Data, c \in Colour : SetPixelColor(b, c)
  \/ Show \/ Update \/ Engine \/ i2s_slc_isr

\* The engine never stops, the processor takes the interrupt, and Update,
\* once called, runs on.  Nothing makes the sketch call Show().
Spec ==
  /\ Init /\ [][Next]_vars
  /\ WF_vars(Engine) /\ WF_vars(i2s_slc_isr) /\ WF_vars(Update)

-----------------------------------------------------------------------------
(* Properties *)

Box == INSTANCE Mailbox WITH
         Nothing <- <<>>, wanted <- _pixels, shown <- leds,
         box <- IF _dmaState = "Idle" THEN <<>> ELSE _i2sBuffer

\* Update, FillBuffers, i2s_slc_isr: every picture handed to Show() comes out
\* whole, as it was when it was handed over, and then Update is free again.
ImplementsMailbox == Box!Spec
=============================================================================
