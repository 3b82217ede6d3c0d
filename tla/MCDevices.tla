------------------------------ MODULE MCDevices ------------------------------
(***************************************************************************)
(* The device libraries on one model, each with small constants.  A        *)
(* behaviour is a behaviour of the one that `part` names, while the        *)
(* variables of the others keep their initial values.                      *)
(***************************************************************************)
EXTENDS NeoPixelAnimator, Devices

VARIABLE part

serialVars == <<m_buffer, m_inPos, m_outPos, m_rxValid, spc, ch, outWas, edge, in, out>>
ledVars    == <<_pixels, _i2sBuffer, dirty, _dmaState, dpc, fill, at, lastLink, irq, wire, leds>>
irVars     == <<rcvstate, rawbuf, armed, enabled, silent, ipc, hit, seen>>
gasVars    == <<flag, sentResetCmd, currentStatus, startedCO2Monitoring, millis, gap, commanded,
                boots>>
frameVars  == <<frameCount, frameState, currentFrame, nextFrameNumber, frameTransitionDirection,
                lastTransitionDirection, manuelControll, autoTransition, ticks, elapsed, drawn,
                chosen, calls>>
wireVars   == <<bus, ROM_NO, LastDiscrepancy, LastDeviceFlag, id_bit_number, last_zero, selected,
                wresult, found, stayed, target, left, changes>>
clockVars  == <<now, LastTime, DiffTime, msInterval, blEnabled, blSingleShot, fired, ran, paused,
                pause, kept, restarted>>
nfcVars    == <<call, npc, mode, result, air, turn, owes, puts, link>>
avgVars    == <<av, window, since>>
radioVars  == <<fifo, TX_DS, MAX_RT, sending, listening, rpc, tx_ok, rresult, acked>>
mcVars     == <<part, vars, serialVars, ledVars, irVars, gasVars, frameVars, wireVars, clockVars,
                nfcVars, avgVars, radioVars>>

\* The parts that have several initial states begin in one of them when
\* another part runs.
Quiet ==
  /\ part # "serial" => m_buffer = [s \in Serial!Slot |-> "x"]
  /\ part # "infrared" => silent
  /\ part # "frames" => frameCount = 2 /\ elapsed = 0
  /\ part # "wire" => bus = {}
  /\ part # "clock" => msInterval = 1 /\ ~blSingleShot

MCInit ==
  /\ part \in {"animator", "serial", "leds", "infrared", "gas", "frames", "wire", "clock", "nfc",
              "average", "radio"}
  /\ Init /\ Serial!Init /\ Leds!Init /\ Infrared!Init /\ Gas!Init /\ Frames!Init
  /\ Wire!Init /\ Clock!Init /\ Nfc!Init /\ Average!Init /\ Radio!Init
  /\ Quiet

Others(p) ==
  /\ IF p = "animator" THEN TRUE ELSE UNCHANGED vars
  /\ IF p = "serial"   THEN TRUE ELSE UNCHANGED serialVars
  /\ IF p = "leds"     THEN TRUE ELSE UNCHANGED ledVars
  /\ IF p = "infrared" THEN TRUE ELSE UNCHANGED irVars
  /\ IF p = "gas"      THEN TRUE ELSE UNCHANGED gasVars
  /\ IF p = "frames"   THEN TRUE ELSE UNCHANGED frameVars
  /\ IF p = "wire"     THEN TRUE ELSE UNCHANGED wireVars
  /\ IF p = "clock"    THEN TRUE ELSE UNCHANGED clockVars
  /\ IF p = "nfc"      THEN TRUE ELSE UNCHANGED nfcVars
  /\ IF p = "average"  THEN TRUE ELSE UNCHANGED avgVars
  /\ IF p = "radio"    THEN TRUE ELSE UNCHANGED radioVars

MCNext ==
  /\ \/ part = "animator" /\ Next
     \/ part = "serial"   /\ Serial!Next
     \/ part = "leds"     /\ Leds!Next
     \/ part = "infrared" /\ Infrared!Next
     \/ part = "gas"      /\ Gas!Next
     \/ part = "frames"   /\ Frames!Next
     \/ part = "wire"     /\ Wire!Next
     \/ part = "clock"    /\ Clock!Next
     \/ part = "nfc"      /\ Nfc!Next
     \/ part = "average"  /\ Average!Next
     \/ part = "radio"    /\ Radio!Next
  /\ part' = part /\ Others(part)

\* The fairness of each part, when it is the one that runs: an action of a part
\* that rests is not to be waited for.
MCSpec ==
  /\ MCInit /\ [][MCNext]_mcVars
  /\ WF_vars(part = "animator" /\ UpdateBegins)
  /\ WF_vars(part = "animator" /\ Update)
  /\ WF_vars(part = "animator" /\ Tick)
  /\ WF_ledVars(part = "leds" /\ Leds!Engine)
  /\ WF_ledVars(part = "leds" /\ Leds!i2s_slc_isr)
  /\ WF_ledVars(part = "leds" /\ Leds!Update)
  /\ WF_gasVars(part = "gas" /\ Gas!getCO2)
  /\ WF_gasVars(part = "gas" /\ Gas!Tick)
  /\ WF_frameVars(part = "frames" /\ Frames!update)
  /\ WF_frameVars(part = "frames" /\ Frames!Time)
  /\ WF_nfcVars(part = "nfc" /\ (Nfc!Read \/ Nfc!ReadFails))
  /\ WF_nfcVars(part = "nfc" /\ (Nfc!Write \/ Nfc!WriteFails))
  /\ WF_nfcVars(part = "nfc" /\ Nfc!PeerIdles)
  /\ SF_nfcVars(part = "nfc" /\ Nfc!PeerSends)

-----------------------------------------------------------------------------
(* Properties *)

\* The type invariants of the parts; that of the frames says that no frame is
\* drawn that does not exist, that of the receiver that no more than one entry
\* is recorded past the end of the buffer, by an edge inside resume().
Types ==
  /\ TypeOK /\ Serial!TypeOK /\ Leds!TypeOK /\ Infrared!TypeOK /\ Gas!TypeOK
  /\ Frames!TypeOK /\ Wire!TypeOK /\ Clock!TypeOK /\ Nfc!TypeOK
  /\ Average!TypeOK /\ Radio!TypeOK

\* NeoEsp8266DmaMethod: every picture comes out whole.  A driver that rests
\* owes no picture.
ShownWhole ==
  /\ WholePictures
  /\ part = "leds" => Leds!Box!Fairness

\* OLEDDisplayUi: every frame is shown, again and again.
AllFramesShown == part = "frames" => Frames!AllFramesShown
=============================================================================
