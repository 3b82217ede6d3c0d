---------------------------- MODULE DeviceProofs ----------------------------
(***************************************************************************)
(* Proofs about the device libraries, one after the other: for each the    *)
(* inductive invariant, and from it what the library promises, for every   *)
(* value of its constants that the theorem allows.                         *)
(***************************************************************************)
EXTENDS MCDevices, NeoPixelAnimatorProofs, SequenceTheorems, FiniteSetTheorems,
        WellFoundedInduction, TLAPS

LEMMA SmallMod == ASSUME NEW m \in Nat, NEW n \in 0 .. m - 1 PROVE n % m = n
OBVIOUS

-----------------------------------------------------------------------------
(* Timer *)

\* millis() is in the lower half of its range.
LowerHalf == 2 * ClockLast < ClockModulus

\* What the timer keeps is what the ghosts say: LastTime lies as far back as
\* all that counts and the pause under way, DiffTime is what Resume() goes
\* back to.
TimesOK(n, l, d, r, u, k) ==
  /\ n \in 0 .. ClockLast /\ l \in 0 .. n /\ r \in 0 .. n /\ u \in 0 .. n /\ k \in 0 .. n
  /\ n - l = r + u /\ d = k

ClockInv ==
  /\ TimesOK(now, LastTime, DiffTime, ran, pause, kept)
  /\ paused => ~blEnabled
  /\ ~paused => pause = 0
  /\ msInterval \in ClockInterval
  /\ {blEnabled, blSingleShot, fired, paused, restarted} \subseteq BOOLEAN

LEMMA ClockFacts ==
  ASSUME LowerHalf
  PROVE  /\ ClockModulus \in Nat \ {0} /\ ClockLast \in Nat
         /\ \A n \in 0 .. ClockLast : 2 * n < ClockModulus
         /\ \A n \in 0 .. ClockLast : n % ClockModulus = n
  <1>1. ClockModulus \in Nat \ {0} /\ ClockLast \in Nat /\ 2 * ClockLast < ClockModulus
    BY PartAssumptions DEF LowerHalf, Clock!ConstantsOK
  <1>2. \A n \in 0 .. ClockLast : 2 * n < ClockModulus /\ n \in 0 .. ClockModulus - 1
    BY <1>1
  <1> QED BY <1>1, <1>2, SmallMod

LEMMA ClockUpdate ==
  ASSUME LowerHalf, ClockInv, Clock!Update
  PROVE  /\ ~Clock!TakenForRestarted
         /\ fired' <=> ran >= msInterval
         /\ LastTime' = IF fired' THEN now ELSE LastTime
         /\ ran' = IF fired' THEN 0 ELSE ran
         /\ ~paused
  <1>1. now \in 0 .. ClockLast /\ LastTime \in Nat /\ LastTime <= now /\ ~paused
        /\ now - LastTime = ran /\ ran \in 0 .. ClockLast
    BY ClockFacts DEF ClockInv, TimesOK, Clock!Update
  <1>2. (now * 2) % ClockModulus = now * 2
    <2>1. now * 2 \in 0 .. ClockModulus - 1
      BY <1>1, ClockFacts
    <2> QED BY <2>1, ClockFacts, SmallMod
  <1>3. ~Clock!TakenForRestarted
    BY <1>1, <1>2, ClockFacts DEF Clock!TakenForRestarted
  <1>4. (now - LastTime) % ClockModulus = ran
    BY <1>1, ClockFacts
  <1> QED BY <1>1, <1>3, <1>4 DEF Clock!Update

LEMMA ClockStep == ASSUME LowerHalf, ClockInv, [Clock!Next]_(Clock!vars) PROVE ClockInv'
  <1>1. /\ now \in 0 .. ClockLast /\ LastTime \in 0 .. now
        /\ ran \in 0 .. now /\ pause \in 0 .. now /\ kept \in 0 .. now
        /\ now - LastTime = ran + pause /\ DiffTime = kept
    BY DEF ClockInv, TimesOK
  <1>2. ran + pause \in 0 .. ClockLast /\ now - kept \in 0 .. ClockLast
    BY <1>1, ClockFacts
  <1>3. CASE Clock!Start
    <2>1. TimesOK(now, now, DiffTime, 0, 0, kept)
      BY <1>1, ClockFacts DEF TimesOK
    <2> QED BY <1>3, <2>1 DEF Clock!Start, Clock!Counts, Clock!config, ClockInv
  <1>4. CASE Clock!Pause
    <2>1. (now - LastTime) % ClockModulus = ran + pause
      BY <1>1, <1>2, ClockFacts
    <2>2. TimesOK(now, LastTime, ran + pause, ran + pause, 0, ran + pause)
      BY <1>1 DEF TimesOK
    <2>3. DiffTime' = ran + pause /\ ran' = ran + pause /\ kept' = ran + pause
      BY <1>4, <2>1 DEF Clock!Pause
    <2> QED BY <1>4, <2>2, <2>3 DEF Clock!Pause, Clock!config, ClockInv
  <1>5. CASE Clock!Resume
    <2>1. (now - DiffTime) % ClockModulus = now - kept
      BY <1>1, <1>2, ClockFacts
    <2>2. TimesOK(now, now - kept, DiffTime, kept, 0, kept)
      BY <1>1, ClockFacts DEF TimesOK
    <2>3. LastTime' = now - kept
      BY <1>5, <2>1 DEF Clock!Resume
    <2> QED BY <1>5, <2>2, <2>3 DEF Clock!Resume, Clock!Counts, Clock!config, ClockInv
  <1>6. ASSUME NEW b \in BOOLEAN, Clock!setEnabled(b) PROVE ClockInv'
    <2>1. /\ blEnabled' = b /\ fired' = FALSE
          /\ UNCHANGED <<now, LastTime, DiffTime, msInterval, blSingleShot, kept, restarted>>
      BY <1>6 DEF Clock!setEnabled, Clock!config
    <2>2. CASE b
      <3>1. ran' = ran + pause /\ paused' = FALSE /\ pause' = 0
        BY <1>6, <2>2 DEF Clock!setEnabled, Clock!Counts
      <3>2. TimesOK(now, LastTime, DiffTime, ran + pause, 0, kept)
        BY <1>1, <1>2 DEF TimesOK
      <3> QED BY <2>1, <3>1, <3>2 DEF ClockInv
    <2>3. CASE ~b
      <3>1. blEnabled' = FALSE /\ UNCHANGED <<ran, paused, pause>>
        BY <1>6, <2>1, <2>3 DEF Clock!setEnabled
      <3> QED BY <2>1, <3>1 DEF ClockInv
    <2> QED BY <2>2, <2>3
  <1>7. ASSUME NEW b \in BOOLEAN, Clock!setSingleShot(b) PROVE ClockInv'
    BY <1>7 DEF Clock!setSingleShot, Clock!counted, ClockInv
  <1>8. ASSUME NEW ms \in ClockInterval, Clock!setInterval(ms) PROVE ClockInv'
    BY <1>8 DEF Clock!setInterval, Clock!counted, ClockInv
  <1>9. CASE Clock!Update
    <2>1. fired' \in BOOLEAN /\ blEnabled' \in BOOLEAN
          /\ UNCHANGED <<now, DiffTime, msInterval, blSingleShot, paused, pause, kept, restarted>>
      BY <1>9 DEF Clock!Update, Clock!config
    <2>2. ~paused /\ pause = 0
      BY <1>9, ClockUpdate DEF ClockInv
    <2>3. \/ LastTime' = now /\ ran' = 0
          \/ LastTime' = LastTime /\ ran' = ran
      BY <1>9, ClockUpdate
    <2>4. TimesOK(now, now, DiffTime, 0, pause, kept)
      BY <1>1, <2>2, ClockFacts DEF TimesOK
    <2> QED BY <2>1, <2>2, <2>3, <2>4 DEF ClockInv
  <1>10. CASE Clock!Tick
    <2>1. now + 1 \in 0 .. ClockLast
      BY <1>1, <1>10, ClockFacts DEF Clock!Tick
    <2>2. now' = now + 1
      BY <1>10, <2>1, ClockFacts DEF Clock!Tick
    <2>3. /\ \/ paused /\ pause' = pause + 1 /\ ran' = ran
             \/ ~paused /\ ran' = ran + 1 /\ pause' = pause
          /\ fired' = FALSE /\ restarted' \in BOOLEAN
          /\ UNCHANGED <<LastTime, DiffTime, msInterval, blSingleShot, blEnabled, paused, kept>>
      BY <1>10 DEF Clock!Tick, Clock!config, ClockInv
    <2>4. /\ TimesOK(now + 1, LastTime, DiffTime, ran, pause + 1, kept)
          /\ TimesOK(now + 1, LastTime, DiffTime, ran + 1, pause, kept)
      BY <1>1, <2>1, ClockFacts DEF TimesOK
    <2> QED BY <2>2, <2>3, <2>4 DEF ClockInv
  <1>11. CASE UNCHANGED Clock!vars
    BY <1>11 DEF Clock!vars, Clock!config, Clock!counted, ClockInv
  <1> QED BY <1>3, <1>4, <1>5, <1>6, <1>7, <1>8, <1>9, <1>10, <1>11 DEF Clock!Next

LEMMA ClockInit == ASSUME LowerHalf PROVE Clock!Init => ClockInv
  <1>1. TimesOK(0, 0, 0, 0, 0, 0)
    BY ClockFacts DEF TimesOK
  <1> QED BY <1>1 DEF Clock!Init, ClockInv

LEMMA ClockInductive == ASSUME LowerHalf PROVE Clock!Spec => []ClockInv
  BY ClockInit, ClockStep, PTL DEF Clock!Spec

LEMMA ClockTyped == ASSUME LowerHalf PROVE ClockInv => Clock!TypeOK
  <1>1. \A n \in 0 .. ClockLast : n \in 0 .. ClockModulus - 1
    BY ClockFacts
  <1>2. ASSUME ClockInv
        PROVE  {now, LastTime, DiffTime} \subseteq 0 .. ClockLast
    BY <1>2, ClockFacts DEF ClockInv, TimesOK
  <1> QED BY <1>1, <1>2, ClockFacts DEF ClockInv, TimesOK, Clock!TypeOK, Clock!Time

\* Timer: the variables keep to their types.
THEOREM ClockTypes == ASSUME LowerHalf PROVE Clock!Spec => []Clock!TypeOK
  BY ClockTyped, ClockInductive, PTL

\* Update: at a call of an enabled timer the function runs exactly if the
\* interval has passed since the start or the last run, whatever calls came in
\* between and in whatever order, for all intervals and ranges of millis(),
\* while it is in the lower half.  Pauses that Resume() ends do not count.
THEOREM OnTimeTheorem == ASSUME LowerHalf PROVE Clock!Spec => OnTime
  <1>1. ClockInv /\ [Clock!Next]_(Clock!vars) =>
          [Clock!Update => (fired' <=> ran >= msInterval)]_(Clock!vars)
    BY ClockUpdate
  <1>2. Clock!Spec => [][Clock!Next]_(Clock!vars)
    BY PTL DEF Clock!Spec
  <1> QED BY <1>1, <1>2, ClockInductive, PTL DEF OnTime, Clock!OnTime

-----------------------------------------------------------------------------
(* RF24 *)

\* The radio is at work only while write() polls, the flags are set only from
\* the end of its work until write() reads them, and each write() leaves the
\* queue and the flags as it found them.
RadioInv ==
  /\ fifo \in {<<>>, <<"new">>}
  /\ {TX_DS, MAX_RT, sending, listening, tx_ok, rresult, acked} \subseteq BOOLEAN
  /\ rpc \in {"sketch", "poll", "what", "down", "flush"}
  /\ sending => rpc = "poll" /\ ~TX_DS /\ ~MAX_RT /\ fifo = <<"new">> /\ ~acked
  /\ rpc \in {"sketch", "down", "flush"} => ~TX_DS /\ ~MAX_RT
  /\ rpc = "sketch" => fifo = <<>> /\ (rresult <=> acked)
  /\ rpc \in {"poll", "what"} /\ ~sending => (TX_DS <=> acked)
  /\ rpc \in {"down", "flush"} => (tx_ok <=> acked)

LEMMA OnePayload ==
  /\ Append([i \in DOMAIN <<>> |-> "old"], "new") = <<"new">>
  /\ Head(<<"new">>) = "new" /\ Tail(<<"new">>) = <<>>
  <1>1. [i \in DOMAIN <<>> |-> "old"] = <<>>
    OBVIOUS
  <1> QED BY <1>1

LEMMA RadioStep ==
  ASSUME RadioLate = FALSE, RadioInv, [Radio!Next]_(Radio!vars) PROVE RadioInv'
  <1>1. CASE Radio!startWrite
    <2>1. fifo = <<>> /\ ~TX_DS /\ ~MAX_RT
      BY <1>1 DEF Radio!startWrite, RadioInv
    <2>2. fifo' = <<"new">>
      BY <1>1, <2>1, OnePayload DEF Radio!startWrite
    <2>3. sending' = TRUE /\ rpc' = "poll" /\ acked' = FALSE
          /\ UNCHANGED <<TX_DS, MAX_RT, listening, tx_ok, rresult>>
      BY <1>1, <2>1 DEF Radio!startWrite, Radio!flags, RadioInv
    <2> QED BY <2>1, <2>2, <2>3 DEF RadioInv
  <1>2. CASE Radio!PollSees
    BY <1>2 DEF Radio!PollSees, Radio!flags, RadioInv
  <1>3. CASE Radio!PollTimeout
    BY <1>3 DEF Radio!PollTimeout, Radio!flags, RadioInv
  <1>4. CASE Radio!whatHappened
    BY <1>4 DEF Radio!whatHappened, RadioInv
  <1>5. CASE Radio!powerDown
    BY <1>5 DEF Radio!powerDown, Radio!flags, RadioInv
  <1>6. CASE Radio!flush_tx
    BY <1>6 DEF Radio!flush_tx, Radio!flags, RadioInv
  <1>7. CASE Radio!startListening
    BY <1>7 DEF Radio!startListening, RadioInv
  <1>8. CASE Radio!stopListening
    BY <1>8 DEF Radio!stopListening, Radio!flags, RadioInv
  <1>9. CASE Radio!Acknowledged
    <2>1. fifo = <<"new">> /\ rpc = "poll"
      BY <1>9 DEF Radio!Acknowledged, RadioInv
    <2>2. fifo' = <<>> /\ acked' = TRUE
      BY <1>9, <2>1, OnePayload DEF Radio!Acknowledged
    <2>3. sending' = FALSE /\ TX_DS' = TRUE
          /\ UNCHANGED <<MAX_RT, listening, rpc, tx_ok, rresult>>
      BY <1>9 DEF Radio!Acknowledged
    <2> QED BY <2>1, <2>2, <2>3 DEF RadioInv
  <1>10. CASE Radio!GivesUp
    BY <1>10 DEF Radio!GivesUp, RadioInv
  <1>11. CASE Radio!Hangs
    BY <1>11 DEF Radio!Hangs, Radio!flags, RadioInv
  <1>12. CASE UNCHANGED Radio!vars
    BY <1>12 DEF Radio!vars, Radio!flags, RadioInv
  <1> QED BY <1>1, <1>2, <1>3, <1>4, <1>5, <1>6, <1>7, <1>8, <1>9, <1>10, <1>11, <1>12
          DEF Radio!Next, Radio!Write

LEMMA RadioInductive == ASSUME RadioLate = FALSE PROVE Radio!Spec => []RadioInv
  <1>1. Radio!Init => RadioInv
    BY DEF Radio!Init, RadioInv
  <1> QED BY <1>1, RadioStep, PTL DEF Radio!Spec

\* The types, whatever the radio does and when: what it is at work on is in
\* its queue.
QueueOK(f) == f \in Seq({"old", "new"}) /\ Len(f) <= 3

RadioQueue ==
  /\ QueueOK(fifo)
  /\ {TX_DS, MAX_RT, sending, listening, tx_ok, rresult, acked} \subseteq BOOLEAN
  /\ rpc \in {"sketch", "poll", "what", "down", "flush"}
  /\ sending => rpc \in {"poll", "what", "down"} /\ fifo # <<>>

LEMMA QueueFacts ==
  /\ QueueOK(<<>>)
  /\ \A f : QueueOK(f) /\ f # <<>> => QueueOK(Tail(f))
  /\ \A f : QueueOK(f) /\ Len(f) < 3 =>
       /\ QueueOK(Append([i \in DOMAIN f |-> "old"], "new"))
       /\ Append([i \in DOMAIN f |-> "old"], "new") # <<>>
  <1>1. QueueOK(<<>>)
    BY DEF QueueOK
  <1>2. ASSUME NEW f, QueueOK(f), f # <<>> PROVE QueueOK(Tail(f))
    BY <1>2 DEF QueueOK
  <1>3. ASSUME NEW f, QueueOK(f), Len(f) < 3
        PROVE  /\ QueueOK(Append([i \in DOMAIN f |-> "old"], "new"))
               /\ Append([i \in DOMAIN f |-> "old"], "new") # <<>>
    <2>1. [i \in DOMAIN f |-> "old"] \in Seq({"old", "new"})
          /\ Len([i \in DOMAIN f |-> "old"]) = Len(f)
      BY <1>3 DEF QueueOK
    <2>2. ASSUME NEW g \in Seq({"old", "new"}), Len(g) < 3
          PROVE  /\ Append(g, "new") \in Seq({"old", "new"})
                 /\ Len(Append(g, "new")) <= 3 /\ Append(g, "new") # <<>>
      <3>1. Append(g, "new") \in Seq({"old", "new"}) /\ Len(Append(g, "new")) = Len(g) + 1
        OBVIOUS
      <3>2. Len(g) \in Nat
        OBVIOUS
      <3>3. Len(<<>>) = 0
        OBVIOUS
      <3>4. Len(g) + 1 <= 3 /\ Len(g) + 1 # 0
        BY <2>2, <3>2
      <3>5. Append(g, "new") # <<>>
        BY <3>1, <3>3, <3>4
      <3> QED BY <3>1, <3>4, <3>5
    <2> QED BY <1>3, <2>1, <2>2 DEF QueueOK
  <1> QED BY <1>1, <1>2, <1>3

LEMMA RadioQueueStep == ASSUME RadioQueue, [Radio!Next]_(Radio!vars) PROVE RadioQueue'
  <1>1. CASE Radio!startWrite
    <2>1. QueueOK(fifo') /\ fifo' # <<>>
      BY <1>1, QueueFacts DEF Radio!startWrite, RadioQueue
    <2> QED BY <1>1, <2>1 DEF Radio!startWrite, Radio!flags, RadioQueue
  <1>2. CASE Radio!PollSees \/ Radio!PollTimeout
    BY <1>2 DEF Radio!PollSees, Radio!PollTimeout, Radio!flags, RadioQueue
  <1>3. CASE Radio!whatHappened
    BY <1>3 DEF Radio!whatHappened, RadioQueue
  <1>7. CASE Radio!powerDown
    BY <1>7 DEF Radio!powerDown, Radio!flags, RadioQueue
  <1>8. CASE Radio!flush_tx
    BY <1>8, QueueFacts DEF Radio!flush_tx, Radio!flags, RadioQueue
  <1>9. CASE Radio!startListening
    BY <1>9, QueueFacts DEF Radio!startListening, RadioQueue
  <1>10. CASE Radio!stopListening
    BY <1>10, QueueFacts DEF Radio!stopListening, Radio!flags, RadioQueue
  <1>4. CASE Radio!Acknowledged
    <2>1. QueueOK(fifo')
      BY <1>4, QueueFacts DEF Radio!Acknowledged, RadioQueue
    <2>2. acked' \in BOOLEAN
      BY <1>4 DEF Radio!Acknowledged, RadioQueue
    <2> QED BY <1>4, <2>1, <2>2 DEF Radio!Acknowledged, RadioQueue
  <1>5. CASE Radio!GivesUp \/ Radio!Hangs
    BY <1>5 DEF Radio!GivesUp, Radio!Hangs, Radio!flags, RadioQueue
  <1>6. CASE UNCHANGED Radio!vars
    BY <1>6 DEF Radio!vars, Radio!flags, RadioQueue
  <1> QED BY <1>1, <1>2, <1>3, <1>4, <1>5, <1>6, <1>7, <1>8, <1>9, <1>10 DEF Radio!Next, Radio!Write

\* RF24: the variables keep to their types, and the queue to its three places.
THEOREM RadioTypes == Radio!Spec => []Radio!TypeOK
  <1>1. Radio!Init => RadioQueue
    BY QueueFacts DEF Radio!Init, RadioQueue
  <1>2. RadioQueue => Radio!TypeOK
    BY DEF RadioQueue, QueueOK, Radio!TypeOK
  <1> QED BY <1>1, <1>2, RadioQueueStep, PTL DEF Radio!Spec

\* write: it tells whether its payload was delivered, whatever it and earlier
\* calls have met with, if the radio has done its work when write() gives up.
THEOREM TellsDeliveryTheorem == ASSUME RadioLate = FALSE PROVE Radio!Spec => []TellsDelivery
  <1>1. RadioInv => TellsDelivery
    BY DEF RadioInv, TellsDelivery, Radio!TellsDelivery
  <1> QED BY <1>1, RadioInductive, PTL

-----------------------------------------------------------------------------
(* IRrecv *)

Entry == {"start", "short", "long"}

Fits(s, n) == s \in Seq(Entry) /\ Len(s) <= n

\* What the buffer holds of a message of n edges.
Message(s, n) ==
  /\ s \in Seq(Entry) /\ Len(s) = n /\ n >= 1
  /\ s[1] = "start" /\ \A i \in 2 .. Len(s) : s[i] = "short"

LEMMA FitsFacts ==
  ASSUME NEW n \in Nat, NEW s, NEW e \in Entry, Fits(s, n)
  PROVE  /\ Fits(s, n + 1) /\ Fits(Append(s, e), n + 1)
         /\ Len(s) < n => Fits(Append(s, e), n)
  <1>1. s \in Seq(Entry) /\ Len(s) <= n
    BY DEF Fits
  <1>2. Len(s) \in Nat
    BY <1>1
  <1>3. Append(s, e) \in Seq(Entry) /\ Len(Append(s, e)) = Len(s) + 1
    BY <1>1
  <1>4. Len(s) <= n + 1 /\ Len(s) + 1 <= n + 1 /\ (Len(s) < n => Len(s) + 1 <= n)
    BY <1>1, <1>2
  <1> QED BY <1>1, <1>3, <1>4 DEF Fits

LEMMA FitsEmpty == ASSUME NEW n \in Nat PROVE Fits(<<>>, n)
BY DEF Fits

LEMMA MessageFacts ==
  /\ Message(Append(<<>>, "start"), 1)
  /\ \A s, n : Message(s, n) => Message(Append(s, "short"), n + 1)
  <1>1. Message(Append(<<>>, "start"), 1)
    <2>1. Append(<<>>, "start") \in Seq(Entry) /\ Len(Append(<<>>, "start")) = 1
          /\ Append(<<>>, "start")[1] = "start"
      BY DEF Entry
    <2>2. \A i \in 2 .. 1 : FALSE
      OBVIOUS
    <2> QED BY <2>1, <2>2 DEF Message
  <1>2. ASSUME NEW s, NEW n, Message(s, n) PROVE Message(Append(s, "short"), n + 1)
    <2>1. s \in Seq(Entry) /\ Len(s) = n /\ n >= 1 /\ s[1] = "start"
          /\ \A i \in 2 .. Len(s) : s[i] = "short"
      BY <1>2 DEF Message
    <2>2. n \in Nat
      BY <2>1
    <2>3. Append(s, "short") \in Seq(Entry) /\ Len(Append(s, "short")) = n + 1
      BY <2>1 DEF Entry
    <2>4. \A i \in 1 .. n : Append(s, "short")[i] = s[i]
      BY <2>1
    <2>5. Append(s, "short")[n + 1] = "short"
      BY <2>1
    <2>6. 1 \in 1 .. n /\ \A i \in 2 .. n + 1 : (i \in 2 .. n /\ i \in 1 .. n) \/ i = n + 1
      BY <2>1, <2>2
    <2>7. n + 1 >= 1
      BY <2>2
    <2> QED BY <2>1, <2>3, <2>4, <2>5, <2>6, <2>7 DEF Message
  <1> QED BY <1>1, <1>2

\* resume() does not clear the buffer before the state, so an edge between
\* the two finds it full; and it clears it in the end.
IrShape ==
  /\ rcvstate \in {"IDLE", "MARK", "STOP"} /\ ipc \in {"sketch", "resume"}
  /\ {armed, enabled, silent, hit} \subseteq BOOLEAN
  /\ seen \in 0 .. RAWBUF
  /\ Fits(rawbuf, IF ipc = "resume" /\ hit THEN RAWBUF + 1 ELSE RAWBUF)
  /\ rcvstate = "IDLE" => ~hit /\ seen = 0 /\ (ipc = "sketch" => rawbuf = <<>>)
  /\ ipc = "resume" /\ ~hit => rcvstate = "IDLE"

\* Unless an edge came into resume(), the buffer holds what has been seen, and
\* the timer runs until the message is complete.
IrWhole ==
  ~hit /\ rcvstate # "IDLE" =>
    Message(rawbuf, seen) /\ (rcvstate = "MARK" => armed)

LEMMA IrConstants == RAWBUF \in Nat /\ RAWBUF > 0 /\ RAWBUF + 1 \in Nat
BY PartAssumptions DEF Infrared!ConstantsOK

LEMMA SeenFacts ==
  ASSUME IrShape
  PROVE  (IF rcvstate # "STOP" /\ seen < RAWBUF THEN seen + 1 ELSE seen) \in 0 .. RAWBUF
BY IrConstants DEF IrShape

LEMMA ShapeEdge == ASSUME IrShape, Infrared!Edge PROVE IrShape'
  <1>1. CASE ~enabled
    BY <1>1 DEF Infrared!Edge, IrShape
  <1>2. CASE enabled
    <2>1. /\ silent' = FALSE /\ Infrared!Record /\ enabled' = enabled /\ ipc' = ipc
          /\ hit' = (hit \/ ipc = "resume")
          /\ seen' = IF rcvstate # "STOP" /\ seen < RAWBUF THEN seen + 1 ELSE seen
      BY <1>2 DEF Infrared!Edge
    <2>2. seen' \in 0 .. RAWBUF
      BY <2>1, SeenFacts
    <2>3. CASE rcvstate = "STOP"
      <3>1. UNCHANGED <<rcvstate, rawbuf, armed>> /\ (ipc = "resume" => hit)
        BY <2>1, <2>3 DEF Infrared!Record, IrShape
      <3>2. hit' = hit
        BY <2>1, <3>1 DEF IrShape
      <3> QED BY <2>1, <2>2, <2>3, <3>1, <3>2 DEF IrShape
    <2>4. CASE rcvstate = "IDLE"
      <3>1. rcvstate' = "MARK" /\ armed' = TRUE /\ rawbuf' = Append(rawbuf, "start") /\ ~hit
        BY <2>1, <2>4 DEF Infrared!Record, IrShape
      <3>2. "start" \in Entry
        BY DEF Entry
      <3>3. CASE ipc = "sketch"
        <4>1. rawbuf = <<>> /\ Len(<<>>) < RAWBUF
          BY <2>4, <3>3, IrConstants DEF IrShape
        <4>2. Fits(<<>>, RAWBUF)
          BY IrConstants, FitsEmpty
        <4>3. Fits(rawbuf', RAWBUF)
          BY <3>1, <3>2, <4>1, <4>2, IrConstants, FitsFacts
        <4>4. hit' = FALSE
          BY <2>1, <3>1, <3>3
        <4> QED BY <2>1, <2>2, <3>1, <3>3, <4>3, <4>4 DEF IrShape
      <3>4. CASE ipc = "resume"
        <4>1. Fits(rawbuf, RAWBUF)
          BY <3>1 DEF IrShape
        <4>2. Fits(rawbuf', RAWBUF + 1)
          BY <3>1, <3>2, <4>1, FitsFacts, IrConstants
        <4>3. hit' = TRUE
          BY <2>1, <3>4
        <4> QED BY <2>1, <2>2, <3>1, <3>4, <4>2, <4>3 DEF IrShape
      <3> QED BY <3>3, <3>4 DEF IrShape
    <2>5. CASE rcvstate = "MARK"
      <3>1. UNCHANGED rcvstate /\ armed' = TRUE
            /\ \/ Len(rawbuf) < RAWBUF /\ \E e \in Entry : rawbuf' = Append(rawbuf, e)
               \/ rawbuf' = rawbuf
        BY <2>1, <2>5 DEF Infrared!Record, Entry
      <3>2. hit' = hit
        BY <2>1, <2>5 DEF IrShape
      <3>3. Fits(rawbuf', IF ipc = "resume" /\ hit THEN RAWBUF + 1 ELSE RAWBUF)
        <4>1. CASE rawbuf' = rawbuf
          BY <4>1 DEF IrShape
        <4>2. ASSUME NEW e \in Entry, Len(rawbuf) < RAWBUF, rawbuf' = Append(rawbuf, e)
              PROVE  Fits(rawbuf', IF ipc = "resume" /\ hit THEN RAWBUF + 1 ELSE RAWBUF)
          <5>1. Fits(rawbuf, RAWBUF)
            <6>1. Len(rawbuf) <= RAWBUF
              BY <4>2, IrConstants DEF IrShape, Fits
            <6> QED BY <6>1 DEF IrShape, Fits
          <5>2. Fits(rawbuf', RAWBUF) /\ Fits(rawbuf', RAWBUF + 1)
            BY <4>2, <5>1, FitsFacts, IrConstants
          <5> QED BY <5>2
        <4> QED BY <3>1, <4>1, <4>2
      <3> QED BY <2>1, <2>2, <2>5, <3>1, <3>2, <3>3 DEF IrShape
    <2> QED BY <2>3, <2>4, <2>5 DEF IrShape
  <1> QED BY <1>1, <1>2 DEF IrShape

LEMMA ShapeStep == ASSUME IrShape, [Infrared!Next]_(Infrared!vars) PROVE IrShape'
  <1>1. CASE Infrared!Edge
    BY <1>1, ShapeEdge
  <1>2. CASE Infrared!Silence
    BY <1>2 DEF Infrared!Silence, IrShape
  <1>3. CASE Infrared!read_timeout
    BY <1>3 DEF Infrared!read_timeout, Infrared!line, IrShape
  <1>4. CASE Infrared!ResumeState
    <2>1. 0 \in 0 .. RAWBUF
      BY IrConstants
    <2>2. Fits(rawbuf, RAWBUF)
      BY <1>4 DEF Infrared!ResumeState, IrShape
    <2> QED BY <1>4, <2>1, <2>2 DEF Infrared!ResumeState, Infrared!line, IrShape
  <1>5. CASE Infrared!ResumeLength
    <2>1. Fits(<<>>, RAWBUF)
      BY FitsEmpty, IrConstants
    <2> QED BY <1>5, <2>1 DEF Infrared!ResumeLength, Infrared!line, IrShape
  <1>6. CASE Infrared!disableIRIn
    BY <1>6 DEF Infrared!disableIRIn, IrShape
  <1>7. CASE Infrared!enableIRIn
    <2>1. Fits(<<>>, RAWBUF) /\ 0 \in 0 .. RAWBUF
      BY FitsEmpty, IrConstants
    <2> QED BY <1>7, <2>1 DEF Infrared!enableIRIn, IrShape
  <1>8. CASE UNCHANGED Infrared!vars
    BY <1>8 DEF Infrared!vars, Infrared!line, IrShape
  <1> QED BY <1>1, <1>2, <1>3, <1>4, <1>5, <1>6, <1>7, <1>8 DEF Infrared!Next

LEMMA WholeStep ==
  ASSUME Yields = TRUE, IrShape, IrWhole, [Infrared!Next]_(Infrared!vars) PROVE IrWhole'
  <1>1. CASE Infrared!Edge
    <2>1. CASE ~enabled
      BY <1>1, <2>1 DEF Infrared!Edge, IrWhole
    <2>2. CASE enabled
      <3>1. /\ Infrared!Record /\ hit' = (hit \/ ipc = "resume")
            /\ seen' = IF rcvstate # "STOP" /\ seen < RAWBUF THEN seen + 1 ELSE seen
            /\ silent => ~armed
        BY <1>1, <2>2 DEF Infrared!Edge
      <3>2. SUFFICES ASSUME ~hit, ipc = "sketch"
                     PROVE  rcvstate' # "IDLE" => Message(rawbuf', seen')
                                                  /\ (rcvstate' = "MARK" => armed')
        BY <3>1 DEF IrWhole, IrShape
      <3>3. CASE rcvstate = "STOP"
        BY <3>1, <3>2, <3>3 DEF Infrared!Record, IrWhole
      <3>4. CASE rcvstate = "IDLE"
        <4>1. rawbuf = <<>> /\ seen = 0 /\ armed' = TRUE /\ rawbuf' = Append(rawbuf, "start")
          BY <3>1, <3>2, <3>4 DEF Infrared!Record, IrShape
        <4>2. seen' = 1
          BY <3>1, <3>4, <4>1, IrConstants
        <4> QED BY <4>1, <4>2, MessageFacts
      <3>5. CASE rcvstate = "MARK"
        <4>1. Message(rawbuf, seen) /\ armed
          BY <3>2, <3>5 DEF IrWhole
        <4>2. Len(rawbuf) = seen
          BY <4>1 DEF Message
        <4>3. ~silent
          BY <3>1, <4>1
        <4>4. armed' = TRUE
              /\ rawbuf' = IF seen < RAWBUF THEN Append(rawbuf, "short") ELSE rawbuf
          BY <3>1, <3>5, <4>2, <4>3 DEF Infrared!Record
        <4>5. seen' = IF seen < RAWBUF THEN seen + 1 ELSE seen
          BY <3>1, <3>5
        <4> QED BY <4>1, <4>4, <4>5, MessageFacts
      <3> QED BY <3>3, <3>4, <3>5 DEF IrShape
    <2> QED BY <2>1, <2>2 DEF IrShape
  <1>2. CASE Infrared!Silence
    BY <1>2 DEF Infrared!Silence, IrWhole
  <1>3. CASE Infrared!read_timeout
    BY <1>3 DEF Infrared!read_timeout, Infrared!line, IrWhole, IrShape, Message
  <1>4. CASE Infrared!ResumeState
    BY <1>4 DEF Infrared!ResumeState, IrWhole
  <1>5. CASE Infrared!ResumeLength
    BY <1>5 DEF Infrared!ResumeLength, IrWhole, IrShape
  <1>6. CASE Infrared!disableIRIn
    BY <1>6 DEF Infrared!disableIRIn, IrWhole
  <1>7. CASE Infrared!enableIRIn
    BY <1>7 DEF Infrared!enableIRIn, IrWhole
  <1>8. CASE UNCHANGED Infrared!vars
    BY <1>8 DEF Infrared!vars, IrWhole
  <1> QED BY <1>1, <1>2, <1>3, <1>4, <1>5, <1>6, <1>7, <1>8 DEF Infrared!Next

LEMMA IrInit == ASSUME Infrared!Init PROVE IrShape /\ IrWhole
  <1>1. Fits(<<>>, RAWBUF) /\ 0 \in 0 .. RAWBUF
    BY FitsEmpty, IrConstants
  <1> QED BY <1>1 DEF Infrared!Init, IrShape, IrWhole

LEMMA IrTyped == ASSUME IrShape PROVE Infrared!TypeOK
  <1>1. rawbuf \in Seq({"start", "short", "long"})
        /\ Len(rawbuf) <= IF hit THEN RAWBUF + 1 ELSE RAWBUF
    <2>1. Fits(rawbuf, IF hit THEN RAWBUF + 1 ELSE RAWBUF)
      <3>1. Fits(rawbuf, RAWBUF) => Fits(rawbuf, RAWBUF + 1)
        BY FitsFacts, IrConstants DEF Entry
      <3> QED BY <3>1 DEF IrShape
    <2> QED BY <2>1 DEF Fits, Entry
  <1> QED BY <1>1 DEF IrShape, Infrared!TypeOK

\* IRrecv: the variables keep to their types.  The buffer is written at most one
\* entry past its end, and that only by an edge in the middle of resume().
THEOREM InfraredTypes == Infrared!Spec => []Infrared!TypeOK
  BY IrTyped, IrInit, ShapeStep, PTL DEF Infrared!Spec

\* decode: what is decoded is one message and every edge of it, whatever the
\* size of the buffer, if the sketch lets the system work before a silence has
\* ended and no edge came into the middle of resume().
THEOREM CapturedWholeTheorem == ASSUME Yields = TRUE PROVE Infrared!Spec => []CapturedWhole
  <1>1. IrWhole => CapturedWhole
    BY DEF IrWhole, Message, CapturedWhole, Infrared!CapturedWhole
  <1> QED BY <1>1, IrInit, ShapeStep, WholeStep, PTL DEF Infrared!Spec

-----------------------------------------------------------------------------
(* OLEDDisplayUi *)

\* The direction to go back to is kept where a frame asked for by hand does
\* not reach it.
FrameDirections ==
  /\ IF manuelControll THEN lastTransitionDirection = chosen
     ELSE frameTransitionDirection = chosen
  /\ {frameTransitionDirection, lastTransitionDirection, chosen} \subseteq {1, -1}
  /\ {manuelControll, autoTransition, drawn} \subseteq BOOLEAN
  /\ frameState \in {"FIXED", "IN_TRANSITION"}

\* The frames that are shown or come next exist.
FrameOK(count, frame, next) ==
  /\ count \in FrameCounts /\ frame \in 0 .. count - 1
  /\ next \in (0 .. count - 1) \cup {Frames!None}

FramesInv ==
  /\ FrameDirections
  /\ FrameOK(frameCount, currentFrame, nextFrameNumber)
  /\ ticks \in 0 .. ticksPerFrame + ticksPerTransition
  /\ elapsed \in 0 .. BudgetByte - 1 /\ calls \in 0 .. MaxCalls

LEMMA FrameConstants ==
  /\ {ticksPerFrame, ticksPerTransition, updateInterval, BudgetByte, MaxCalls} \subseteq Nat
  /\ updateInterval > 0 /\ BudgetByte > 1 /\ 0 \in 0 .. BudgetByte - 1
  /\ 0 \in 0 .. ticksPerFrame + ticksPerTransition
  /\ \A n \in FrameCounts : n \in Nat /\ n > 0 /\ 0 \in 0 .. n - 1
BY PartAssumptions DEF Frames!ConstantsOK

LEMMA DivFacts == ASSUME NEW n \in Nat, NEW u \in Nat, u > 0 PROVE n \div u \in Nat
OBVIOUS

LEMMA ModRange == ASSUME NEW n \in Int, NEW u \in Nat, u > 0 PROVE n % u \in 0 .. u - 1
OBVIOUS

\* A drawing that is late counts ticks, and one that is not counts one.
LEMMA TicksFacts ==
  ASSUME FramesInv, Frames!timeBudget <= 0 PROVE Frames!TicksNow \in Nat
  <1>1. Frames!timeBudget \in Int
    <2>1. (updateInterval - elapsed) % BudgetByte \in 0 .. BudgetByte - 1
      BY FrameConstants, ModRange DEF FramesInv
    <2> QED BY <2>1, FrameConstants DEF Frames!timeBudget
  <1>2. 0 - Frames!timeBudget \in Nat
    BY <1>1
  <1>3. (0 - Frames!timeBudget) \div updateInterval \in Nat
    BY <1>2, FrameConstants, DivFacts
  <1>4. ticks \in Nat
    BY FrameConstants DEF FramesInv
  <1> QED BY <1>3, <1>4 DEF Frames!TicksNow

LEMMA NextFrameExists ==
  ASSUME FramesInv PROVE Frames!getNextFrameNumber \in 0 .. frameCount - 1
  <1>1. frameCount \in Nat /\ frameCount > 0 /\ currentFrame \in Int
        /\ frameTransitionDirection \in Int
    BY FrameConstants DEF FramesInv, FrameOK, FrameDirections
  <1>2. (currentFrame + frameCount + frameTransitionDirection) % frameCount
          \in 0 .. frameCount - 1
    BY <1>1, ModRange
  <1> QED BY <1>2 DEF FramesInv, FrameOK, Frames!getNextFrameNumber

LEMMA DirectionsStep ==
  ASSUME Patient = TRUE, FrameDirections, [Frames!Next]_(Frames!vars) PROVE FrameDirections'
  <1>1. ASSUME NEW on \in BOOLEAN, Frames!setAutoTransition(on) PROVE FrameDirections'
    BY <1>1 DEF Frames!setAutoTransition, Frames!direction, Frames!time, FrameDirections
  <1>2. ASSUME NEW d \in {1, -1}, Frames!setAutoTransitionDirection(d) PROVE FrameDirections'
    BY <1>2 DEF Frames!setAutoTransitionDirection, Frames!time, FrameDirections
  <1>3. ASSUME NEW d \in {1, -1}, Frames!Transition(d), ~manuelControll,
               UNCHANGED <<autoTransition, Frames!time, chosen>>
        PROVE  FrameDirections'
    BY <1>3 DEF Frames!Transition, Frames!time, FrameDirections
  <1>4. ASSUME NEW d \in {1, -1}, Frames!StepFrame(d) PROVE FrameDirections'
    BY <1>3, <1>4 DEF Frames!StepFrame
  <1>5. ASSUME NEW n \in FrameCounts, Frames!setFrames(n) PROVE FrameDirections'
    BY <1>5 DEF Frames!setFrames, Frames!Redraw, Frames!direction, FrameDirections
  <1>6. ASSUME NEW f \in Frames!AnyFrame, Frames!transitionToFrame(f) PROVE FrameDirections'
    BY <1>3, <1>6 DEF Frames!transitionToFrame
  <1>7. ASSUME NEW f \in Frames!AnyFrame, Frames!switchToFrame(f) PROVE FrameDirections'
    BY <1>7 DEF Frames!switchToFrame, Frames!Redraw, Frames!direction, Frames!time,
                FrameDirections
  <1>8. CASE Frames!update
    <2>1. UNCHANGED <<autoTransition, chosen>> /\ drawn' \in BOOLEAN
      BY <1>8 DEF Frames!update, Frames!time, FrameDirections
    <2>2. CASE Frames!TickInTransition
      BY <2>1, <2>2 DEF Frames!TickInTransition, Frames!direction, FrameDirections
    <2>3. CASE Frames!TickFixed
      BY <2>1, <2>3 DEF Frames!TickFixed, FrameDirections
    <2>4. CASE UNCHANGED <<frameState, Frames!direction>>
      BY <2>1, <2>4 DEF Frames!direction, FrameDirections
    <2> QED BY <1>8, <2>2, <2>3, <2>4 DEF Frames!update
  <1>9. CASE Frames!Time
    BY <1>9 DEF Frames!Time, Frames!direction, Frames!ghosts, FrameDirections
  <1>10. CASE UNCHANGED Frames!vars
    BY <1>10 DEF Frames!vars, Frames!direction, Frames!time, Frames!ghosts, FrameDirections
  <1> QED BY <1>1, <1>2, <1>4, <1>5, <1>6, <1>7, <1>8, <1>9, <1>10 DEF Frames!Next

LEMMA FramesStep ==
  ASSUME Patient = TRUE, FramesInv, [Frames!Next]_(Frames!vars) PROVE FramesInv'
  <1>0. FrameDirections'
    BY DirectionsStep DEF FramesInv
  <1>a. ASSUME Frames!Call PROVE calls' \in 0 .. MaxCalls
    BY <1>a, FrameConstants DEF Frames!Call, FramesInv
  <1>b. Frames!Redraw => elapsed' \in 0 .. BudgetByte - 1
    BY DEF Frames!Redraw
  <1>1. ASSUME NEW on \in BOOLEAN, Frames!setAutoTransition(on) PROVE FramesInv'
    BY <1>0, <1>1, <1>a DEF Frames!setAutoTransition, Frames!time, FramesInv
  <1>2. ASSUME NEW d \in {1, -1}, Frames!setAutoTransitionDirection(d) PROVE FramesInv'
    BY <1>0, <1>2, <1>a DEF Frames!setAutoTransitionDirection, Frames!time, FramesInv
  <1>4. ASSUME NEW d \in {1, -1}, Frames!StepFrame(d) PROVE FramesInv'
    BY <1>0, <1>4, <1>a, FrameConstants
       DEF Frames!StepFrame, Frames!Transition, Frames!time, FramesInv
  <1>5. ASSUME NEW n \in FrameCounts, Frames!setFrames(n) PROVE FramesInv'
    <2>1. FrameOK(n, 0, nextFrameNumber)
      BY <1>5, FrameConstants DEF Frames!setFrames, FrameOK
    <2> QED BY <1>0, <1>5, <1>a, <1>b, <2>1, FrameConstants DEF Frames!setFrames, FramesInv
  <1>6. ASSUME NEW f \in Frames!AnyFrame, Frames!transitionToFrame(f) PROVE FramesInv'
    <2>1. FrameOK(frameCount, currentFrame, f)
      BY <1>6 DEF Frames!transitionToFrame, FramesInv, FrameOK
    <2> QED BY <1>0, <1>6, <1>a, <2>1, FrameConstants
            DEF Frames!transitionToFrame, Frames!Transition, Frames!time, FramesInv
  <1>7. ASSUME NEW f \in Frames!AnyFrame, Frames!switchToFrame(f) PROVE FramesInv'
    BY <1>0, <1>7, <1>a, <1>b, FrameConstants
       DEF Frames!switchToFrame, Frames!time, FramesInv
  <1>8. CASE Frames!update
    <2>1. UNCHANGED <<frameCount, calls>> /\ 0 \in 0 .. BudgetByte - 1
      BY <1>8, FrameConstants DEF Frames!update
    <2>2. CASE Frames!timeBudget <= 0 /\ elapsed' = 0 /\ Frames!TickInTransition
      <3>1. Frames!TicksNow \in Nat
        BY <2>2, TicksFacts
      <3>2. CASE Frames!TicksNow >= ticksPerTransition
        <4>1. FrameOK(frameCount, Frames!getNextFrameNumber, Frames!None)
          BY NextFrameExists DEF FramesInv, FrameOK
        <4> QED BY <1>0, <2>1, <2>2, <3>2, <4>1, FrameConstants
                DEF Frames!TickInTransition, FramesInv
      <3>3. CASE ~(Frames!TicksNow >= ticksPerTransition)
        <4>1. Frames!TicksNow \in 0 .. ticksPerFrame + ticksPerTransition
          BY <3>1, <3>3, FrameConstants
        <4> QED BY <1>0, <2>1, <2>2, <3>3, <4>1 DEF Frames!TickInTransition, FramesInv
      <3> QED BY <3>2, <3>3
    <2>3. CASE Frames!timeBudget <= 0 /\ elapsed' = 0 /\ Frames!TickFixed
      <3>1. Frames!TicksNow \in Nat
        BY <2>3, TicksFacts
      <3>2. CASE Frames!TicksNow >= ticksPerFrame
        BY <1>0, <2>1, <2>3, <3>2, FrameConstants DEF Frames!TickFixed, FramesInv
      <3>3. CASE ~(Frames!TicksNow >= ticksPerFrame)
        <4>1. Frames!TicksNow \in 0 .. ticksPerFrame + ticksPerTransition
          BY <3>1, <3>3, FrameConstants
        <4> QED BY <1>0, <2>1, <2>3, <3>3, <4>1 DEF Frames!TickFixed, FramesInv
      <3> QED BY <3>2, <3>3
    <2>4. CASE UNCHANGED <<Frames!time, currentFrame, nextFrameNumber, ticks>>
      BY <1>0, <2>1, <2>4 DEF Frames!time, FramesInv
    <2> QED BY <1>8, <2>2, <2>3, <2>4 DEF Frames!update
  <1>9. CASE Frames!Time
    <2>1. (elapsed + 1) % BudgetByte \in 0 .. BudgetByte - 1
      BY FrameConstants, ModRange DEF FramesInv
    <2> QED BY <1>0, <1>9, <2>1 DEF Frames!Time, Frames!ghosts, FramesInv
  <1>10. CASE UNCHANGED Frames!vars
    BY <1>0, <1>10 DEF Frames!vars, Frames!time, Frames!ghosts, FramesInv
  <1> QED BY <1>1, <1>2, <1>4, <1>5, <1>6, <1>7, <1>8, <1>9, <1>10 DEF Frames!Next

LEMMA FramesInit == Frames!Init => FramesInv
  <1>1. SUFFICES ASSUME Frames!Init PROVE FramesInv
    OBVIOUS
  <1>2. FrameDirections
    BY <1>1 DEF Frames!Init, FrameDirections
  <1>3. FrameOK(frameCount, currentFrame, nextFrameNumber)
    BY <1>1, FrameConstants DEF Frames!Init, FrameOK
  <1>4. 0 \in 0 .. MaxCalls
    BY FrameConstants
  <1> QED BY <1>1, <1>2, <1>3, <1>4, FrameConstants DEF Frames!Init, FramesInv

LEMMA FramesInductive == ASSUME Patient = TRUE PROVE Frames!Spec => []FramesInv
  BY FramesInit, FramesStep, PTL DEF Frames!Spec

LEMMA FramesTyped == ASSUME FramesInv PROVE Frames!TypeOK
  <1>1. ticks \in 0 .. ticksPerFrame + ticksPerTransition + BudgetByte
    BY FrameConstants DEF FramesInv
  <1> QED BY <1>1
          DEF FramesInv, FrameDirections, FrameOK, Frames!Frame, Frames!TypeOK

\* OLEDDisplayUi: the variables keep to their types; so no frame is drawn that
\* does not exist, for any number of frames, if the sketch does not set new
\* ones while it waits for one it has asked for.
THEOREM FramesTypes == ASSUME Patient = TRUE PROVE Frames!Spec => []Frames!TypeOK
  BY FramesTyped, FramesInductive, PTL

\* tick: a frame asked for by hand leaves the direction of the automatic
\* transitions as the sketch has set it, for all frames and times, if the
\* sketch waits for what it has asked for.
THEOREM DirectionKeptTheorem == ASSUME Patient = TRUE PROVE Frames!Spec => []DirectionKept
  <1>1. FramesInv => DirectionKept
    BY DEF FramesInv, FrameDirections, DirectionKept, Frames!DirectionKept
  <1> QED BY <1>1, FramesInductive, PTL

-----------------------------------------------------------------------------
(* CubicGasSensors *)

\* A call comes between the time for the command and the end.
CalledInBetween == CO2_CAL_ACT + MaxGap <= CO2_CAL_END

\* While the command has not been sent, the last call, or the start, was not
\* after the time for it.
GasInv ==
  /\ Gas!TypeOK
  /\ flag /\ sentResetCmd => commanded
  /\ flag /\ ~commanded => millis <= CO2_CAL_ACT + gap

LEMMA GasConstants ==
  /\ CO2_CAL_ACT \in Nat /\ CO2_CAL_END \in Nat /\ GasLast \in Nat /\ MaxGap \in Nat
  /\ MaxBoots \in Nat
BY PartAssumptions DEF Gas!ConstantsOK

LEMMA GasTypesStep == ASSUME Gas!TypeOK, [Gas!Next]_(Gas!vars) PROVE Gas!TypeOK'
  <1>1. 0 \in 0 .. GasLast /\ 0 \in 0 .. MaxGap
    BY GasConstants
  <1>2. ASSUME Gas!Fresh, boots < MaxBoots, boots' = boots + 1,
               flag' \in BOOLEAN, commanded' \in BOOLEAN
        PROVE  Gas!TypeOK'
    <2>1. boots' \in 0 .. MaxBoots
      BY <1>2, GasConstants DEF Gas!TypeOK
    <2> QED BY <1>1, <1>2, <2>1 DEF Gas!Fresh, Gas!TypeOK
  <1>3. CASE Gas!Restart
    BY <1>2, <1>3 DEF Gas!Restart, Gas!TypeOK
  <1>4. CASE Gas!RequestCalibration
    BY <1>2, <1>4 DEF Gas!RequestCalibration
  <1>5. CASE Gas!getCO2
    <2>1. gap' = 0 /\ UNCHANGED <<millis, boots>>
      BY <1>5 DEF Gas!getCO2
    <2>2. CASE Gas!Calibrating
      BY <1>1, <2>1, <2>2 DEF Gas!Calibrating, Gas!TypeOK
    <2>3. CASE Gas!Reading
      <3>1. PICK value \in {0, 550, 800} : Gas!Read(value)
        BY <2>3 DEF Gas!Reading
      <3>2. flag' = FALSE /\ UNCHANGED <<sentResetCmd, commanded>>
        BY <2>3, <3>1 DEF Gas!Reading, Gas!Read
      <3>3. startedCO2Monitoring' \in BOOLEAN
        BY <3>1, ZenonT(60) DEF Gas!Read, Gas!TypeOK
      <3>4. currentStatus' \in {"CB_INIT", "CB_WARMUP", "CB_CALIBRATE", "CB_STARTED"}
        BY <3>1 DEF Gas!Read, Gas!TypeOK
      <3> QED BY <1>1, <2>1, <3>2, <3>3, <3>4, ZenonT(60) DEF Gas!TypeOK
    <2> QED BY <1>5, <2>2, <2>3 DEF Gas!getCO2
  <1>6. CASE Gas!Tick
    <2>1. gap + 1 \in 0 .. MaxGap
      BY <1>6, GasConstants DEF Gas!Tick, Gas!TypeOK
    <2>2. (IF millis < GasLast THEN millis + 1 ELSE GasLast) \in 0 .. GasLast
      BY GasConstants DEF Gas!TypeOK
    <2> QED BY <1>6, <2>1, <2>2 DEF Gas!Tick, Gas!TypeOK
  <1>7. CASE UNCHANGED Gas!vars
    BY <1>7 DEF Gas!vars, Gas!clock, Gas!TypeOK
  <1> QED BY <1>3, <1>4, <1>5, <1>6, <1>7 DEF Gas!Next

\* The time is over only when the command has been sent.
LEMMA ReadingAfterCommand ==
  ASSUME CalledInBetween, GasInv, Gas!Reading PROVE flag => commanded
  <1>1. SUFFICES ASSUME flag, ~commanded PROVE FALSE
    BY DEF GasInv, Gas!TypeOK
  <1>2. millis > CO2_CAL_END /\ millis <= CO2_CAL_ACT + gap
    BY <1>1 DEF Gas!Reading, GasInv
  <1>3. millis \in Nat /\ gap \in Nat /\ gap <= MaxGap
    BY GasConstants DEF GasInv, Gas!TypeOK
  <1> QED BY <1>2, <1>3, GasConstants DEF CalledInBetween

LEMMA GasStep ==
  ASSUME CalledInBetween, GasInv, [Gas!Next]_(Gas!vars) PROVE GasInv'
  <1>0. Gas!TypeOK'
    BY GasTypesStep DEF GasInv
  <1>a. /\ millis \in Nat /\ gap \in Nat /\ {flag, sentResetCmd, commanded} \subseteq BOOLEAN
        /\ flag /\ sentResetCmd => commanded
        /\ flag /\ ~commanded => millis <= CO2_CAL_ACT + gap
    BY GasConstants DEF GasInv, Gas!TypeOK
  <1>1. CASE Gas!Restart \/ Gas!RequestCalibration
    <2>1. millis' = 0 /\ gap' = 0 /\ sentResetCmd' = FALSE /\ 0 <= CO2_CAL_ACT + 0
      BY <1>1, GasConstants DEF Gas!Restart, Gas!RequestCalibration, Gas!Fresh
    <2> QED BY <1>0, <2>1 DEF GasInv
  <1>2. CASE Gas!getCO2
    <2>1. gap' = 0 /\ millis' = millis
      BY <1>2 DEF Gas!getCO2
    <2>2. CASE Gas!Calibrating
      <3>1. PICK act \in BOOLEAN :
              /\ act = (~sentResetCmd /\ millis > CO2_CAL_ACT)
              /\ sentResetCmd' = (sentResetCmd \/ act)
              /\ commanded' = (commanded \/ act)
        BY <2>2 DEF Gas!Calibrating
      <3>2. flag' = flag
        BY <2>2 DEF Gas!Calibrating
      <3>3. flag /\ ~commanded' => millis <= CO2_CAL_ACT + 0
        <4>1. SUFFICES ASSUME flag, ~commanded', ~(millis <= CO2_CAL_ACT + 0) PROVE FALSE
          OBVIOUS
        <4>2. ~commanded /\ ~act
          BY <1>a, <3>1, <4>1
        <4>3. ~sentResetCmd
          BY <1>a, <4>1, <4>2
        <4>4. ~(millis > CO2_CAL_ACT)
          BY <3>1, <4>2, <4>3
        <4> QED BY <1>a, <4>1, <4>4, GasConstants
      <3>4. flag /\ sentResetCmd' => commanded'
        BY <1>a, <3>1
      <3> QED BY <1>0, <2>1, <3>2, <3>3, <3>4 DEF GasInv
    <2>3. CASE Gas!Reading
      BY <1>0, <2>3 DEF Gas!Reading, GasInv
    <2> QED BY <1>2, <2>2, <2>3 DEF Gas!getCO2
  <1>3. CASE Gas!Tick
    <2>1. gap' = gap + 1 /\ millis' = IF millis < GasLast THEN millis + 1 ELSE GasLast
      BY <1>3 DEF Gas!Tick
    <2>2. UNCHANGED <<flag, sentResetCmd, commanded>>
      BY <1>3 DEF Gas!Tick
    <2>3. millis <= GasLast
      BY GasConstants DEF GasInv, Gas!TypeOK
    <2>4. flag /\ ~commanded =>
            (IF millis < GasLast THEN millis + 1 ELSE GasLast) <= CO2_CAL_ACT + (gap + 1)
      BY <1>a, <2>3, GasConstants
    <2> QED BY <1>0, <1>a, <2>1, <2>2, <2>4 DEF GasInv
  <1>4. CASE UNCHANGED Gas!vars
    BY <1>0, <1>4, <1>a DEF Gas!vars, Gas!clock, GasInv
  <1> QED BY <1>1, <1>2, <1>3, <1>4 DEF Gas!Next

LEMMA GasInit == Gas!Init => Gas!TypeOK /\ GasInv
  <1>1. 0 \in 0 .. GasLast /\ 0 \in 0 .. MaxGap /\ 0 \in 0 .. MaxBoots
    BY GasConstants
  <1> QED BY <1>1 DEF Gas!Init, Gas!TypeOK, GasInv

\* CubicGasSensors: the variables keep to their types.
THEOREM GasTypes == Gas!Spec => []Gas!TypeOK
  BY GasInit, GasTypesStep, PTL DEF Gas!Spec

\* checkForReset: the request for a calibration is given up only when the
\* command has been sent, whatever restarts come in between, if getCO2() is
\* called at least once between the time for the command and the end.
THEOREM CalibratesTheorem ==
  ASSUME CalledInBetween PROVE Gas!Spec => CalibratesBeforeClearing
  <1>1. Gas!Spec => []GasInv
    BY GasInit, GasStep, PTL DEF Gas!Spec
  <1>2. GasInv /\ [Gas!Next]_(Gas!vars) => [flag /\ ~flag' => commanded]_(Gas!vars)
    <2>1. SUFFICES ASSUME GasInv, Gas!Next, flag, ~flag' PROVE commanded
      OBVIOUS
    <2>2. Gas!Reading
      BY <2>1 DEF Gas!Next, Gas!Restart, Gas!RequestCalibration, Gas!getCO2, Gas!Calibrating,
                  Gas!Tick
    <2> QED BY <2>1, <2>2, ReadingAfterCommand
  <1>3. Gas!Spec => [][Gas!Next]_(Gas!vars)
    BY PTL DEF Gas!Spec
  <1> QED BY <1>1, <1>2, <1>3, PTL DEF CalibratesBeforeClearing, Gas!CalibratesBeforeClearing

-----------------------------------------------------------------------------
(* NeoEsp8266DmaMethod *)

\* What of the buffer has been sent since the last pause.
SentTo(n) == [b \in Leds!Data |-> IF b < n THEN _i2sBuffer[b] ELSE NoPulse]

LedTypes ==
  /\ _pixels \in Leds!Picture /\ _i2sBuffer \in Leds!Picture
  /\ wire \in Leds!Picture /\ leds \in Leds!Picture
  /\ dirty \in BOOLEAN /\ irq \in BOOLEAN
  /\ _dmaState \in {"Idle", "Pending", "Sending"}
  /\ dpc \in {"sketch", "wait", "fill", "done"} /\ fill \in Leds!Data
  /\ at \in 1 .. Leds!Last /\ lastLink \in {1, Leds!First}

\* The sketch writes to the buffer only while the engine idles, and has
\* copied the blocks up to `fill`.
FillInv ==
  /\ dpc \in {"fill", "done"} => _dmaState = "Idle"
  /\ dpc = "fill" => \A b \in Leds!Data : b < fill => _i2sBuffer[b] = _pixels[b]
  /\ dpc = "done" => _i2sBuffer = _pixels

\* A block that is not filled yet has never been.
NeverFilled ==
  \A b \in Leds!Data : /\ _pixels[b] = NoPulse => _i2sBuffer[b] = NoPulse
                       /\ _i2sBuffer[b] = NoPulse => leds[b] = NoPulse

\* Where the engine is, and what it has sent, in each state of the driver.
EngineInv ==
  /\ irq => at = Leds!Last
  /\ _dmaState # "Sending" =>
       at \notin Leds!Data /\ lastLink = Leds!First /\ wire = Leds!Dark
  /\ _dmaState = "Sending" =>
       CASE at \in Leds!Data   -> wire = SentTo(at)
         [] at = Leds!First    -> wire = _i2sBuffer
         [] at = Leds!Last     -> /\ wire = Leds!Dark
                                  /\ IF irq THEN leds = _i2sBuffer ELSE lastLink = 1

LedsInv == LedTypes /\ FillInv /\ NeverFilled /\ EngineInv

LEMMA LedConstants ==
  /\ Blocks \in Nat /\ Blocks > 0 /\ NoPulse \notin Colour
  /\ Leds!First \in Nat /\ Leds!Last \in Nat /\ Leds!Last = Leds!First + 1
  /\ Leds!First \notin Leds!Data /\ Leds!Last \notin Leds!Data /\ Leds!First # Leds!Last
  /\ 1 \in Leds!Data /\ 1 \in 1 .. Leds!Last
  /\ Leds!First \in 1 .. Leds!Last /\ Leds!Last \in 1 .. Leds!Last
  /\ \A n : n \in 1 .. Leds!Last <=> n \in Leds!Data \/ n = Leds!First \/ n = Leds!Last
  /\ \A b \in Leds!Data : /\ b \in Nat /\ b >= 1 /\ b <= Blocks
                          /\ IF b = Blocks THEN b + 1 = Leds!First ELSE b + 1 \in Leds!Data
  /\ Leds!Dark \in Leds!Picture
  <1>1. Blocks \in Nat /\ Blocks > 0 /\ NoPulse \notin Colour
    BY PartAssumptions DEF Leds!ConstantsOK
  <1> QED BY <1>1 DEF Leds!First, Leds!Last, Leds!Data, Leds!Dark, Leds!Picture

\* The box of the abstract driver is empty only when it holds no picture.
LEMMA NoPictureIsEmpty == ASSUME NEW p \in Leds!Picture PROVE p # <<>>
  <1>1. DOMAIN p = Leds!Data /\ 1 \in Leds!Data
    BY LedConstants DEF Leds!Picture
  <1>2. 1 \notin DOMAIN <<>>
    OBVIOUS
  <1> QED BY <1>1, <1>2

\* The pause: the LEDs take over the whole picture, or none.
LEMMA LedsPause ==
  ASSUME LedsInv, Leds!SendFirst
  PROVE  /\ _dmaState = "Sending" => leds' = _i2sBuffer
         /\ _dmaState # "Sending" => leds' = leds
  <1>1. leds' = [b \in Leds!Data |-> IF wire[b] = NoPulse THEN leds[b] ELSE wire[b]]
        /\ at = Leds!First
    BY DEF Leds!SendFirst
  <1>2. leds \in [Leds!Data -> Colour \cup {NoPulse}]
        /\ _i2sBuffer \in [Leds!Data -> Colour \cup {NoPulse}]
    BY DEF LedsInv, LedTypes, Leds!Picture
  <1>3. CASE _dmaState = "Sending"
    <2>1. wire = _i2sBuffer
      BY <1>1, <1>3, LedConstants DEF LedsInv, EngineInv
    <2>2. \A b \in Leds!Data : (IF wire[b] = NoPulse THEN leds[b] ELSE wire[b]) = _i2sBuffer[b]
      BY <2>1 DEF LedsInv, NeverFilled
    <2>3. leds' = [b \in Leds!Data |-> _i2sBuffer[b]]
      BY <1>1, <2>2
    <2> QED BY <1>2, <1>3, <2>3
  <1>4. CASE _dmaState # "Sending"
    <2>1. wire = Leds!Dark
      BY <1>4 DEF LedsInv, EngineInv
    <2>2. leds' = [b \in Leds!Data |-> leds[b]]
      BY <1>1, <2>1 DEF Leds!Dark
    <2> QED BY <1>2, <1>4, <2>2
  <1> QED BY <1>3, <1>4

LEMMA LedsSendData == ASSUME LedsInv, Leds!SendData PROVE LedsInv'
  <1>1. at \in Leds!Data /\ wire' = [wire EXCEPT ![at] = _i2sBuffer[at]] /\ at' = at + 1
        /\ UNCHANGED <<_pixels, dirty, dpc, fill, _i2sBuffer, _dmaState, leds, lastLink, irq>>
    BY DEF Leds!SendData, Leds!sketch
  <1>2. _dmaState = "Sending" /\ wire = SentTo(at) /\ ~irq
    BY <1>1, LedConstants DEF LedsInv, EngineInv
  <1>3. _i2sBuffer \in [Leds!Data -> Colour \cup {NoPulse}]
        /\ wire \in [Leds!Data -> Colour \cup {NoPulse}]
    BY DEF LedsInv, LedTypes, Leds!Picture
  <1>4. wire' \in Leds!Picture
    BY <1>1, <1>3 DEF Leds!Picture
  <1>5. \A b \in Leds!Data : wire'[b] = IF b < at + 1 THEN _i2sBuffer[b] ELSE NoPulse
    <2>1. TAKE b \in Leds!Data
    <2>2. wire'[b] = IF b = at THEN _i2sBuffer[at] ELSE wire[b]
      BY <1>1, <1>3
    <2>3. wire[b] = IF b < at THEN _i2sBuffer[b] ELSE NoPulse
      BY <1>2 DEF SentTo
    <2>4. b < at + 1 <=> b < at \/ b = at
      BY <1>1, LedConstants
    <2> QED BY <2>2, <2>3, <2>4
  <1>6. wire' = SentTo(at + 1)
    <2>1. wire' = [b \in Leds!Data |-> wire'[b]]
      BY <1>4 DEF Leds!Picture
    <2>2. wire' = [b \in Leds!Data |-> IF b < at + 1 THEN _i2sBuffer[b] ELSE NoPulse]
      BY <1>5, <2>1
    <2> QED BY <2>2 DEF SentTo
  <1>7. LedTypes'
    <2>1. at' \in 1 .. Leds!Last
      BY <1>1, LedConstants
    <2> QED BY <1>1, <1>4, <2>1 DEF LedsInv, LedTypes
  <1>8. FillInv' /\ NeverFilled'
    BY <1>1 DEF LedsInv, FillInv, NeverFilled
  <1>9. EngineInv'
    <2>1. CASE at + 1 \in Leds!Data
      <3>1. wire' = SentTo(at)'
        BY <1>1, <1>6 DEF SentTo
      <3> QED BY <1>1, <1>2, <2>1, <3>1, LedConstants DEF EngineInv, SentTo
    <2>2. CASE at + 1 = Leds!First
      <3>1. \A b \in Leds!Data : b < at + 1
        BY <1>1, <2>2, LedConstants
      <3>2. SentTo(at + 1) = [b \in Leds!Data |-> _i2sBuffer[b]]
        BY <3>1 DEF SentTo
      <3>3. wire' = _i2sBuffer
        BY <1>3, <1>6, <3>2
      <3> QED BY <1>1, <1>2, <2>2, <3>3, LedConstants DEF EngineInv
    <2> QED BY <1>1, <2>1, <2>2, LedConstants
  <1> QED BY <1>7, <1>8, <1>9 DEF LedsInv

LEMMA LedsSendFirst == ASSUME LedsInv, Leds!SendFirst PROVE LedsInv'
  <1>1. at = Leds!First /\ at' = Leds!Last /\ irq' = TRUE /\ wire' = Leds!Dark
        /\ UNCHANGED <<_pixels, dirty, dpc, fill, _i2sBuffer, _dmaState, lastLink>>
    BY DEF Leds!SendFirst, Leds!sketch
  <1>2. leds' = IF _dmaState = "Sending" THEN _i2sBuffer ELSE leds
    BY LedsPause
  <1>3. LedTypes'
    BY <1>1, <1>2, LedConstants DEF LedsInv, LedTypes
  <1>4. FillInv' /\ NeverFilled'
    BY <1>1, <1>2 DEF LedsInv, FillInv, NeverFilled
  <1>5. EngineInv'
    BY <1>1, <1>2, LedConstants DEF LedsInv, EngineInv
  <1> QED BY <1>3, <1>4, <1>5 DEF LedsInv

LEMMA LedsSendLast == ASSUME Prompt = TRUE, LedsInv, Leds!SendLast PROVE LedsInv'
  <1>1. at = Leds!Last /\ ~irq /\ at' = lastLink
        /\ UNCHANGED <<_pixels, dirty, dpc, fill, _i2sBuffer, _dmaState, wire, leds, lastLink, irq>>
    BY DEF Leds!SendLast, Leds!sketch
  <1>2. LedTypes'
    BY <1>1, LedConstants DEF LedsInv, LedTypes
  <1>3. FillInv' /\ NeverFilled'
    BY <1>1 DEF LedsInv, FillInv, NeverFilled
  <1>4. EngineInv'
    <2>1. CASE _dmaState = "Sending"
      <3>1. lastLink = 1 /\ wire = Leds!Dark
        BY <1>1, <2>1, LedConstants DEF LedsInv, EngineInv
      <3>2. \A b \in Leds!Data : ~(b < 1)
        BY LedConstants
      <3>3. wire' = SentTo(1)'
        BY <1>1, <3>1, <3>2 DEF SentTo, Leds!Dark
      <3> QED BY <1>1, <2>1, <3>1, <3>3, LedConstants DEF EngineInv, SentTo
    <2>2. CASE _dmaState # "Sending"
      BY <1>1, <2>2, LedConstants DEF LedsInv, EngineInv
    <2> QED BY <2>1, <2>2
  <1> QED BY <1>2, <1>3, <1>4 DEF LedsInv

LEMMA LedsInterrupt == ASSUME LedsInv, Leds!i2s_slc_isr PROVE LedsInv'
  <1>1. irq /\ irq' = FALSE /\ at = Leds!Last
        /\ UNCHANGED <<_pixels, dirty, dpc, fill, _i2sBuffer, at, wire, leds>>
    BY DEF Leds!i2s_slc_isr, Leds!sketch, Leds!engine, LedsInv, EngineInv
  <1>2. \/ _dmaState = "Idle" /\ _dmaState' = "Idle" /\ lastLink' = lastLink
        \/ _dmaState = "Pending" /\ _dmaState' = "Sending" /\ lastLink' = 1
        \/ _dmaState = "Sending" /\ _dmaState' = "Idle" /\ lastLink' = Leds!First
    BY DEF Leds!i2s_slc_isr, LedsInv, LedTypes
  <1>3. LedTypes'
    BY <1>1, <1>2 DEF LedsInv, LedTypes
  <1>4. FillInv' /\ NeverFilled'
    BY <1>1, <1>2 DEF LedsInv, FillInv, NeverFilled
  <1>5. EngineInv'
    BY <1>1, <1>2, LedConstants DEF LedsInv, EngineInv
  <1> QED BY <1>3, <1>4, <1>5 DEF LedsInv

\* What the sketch does leaves the engine alone, and the buffer too unless it
\* fills it.
LEMMA EngineRests ==
  ASSUME EngineInv, UNCHANGED <<_i2sBuffer, _dmaState, at, wire, leds, lastLink, irq>>
  PROVE  EngineInv'
  BY DEF EngineInv, SentTo

LEMMA LedsSetPixelColor ==
  ASSUME LedsInv, NEW b \in Leds!Data, NEW c \in Colour, Leds!SetPixelColor(b, c)
  PROVE  LedsInv' /\ _pixels' \in Leds!Picture
  <1>1. /\ dpc = "sketch" /\ _pixels' = [_pixels EXCEPT ![b] = c] /\ dirty' = TRUE
        /\ UNCHANGED <<dpc, fill, _i2sBuffer, _dmaState, at, wire, leds, lastLink, irq>>
    BY DEF Leds!SetPixelColor, Leds!engine
  <1>2. _pixels \in [Leds!Data -> Colour \cup {NoPulse}]
    BY DEF LedsInv, LedTypes, Leds!Picture
  <1>3. _pixels' \in Leds!Picture
    BY <1>1, <1>2 DEF Leds!Picture
  <1>4. LedTypes'
    BY <1>1, <1>3 DEF LedsInv, LedTypes
  <1>5. FillInv'
    BY <1>1 DEF LedsInv, FillInv
  <1>6. NeverFilled'
    <2>1. \A d \in Leds!Data : _pixels'[d] = NoPulse => _pixels[d] = NoPulse
      BY <1>1, <1>2, LedConstants
    <2> QED BY <1>1, <2>1 DEF LedsInv, NeverFilled
  <1>7. EngineInv'
    BY <1>1, EngineRests DEF LedsInv
  <1> QED BY <1>3, <1>4, <1>5, <1>6, <1>7 DEF LedsInv

LEMMA LedsShow == ASSUME LedsInv, Leds!Show PROVE LedsInv'
  <1>1. /\ dpc' = "wait"
        /\ UNCHANGED <<_pixels, dirty, fill, _i2sBuffer, _dmaState, at, wire, leds, lastLink, irq>>
    BY DEF Leds!Show, Leds!engine
  <1> QED BY <1>1, EngineRests DEF LedsInv, LedTypes, FillInv, NeverFilled

LEMMA LedsUpdateReady == ASSUME LedsInv, Leds!UpdateReady PROVE LedsInv'
  <1>1. /\ _dmaState = "Idle" /\ dpc' = "fill" /\ fill' = 1
        /\ UNCHANGED <<_pixels, dirty, _i2sBuffer, _dmaState, at, wire, leds, lastLink, irq>>
    BY DEF Leds!UpdateReady, Leds!engine
  <1>2. FillInv'
    <2>1. \A b \in Leds!Data : ~(b < 1)
      BY LedConstants
    <2> QED BY <1>1, <2>1 DEF LedsInv, FillInv
  <1> QED BY <1>1, <1>2, EngineRests, LedConstants DEF LedsInv, LedTypes, NeverFilled

LEMMA LedsFillBuffers == ASSUME LedsInv, Leds!FillBuffers PROVE LedsInv'
  <1>1. /\ dpc = "fill" /\ _i2sBuffer' = [_i2sBuffer EXCEPT ![fill] = _pixels[fill]]
        /\ IF fill = Blocks THEN dpc' = "done" /\ fill' = fill
                            ELSE dpc' = dpc /\ fill' = fill + 1
        /\ UNCHANGED <<_pixels, dirty, _dmaState, at, wire, leds, lastLink, irq>>
    BY DEF Leds!FillBuffers, Leds!engine
  <1>2. /\ fill \in Leds!Data /\ _dmaState = "Idle"
        /\ _i2sBuffer \in [Leds!Data -> Colour \cup {NoPulse}]
        /\ _pixels \in [Leds!Data -> Colour \cup {NoPulse}]
    BY <1>1 DEF LedsInv, LedTypes, Leds!Picture, FillInv
  <1>3. \A b \in Leds!Data : _i2sBuffer'[b] = IF b = fill THEN _pixels[fill] ELSE _i2sBuffer[b]
    BY <1>1, <1>2
  <1>4. _i2sBuffer' \in Leds!Picture
    BY <1>1, <1>2 DEF Leds!Picture
  <1>5. fill' \in Leds!Data
    BY <1>1, <1>2, LedConstants DEF Leds!Data
  <1>6. LedTypes'
    BY <1>1, <1>4, <1>5 DEF LedsInv, LedTypes
  <1>7. \A b \in Leds!Data : b < fill \/ b = fill => _i2sBuffer'[b] = _pixels[b]
    BY <1>1, <1>3 DEF LedsInv, FillInv
  <1>8. FillInv'
    <2>1. CASE fill = Blocks
      <3>1. \A b \in Leds!Data : b < fill \/ b = fill
        BY <1>2, <2>1, LedConstants
      <3>2. \A b \in Leds!Data : _i2sBuffer'[b] = _pixels[b]
        BY <1>7, <3>1
      <3>3. _i2sBuffer' = _pixels
        BY <1>2, <1>4, <3>2 DEF Leds!Picture
      <3> QED BY <1>1, <1>2, <2>1, <3>3 DEF FillInv
    <2>2. CASE fill # Blocks
      <3>1. \A b \in Leds!Data : b < fill + 1 => b < fill \/ b = fill
        BY <1>2, LedConstants
      <3> QED BY <1>1, <1>2, <1>7, <2>2, <3>1 DEF FillInv
    <2> QED BY <2>1, <2>2
  <1>9. NeverFilled'
    BY <1>1, <1>3 DEF LedsInv, NeverFilled
  <1>10. EngineInv'
    BY <1>1, <1>2 DEF LedsInv, EngineInv
  <1> QED BY <1>6, <1>8, <1>9, <1>10 DEF LedsInv

LEMMA LedsUpdateDone ==
  ASSUME LedsInv, Leds!UpdateDone PROVE LedsInv' /\ _dmaState = "Idle" /\ _i2sBuffer = _pixels
  <1>1. /\ dpc = "done" /\ _dmaState' = "Pending" /\ dirty' = FALSE /\ dpc' = "sketch"
        /\ UNCHANGED <<_pixels, fill, _i2sBuffer, at, wire, leds, lastLink, irq>>
    BY DEF Leds!UpdateDone, Leds!engine
  <1>2. _dmaState = "Idle" /\ _i2sBuffer = _pixels
    BY <1>1 DEF LedsInv, FillInv
  <1>3. EngineInv'
    BY <1>1, <1>2 DEF LedsInv, EngineInv
  <1> QED BY <1>1, <1>2, <1>3 DEF LedsInv, LedTypes, FillInv, NeverFilled

LEMMA LedsRest == ASSUME LedsInv, UNCHANGED Leds!vars PROVE LedsInv'
  <1>1. UNCHANGED <<_pixels, dirty, dpc, fill, _i2sBuffer, _dmaState, at, wire, leds, lastLink, irq>>
    BY DEF Leds!vars, Leds!sketch, Leds!engine
  <1> QED BY <1>1, EngineRests DEF LedsInv, LedTypes, FillInv, NeverFilled

LEMMA LedsInit == Leds!Init => LedsInv
  <1> SUFFICES ASSUME Leds!Init PROVE LedsInv
    OBVIOUS
  <1>1. /\ _pixels = Leds!Dark /\ _i2sBuffer = Leds!Dark /\ dirty = TRUE /\ _dmaState = "Sending"
        /\ dpc = "sketch" /\ fill = 1 /\ at = 1 /\ lastLink = Leds!First /\ irq = FALSE
        /\ wire = Leds!Dark /\ leds = Leds!Dark
    BY DEF Leds!Init
  <1>2. wire = SentTo(1)
    BY <1>1 DEF SentTo, Leds!Dark
  <1>3. EngineInv
    BY <1>1, <1>2, LedConstants DEF EngineInv
  <1> QED BY <1>1, <1>3, LedConstants DEF LedsInv, LedTypes, FillInv, NeverFilled, Leds!Dark

LEMMA LedsStep == ASSUME Prompt = TRUE, LedsInv, [Leds!Next]_(Leds!vars) PROVE LedsInv'
  BY LedsSetPixelColor, LedsShow, LedsUpdateReady, LedsFillBuffers, LedsUpdateDone,
     LedsSendData, LedsSendFirst, LedsSendLast, LedsInterrupt, LedsRest
     DEF Leds!Next, Leds!Update, Leds!Engine

LEMMA LedsInductive == ASSUME Prompt = TRUE PROVE Leds!Spec => []LedsInv
  BY LedsInit, LedsStep, PTL DEF Leds!Spec

\* TypeOK of NeoEsp8266DmaMethod.
THEOREM LedsTypes == ASSUME Prompt = TRUE PROVE Leds!Spec => []Leds!TypeOK
  <1>1. LedsInv => Leds!TypeOK
    BY DEF LedsInv, LedTypes, Leds!TypeOK
  <1> QED BY <1>1, LedsInductive, PTL

\* For every number of blocks and all colours: what the LEDs show after a pause
\* is a picture that was handed to Update, whole and as it was then; Update
\* takes a picture only when the one before it is on show.
THEOREM WholePicturesTheorem == ASSUME Prompt = TRUE PROVE Leds!Spec => WholePictures
  <1>1. Leds!Init => Leds!Box!Init
    <2> SUFFICES ASSUME Leds!Init PROVE Leds!Box!Init
      OBVIOUS
    <2>1. LedsInv /\ _dmaState = "Sending"
      BY LedsInit DEF Leds!Init
    <2> QED BY <2>1 DEF Leds!Box!Init, LedsInv, LedTypes
  <1>2. ASSUME LedsInv, [Leds!Next]_(Leds!vars) PROVE [Leds!Box!Next]_(Leds!Box!vars)
    <2>0. _i2sBuffer # <<>>
      BY NoPictureIsEmpty, <1>2 DEF LedsInv, LedTypes
    <2>1. ASSUME NEW b \in Leds!Data, NEW c \in Colour, Leds!SetPixelColor(b, c)
          PROVE  Leds!Box!Change
      <3>1. _pixels' \in Leds!Picture
        BY <1>2, <2>1, LedsSetPixelColor
      <3> QED BY <2>1, <3>1 DEF Leds!Box!Change, Leds!SetPixelColor, Leds!engine
    <2>2. CASE Leds!Show \/ Leds!UpdateReady \/ Leds!SendData \/ Leds!SendLast \/ UNCHANGED Leds!vars
      <3>1. UNCHANGED <<_pixels, _i2sBuffer, _dmaState, leds>>
        BY <2>2 DEF Leds!Show, Leds!UpdateReady, Leds!SendData, Leds!SendLast, Leds!vars,
                    Leds!sketch, Leds!engine
      <3> QED BY <3>1 DEF Leds!Box!vars
    <2>3. CASE Leds!FillBuffers
      <3>1. _dmaState = "Idle" /\ UNCHANGED <<_pixels, _dmaState, leds>>
        BY <1>2, <2>3 DEF Leds!FillBuffers, Leds!engine, LedsInv, FillInv
      <3> QED BY <3>1 DEF Leds!Box!vars
    <2>4. CASE Leds!UpdateDone
      <3>1. _dmaState = "Idle" /\ _dmaState' = "Pending" /\ _i2sBuffer' = _pixels
            /\ UNCHANGED <<_pixels, leds>>
        BY <1>2, <2>4, LedsUpdateDone DEF Leds!UpdateDone, Leds!engine
      <3> QED BY <3>1 DEF Leds!Box!Next, Leds!Box!Put
    <2>5. CASE Leds!SendFirst
      <3>1. UNCHANGED <<_pixels, _i2sBuffer, _dmaState>>
        BY <2>5 DEF Leds!SendFirst, Leds!sketch
      <3>2. CASE _dmaState = "Sending"
        <4>1. leds' = _i2sBuffer
          BY <1>2, <2>5, <3>2, LedsPause
        <4> QED BY <2>0, <3>1, <3>2, <4>1 DEF Leds!Box!Next, Leds!Box!Show
      <3>3. CASE _dmaState # "Sending"
        <4>1. leds' = leds
          BY <1>2, <2>5, <3>3, LedsPause
        <4> QED BY <3>1, <4>1 DEF Leds!Box!vars
      <3> QED BY <3>2, <3>3
    <2>6. CASE Leds!i2s_slc_isr
      <3>1. irq /\ at = Leds!Last /\ UNCHANGED <<_pixels, _i2sBuffer, leds>>
        BY <1>2, <2>6 DEF Leds!i2s_slc_isr, Leds!sketch, Leds!engine, LedsInv, EngineInv
      <3>2. \/ _dmaState # "Sending" /\ (_dmaState' = "Idle" <=> _dmaState = "Idle")
            \/ _dmaState = "Sending" /\ _dmaState' = "Idle"
        BY <1>2, <2>6 DEF Leds!i2s_slc_isr, LedsInv, LedTypes
      <3>3. CASE _dmaState # "Sending"
        BY <3>1, <3>2, <3>3 DEF Leds!Box!vars
      <3>4. CASE _dmaState = "Sending"
        <4>1. leds = _i2sBuffer
          BY <1>2, <3>1, <3>4, LedConstants DEF LedsInv, EngineInv
        <4> QED BY <2>0, <3>1, <3>2, <3>4, <4>1 DEF Leds!Box!Next, Leds!Box!Release
      <3> QED BY <3>3, <3>4
    <2> QED BY <1>2, <2>1, <2>2, <2>3, <2>4, <2>5, <2>6
            DEF Leds!Next, Leds!Update, Leds!Engine, Leds!Box!Next
  <1>3. Leds!Spec => Leds!Init /\ [][Leds!Next]_(Leds!vars)
    BY PTL DEF Leds!Spec
  <1> QED BY <1>1, <1>2, <1>3, LedsInductive, PTL DEF WholePictures

-----------------------------------------------------------------------------
(* SNEP and LLCP of the PN532 *)

\* The places of a call of write(): before the connection is asked for, before
\* the message is put, before the connection is given up, and at the end.
Asking  == {<<"symm_connect">>, <<"CONNECT", "cc">>}
Putting == {<<"cc">>, <<"SYMM", "cc">>, <<"I", "rr">>}
Done    == {<<"rr">>, <<"SYMM", "rr">>, <<"SYMM", "i">>, <<"i">>, <<"RR", "symm_disc">>,
            <<"symm_disc">>, <<"DISC", "dm">>}
Leaving == {<<"dm">>, <<"SYMM", "dm">>}

\* And those of a call of read(): before the peer is connected, before the
\* answer to its message, and after it.
Waiting   == {<<"connect">>, <<"SYMM", "connect">>, <<"CC", "i">>}
Getting   == {<<"i">>, <<"SYMM", "i">>, <<"RR", "symm_i">>, <<"symm_i">>, <<"I", "rr">>}
Answered  == {<<"rr">>, <<"SYMM", "rr">>, <<"SYMM", "return">>}

NfcTypes ==
  /\ call \in {"none", "write", "read"}
  /\ mode \in {0, 1} /\ result \in {"ok", "failed"}
  /\ air \in Nfc!PDU \cup {"none"} /\ turn \in {"us", "peer"}
  /\ owes \in Seq(Nfc!PDU) /\ puts \in {0, 1} /\ link \in BOOLEAN

\* Where a call is tells what the peer has got, and bounds what it owes.
PlacesOK ==
  /\ call = "none" => npc = <<"idle">> /\ ~link /\ Len(owes) <= 4
  /\ call = "write" =>
       /\ mode = 0
       /\ \/ npc \in Asking  /\ puts = 0 /\ Len(owes) <= 0
          \/ npc \in Putting /\ puts = 0 /\ Len(owes) <= 1
          \/ npc \in Done    /\ puts = 1 /\ Len(owes) <= 3
          \/ npc \in Leaving /\ puts = 1 /\ Len(owes) <= 4
  /\ call = "read" =>
       /\ mode = 1 /\ puts = 0
       /\ \/ npc \in Waiting  /\ Len(owes) <= 1
          \/ npc \in Getting  /\ Len(owes) <= 2
          \/ npc \in Answered /\ Len(owes) <= 4

NfcTurns == NfcTypes /\ PlacesOK /\ Nfc!TurnsAlternate

\* Until the link breaks a call of read() is sent what it waits for.
MessageDue ==
  call = "read" /\ link =>
    /\ npc \in {<<"connect">>, <<"SYMM", "connect">>} =>
         \/ owes = <<"CONNECT">> /\ air \in {"none", "SYMM"}
         \/ owes = <<>> /\ air = "CONNECT"
    /\ npc = <<"CC", "i">> => owes = <<>>
    /\ npc \in {<<"i">>, <<"SYMM", "i">>} =>
         \/ owes = <<"I">> /\ air \in {"none", "SYMM"}
         \/ owes = <<>> /\ air = "I"

NfcInv == NfcTurns /\ MessageDue

\* A function that has read goes on to a place of its call where it writes, no
\* further than the next thing the peer is to know.
LEMMA AfterWrite ==
  ASSUME PlacesOK, call = "write", NEW p, NEW to \in Nfc!After(p)
  PROVE  /\ to \in Nfc!Writes
         /\ npc \in Asking  => to \in Asking
         /\ npc \in Putting => to \in Putting
         /\ npc \in Done    => to \in Done
         /\ npc \in Leaving => to \in Leaving
  <1>1. PICK w \in Nfc!Ways : w[1] = npc[1] /\ w[2] = p /\ to = w[3]
    BY DEF Nfc!After
  <1>2. mode = 0 /\ npc \in Asking \cup Putting \cup Done \cup Leaving
    BY DEF PlacesOK
  <1>3. \/ npc[1] \in {"CONNECT", "SYMM", "I", "RR", "DISC"}
        \/ npc = <<"symm_connect">> \/ npc = <<"cc">> \/ npc = <<"rr">>
        \/ npc = <<"i">> \/ npc = <<"symm_disc">> \/ npc = <<"dm">>
    BY <1>2 DEF Asking, Putting, Done, Leaving
  <1>4. w[1] \notin {"CONNECT", "SYMM", "I", "RR", "DISC"}
    BY DEF Nfc!Ways, Nfc!connect, Nfc!waitForConnection, Nfc!write, Nfc!read, Nfc!disconnect
  <1>5. /\ npc = <<"symm_connect">> => to = <<"CONNECT", "cc">>
        /\ npc = <<"cc">> => to \in {<<"SYMM", "cc">>, <<"I", "rr">>}
        /\ npc = <<"rr">> => to \in {<<"SYMM", "rr">>, <<"SYMM", "i">>}
        /\ npc = <<"i">> => to \in {<<"SYMM", "i">>, <<"RR", "symm_disc">>}
        /\ npc = <<"symm_disc">> => to = <<"DISC", "dm">>
        /\ npc = <<"dm">> => to = <<"SYMM", "dm">>
    BY <1>1, <1>2 DEF Nfc!Ways, Nfc!connect, Nfc!waitForConnection, Nfc!write, Nfc!read,
                      Nfc!disconnect
  <1> QED BY <1>1, <1>3, <1>4, <1>5
          DEF Asking, Putting, Done, Leaving, Nfc!Writes, Nfc!PDU, Nfc!Reads

LEMMA AfterRead ==
  ASSUME PlacesOK, call = "read", NEW p, NEW to \in Nfc!After(p)
  PROVE  /\ to \in Nfc!Writes
         /\ npc \in Waiting  => to \in Waiting
         /\ npc \in Getting  => to \in Getting
         /\ npc \in Answered => to \in Answered
  <1>1. PICK w \in Nfc!Ways : w[1] = npc[1] /\ w[2] = p /\ to = w[3]
    BY DEF Nfc!After
  <1>2. mode = 1 /\ npc \in Waiting \cup Getting \cup Answered
    BY DEF PlacesOK
  <1>3. \/ npc[1] \in {"CC", "SYMM", "I", "RR"}
        \/ npc = <<"connect">> \/ npc = <<"i">> \/ npc = <<"symm_i">> \/ npc = <<"rr">>
    BY <1>2 DEF Waiting, Getting, Answered
  <1>4. w[1] \notin {"CC", "SYMM", "I", "RR"}
    BY DEF Nfc!Ways, Nfc!connect, Nfc!waitForConnection, Nfc!write, Nfc!read, Nfc!disconnect
  <1>5. /\ npc = <<"connect">> => to \in {<<"SYMM", "connect">>, <<"CC", "i">>}
        /\ npc = <<"i">> => to \in {<<"SYMM", "i">>, <<"RR", "symm_i">>}
        /\ npc = <<"symm_i">> => to = <<"I", "rr">>
        /\ npc = <<"rr">> => to \in {<<"SYMM", "rr">>, <<"SYMM", "return">>}
    BY <1>1, <1>2 DEF Nfc!Ways, Nfc!connect, Nfc!waitForConnection, Nfc!write, Nfc!read,
                      Nfc!disconnect
  <1> QED BY <1>1, <1>3, <1>4, <1>5
          DEF Waiting, Getting, Answered, Nfc!Writes, Nfc!PDU, Nfc!Reads

\* A place is one to read at or one to write at.
LEMMA TwoKinds ==
  /\ \A q \in Nfc!Writes : Len(q) = 2 /\ q[1] \in Nfc!PDU /\ q[1] \notin Nfc!Reads
  /\ \A r \in Nfc!Reads : <<r>> \notin Nfc!Writes /\ r # "idle"
  /\ <<"idle">> \notin Nfc!Writes
  <1>1. \A q \in Nfc!Writes : Len(q) = 2 /\ q[1] \in Nfc!PDU
    BY DEF Nfc!Writes
  <1>2. \A x \in Nfc!PDU : x \notin Nfc!Reads
    BY DEF Nfc!PDU, Nfc!Reads
  <1>3. \A r : Len(<<r>>) = 1
    OBVIOUS
  <1> QED BY <1>1, <1>2, <1>3 DEF Nfc!Reads

LEMMA ReadPlace ==
  ASSUME PlacesOK, npc \notin Nfc!Writes, call \in {"write", "read"}
  PROVE  \E r \in Nfc!Reads : npc = <<r>>
  BY DEF PlacesOK, Asking, Putting, Done, Leaving, Waiting, Getting, Answered,
         Nfc!Writes, Nfc!PDU, Nfc!Reads

LEMMA OwesFacts ==
  ASSUME owes \in Seq(Nfc!PDU), NEW a \in Nfc!PDU, NEW b \in Nfc!PDU
  PROVE  /\ Append(owes, a) \in Seq(Nfc!PDU) /\ Len(Append(owes, a)) = Len(owes) + 1
         /\ owes \o <<a, b>> \in Seq(Nfc!PDU) /\ Len(owes \o <<a, b>>) = Len(owes) + 2
         /\ owes # <<>> => /\ Head(owes) \in Nfc!PDU /\ Tail(owes) \in Seq(Nfc!PDU)
                           /\ Len(Tail(owes)) = Len(owes) - 1
         /\ Len(owes) \in Nat
  <1>1. <<a, b>> \in Seq(Nfc!PDU) /\ Len(<<a, b>>) = 2
    OBVIOUS
  <1>2. owes \o <<a, b>> \in Seq(Nfc!PDU) /\ Len(owes \o <<a, b>>) = Len(owes) + 2
    BY <1>1, ConcatProperties
  <1>3. Append(owes, a) \in Seq(Nfc!PDU) /\ Len(Append(owes, a)) = Len(owes) + 1
    BY AppendProperties
  <1>4. owes # <<>> => /\ Head(owes) \in Nfc!PDU /\ Tail(owes) \in Seq(Nfc!PDU)
                       /\ Len(Tail(owes)) = Len(owes) - 1
    BY HeadTailProperties
  <1>5. Len(owes) \in Nat
    BY LenProperties
  <1> QED BY <1>2, <1>3, <1>4, <1>5

\* The end of a call.
LEMMA NfcReturns ==
  ASSUME NfcTurns, NEW r \in {"ok", "failed"}, Nfc!Return(r),
         mode' = mode, air' \in Nfc!PDU \cup {"none"}, turn' \in {"us", "peer"},
         owes' \in Seq(Nfc!PDU), Len(owes') <= 4, puts' \in {0, 1}
  PROVE  NfcTurns'
  <1>1. call' = "none" /\ npc' = <<"idle">> /\ result' = r /\ link' = FALSE
    BY DEF Nfc!Return
  <1>2. NfcTypes'
    BY <1>1 DEF NfcTurns, NfcTypes
  <1>3. PlacesOK' /\ Nfc!TurnsAlternate'
    BY <1>1 DEF PlacesOK, Nfc!TurnsAlternate
  <1> QED BY <1>2, <1>3 DEF NfcTurns

LEMMA OwesBound == ASSUME NfcTurns PROVE owes \in Seq(Nfc!PDU) /\ Len(owes) \in Nat /\ Len(owes) <= 4
  <1>1. Len(owes) \in Nat
    BY LenProperties DEF NfcTurns, NfcTypes
  <1> QED BY <1>1 DEF NfcTurns, NfcTypes, PlacesOK

\* With a failure a call returns, or, once the link is broken, goes on to the
\* answer.
LEMMA NfcFails ==
  ASSUME NfcTurns, Nfc!Fails, ~link \/ npc \notin Nfc!Getting, mode' = mode,
         air' \in Nfc!PDU \cup {"none"}, turn' = turn, owes' = owes, puts' = puts
  PROVE  NfcTurns'
  <1>1. CASE \E r \in {"ok", "failed"} : Nfc!Return(r)
    BY <1>1, NfcReturns, OwesBound DEF NfcTurns, NfcTypes
  <1>2. CASE call = "read" /\ npc \in Nfc!Getting /\ Nfc!GoOn(<<"symm_i">>)
    <2>1. npc' = <<"symm_i">> /\ call' = "read" /\ result' = result /\ link' = link /\ ~link
      BY <1>2 DEF Nfc!GoOn, Nfc!Getting, Nfc!Reads
    <2>2. npc \in Getting /\ npc \notin Waiting /\ npc \notin Answered
      BY <1>2 DEF Nfc!Getting, Getting, Waiting, Answered
    <2>3. NfcTypes'
      BY <1>2, <2>1 DEF NfcTurns, NfcTypes
    <2>4. mode = 1 /\ puts = 0 /\ Len(owes) <= 2
      BY <1>2, <2>2 DEF NfcTurns, PlacesOK
    <2>5. PlacesOK'
      BY <2>1, <2>4 DEF PlacesOK, Getting
    <2>6. Nfc!TurnsAlternate'
      BY <2>1 DEF Nfc!TurnsAlternate
    <2> QED BY <2>3, <2>5, <2>6 DEF NfcTurns
  <1> QED BY <1>1, <1>2 DEF Nfc!Fails

\* A call goes on to a place where it writes.
LEMMA NfcGoesOn ==
  ASSUME NfcTurns, call # "none", NEW p, NEW to \in Nfc!After(p), Nfc!GoOn(to),
         ~link \/ turn = "us", air' = "none", UNCHANGED <<mode, turn, owes, puts>>
  PROVE  NfcTurns'
  <1>1. npc' = to /\ UNCHANGED <<call, result, link>>
    BY DEF Nfc!GoOn
  <1>2. to \in Nfc!Writes
    BY AfterWrite, AfterRead DEF NfcTurns, NfcTypes
  <1>3. NfcTypes'
    BY <1>1 DEF NfcTurns, NfcTypes
  <1>4. PlacesOK'
    <2>1. CASE call = "write"
      <3>1. /\ npc \in Asking  => to \in Asking
            /\ npc \in Putting => to \in Putting
            /\ npc \in Done    => to \in Done
            /\ npc \in Leaving => to \in Leaving
        BY <2>1, AfterWrite DEF NfcTurns
      <3> QED BY <1>1, <2>1, <3>1 DEF NfcTurns, PlacesOK
    <2>2. CASE call = "read"
      <3>1. /\ npc \in Waiting  => to \in Waiting
            /\ npc \in Getting  => to \in Getting
            /\ npc \in Answered => to \in Answered
        BY <2>2, AfterRead DEF NfcTurns
      <3> QED BY <1>1, <2>2, <3>1 DEF NfcTurns, PlacesOK
    <2> QED BY <2>1, <2>2 DEF NfcTurns, NfcTypes
  <1>5. Nfc!TurnsAlternate'
    BY <1>1, <1>2 DEF Nfc!TurnsAlternate
  <1> QED BY <1>3, <1>4, <1>5 DEF NfcTurns

LEMMA NfcCall == ASSUME NfcTurns, NEW c \in {"write", "read"}, Nfc!Call(c) PROVE NfcTurns'
  <1>1. /\ call' = c /\ mode' = (IF c = "read" THEN 1 ELSE 0)
        /\ npc' = <<IF c = "read" THEN "connect" ELSE "symm_connect">>
        /\ link' = TRUE /\ air' = "none" /\ turn' = "peer" /\ result' = result
        /\ owes' = (IF c = "read" THEN <<"CONNECT">> ELSE <<>>) /\ puts' = 0
    BY DEF Nfc!Call
  <1>2. /\ <<"CONNECT">> \in Seq(Nfc!PDU) /\ Len(<<"CONNECT">>) = 1
        /\ <<>> \in Seq(Nfc!PDU) /\ Len(<<>>) = 0
    BY DEF Nfc!PDU
  <1>3. NfcTypes'
    BY <1>1, <1>2 DEF NfcTurns, NfcTypes
  <1>4. PlacesOK'
    BY <1>1, <1>2 DEF PlacesOK, Asking, Waiting
  <1>5. npc' \notin Nfc!Writes
    BY <1>1, TwoKinds DEF Nfc!Reads
  <1>6. Nfc!TurnsAlternate'
    BY <1>1, <1>5 DEF Nfc!TurnsAlternate
  <1> QED BY <1>3, <1>4, <1>6 DEF NfcTurns

\* What the peer sends before the link breaks is what read() waits for.
LEMMA FoundWhileUp ==
  ASSUME NfcTurns, MessageDue, call = "read", link, npc \in Nfc!Getting,
         npc[1] \in Nfc!Reads, air # "none"
  PROVE  Nfc!After(air) # {}
  <1>1. npc = <<"i">>
    BY DEF Nfc!Getting, Nfc!Reads
  <1>2. air \in {"SYMM", "I"} /\ mode = 1
    BY <1>1 DEF MessageDue, NfcTurns, PlacesOK
  <1>3. {<<"i", "SYMM", <<"SYMM", "i">>>>, <<"i", "I", <<"RR", "symm_i">>>>} \subseteq Nfc!Ways
    BY <1>2 DEF Nfc!Ways, Nfc!read
  <1>4. \E w \in Nfc!Ways : w[1] = npc[1] /\ w[2] = air
    BY <1>1, <1>2, <1>3
  <1> QED BY <1>4 DEF Nfc!After

LEMMA NfcRead == ASSUME NfcTurns, MessageDue, Nfc!Read PROVE NfcTurns'
  <1>1. /\ npc[1] \in Nfc!Reads /\ air # "none" /\ air' = "none"
        /\ (\E to \in Nfc!After(air) : Nfc!GoOn(to)) \/ (Nfc!After(air) = {} /\ Nfc!Fails)
        /\ UNCHANGED <<mode, turn, owes, puts>>
    BY DEF Nfc!Read, Nfc!peer
  <1>2. call # "none"
    BY <1>1, TwoKinds DEF NfcTurns, PlacesOK, Nfc!Reads
  <1>3. npc \notin Nfc!Writes
    BY <1>1, TwoKinds
  <1>4. ~link \/ turn = "us"
    BY <1>1, <1>3 DEF NfcTurns, Nfc!TurnsAlternate
  <1>5. CASE Nfc!After(air) = {} /\ Nfc!Fails
    <2>1. CASE link /\ npc \in Nfc!Getting
      <3>1. call # "read"
        BY <1>1, <1>5, <2>1, FoundWhileUp
      <3>2. \E r \in {"ok", "failed"} : Nfc!Return(r)
        BY <1>5, <3>1 DEF Nfc!Fails
      <3> QED BY <1>1, <3>2, NfcReturns, OwesBound DEF NfcTurns, NfcTypes
    <2>2. CASE ~link \/ npc \notin Nfc!Getting
      BY <1>1, <1>5, <2>2, NfcFails
    <2> QED BY <2>1, <2>2
  <1>6. CASE \E to \in Nfc!After(air) : Nfc!GoOn(to)
    BY <1>1, <1>2, <1>4, <1>6, NfcGoesOn
  <1> QED BY <1>1, <1>5, <1>6

LEMMA NfcReadFails == ASSUME NfcTurns, Nfc!ReadFails PROVE NfcTurns'
  <1>1. /\ npc[1] \in Nfc!Reads /\ ~link /\ air' = "none"
        /\ \/ \E p \in {"SYMM", "I"} : \E to \in Nfc!After(p) : Nfc!GoOn(to)
           \/ Nfc!Fails
        /\ UNCHANGED <<mode, turn, owes, puts>>
    BY DEF Nfc!ReadFails, Nfc!peer
  <1>2. call # "none"
    BY <1>1, TwoKinds DEF NfcTurns, PlacesOK, Nfc!Reads
  <1>3. CASE Nfc!Fails
    BY <1>1, <1>3, NfcFails
  <1>4. CASE \E p \in {"SYMM", "I"} : \E to \in Nfc!After(p) : Nfc!GoOn(to)
    BY <1>1, <1>2, <1>4, NfcGoesOn
  <1> QED BY <1>1, <1>3, <1>4

\* What the peer owes after a PDU, and how often it has got the message.
LEMMA PeerFacts ==
  ASSUME NfcTurns, NEW p \in Nfc!PDU, Nfc!PeerTakes(p), p = "I" => call \in {"write", "read"}
  PROVE  /\ owes' \in Seq(Nfc!PDU)
         /\ p \in {"SYMM", "RR", "DM"} => owes' = owes
         /\ p \in {"CONNECT", "CC", "DISC"} => Len(owes') = Len(owes) + 1
         /\ p = "I" => Len(owes') \in {Len(owes) + 1, Len(owes) + 2}
         /\ puts' = IF p = "I" /\ call = "write" THEN puts + 1 ELSE puts
  <1>1. owes \in Seq(Nfc!PDU) /\ {"CC", "I", "DM", "RR", "DISC"} \subseteq Nfc!PDU
    BY DEF NfcTurns, NfcTypes, Nfc!PDU
  <1>2. CASE p \in {"SYMM", "RR", "DM"}
    BY <1>1, <1>2 DEF Nfc!PeerTakes, Nfc!peer
  <1>3. CASE p \in {"CONNECT", "CC", "DISC"}
    <2>1. owes' \in {Append(owes, "CC"), Append(owes, "I"), Append(owes, "DM")} /\ puts' = puts
      BY <1>3 DEF Nfc!PeerTakes
    <2> QED BY <1>1, <1>3, <2>1, OwesFacts
  <1>4. CASE p = "I" /\ call = "write"
    <2>1. owes' \in {owes \o <<"RR", "I">>, Append(owes, "I")} /\ puts' = puts + 1
      BY <1>4 DEF Nfc!PeerTakes
    <2> QED BY <1>1, <1>4, <2>1, OwesFacts, SMTT(30)
  <1>5. CASE p = "I" /\ call = "read"
    <2>1. owes' = owes \o <<"RR", "DISC">> /\ puts' = puts
      BY <1>5 DEF Nfc!PeerTakes
    <2> QED BY <1>1, <1>5, <2>1, OwesFacts
  <1> QED BY <1>2, <1>3, <1>4, <1>5 DEF Nfc!PDU

\* Where a call is after it has written, when it does not return.
LEMMA AfterWritten ==
  ASSUME PlacesOK, call \in {"write", "read"}, npc \in Nfc!Writes
  PROVE  /\ call = "write" =>
              /\ <<npc[2]>> \in IF npc[1] = "CONNECT" THEN Putting
                                ELSE IF npc[1] = "I" THEN Done
                                ELSE IF npc[1] = "DISC" THEN Leaving
                                ELSE IF npc \in Asking THEN Asking
                                ELSE IF npc \in Putting THEN Putting
                                ELSE IF npc \in Done THEN Done ELSE Leaving
              /\ npc[1] \in {"SYMM", "CONNECT", "I", "RR", "DISC"}
              /\ npc \in Asking => npc[1] = "CONNECT"
              /\ npc \in Putting => npc[1] \in {"SYMM", "I"}
              /\ npc \in Done => npc[1] \in {"SYMM", "RR", "DISC"}
              /\ npc \in Leaving => npc[1] = "SYMM"
         /\ call = "read" =>
              /\ npc[2] # "return" =>
                   <<npc[2]>> \in IF npc[1] = "CC" THEN Getting
                                  ELSE IF npc[1] = "I" THEN Answered
                                  ELSE IF npc \in Waiting THEN Waiting
                                  ELSE IF npc \in Getting THEN Getting ELSE Answered
              /\ npc[1] \in {"SYMM", "CC", "I", "RR"}
              /\ npc \in Waiting => npc[1] \in {"SYMM", "CC"}
              /\ npc \in Getting => npc[1] \in {"SYMM", "RR", "I"}
              /\ npc \in Answered => npc[1] = "SYMM"
  <1>1. CASE call = "write"
    <2>1. npc \in {<<"CONNECT", "cc">>, <<"SYMM", "cc">>, <<"I", "rr">>, <<"SYMM", "rr">>,
                   <<"SYMM", "i">>, <<"RR", "symm_disc">>, <<"DISC", "dm">>, <<"SYMM", "dm">>}
      BY <1>1, TwoKinds DEF PlacesOK, Asking, Putting, Done, Leaving, Nfc!Reads
    <2> QED BY <1>1, <2>1 DEF Asking, Putting, Done, Leaving
  <1>2. CASE call = "read"
    <2>1. npc \in {<<"SYMM", "connect">>, <<"CC", "i">>, <<"SYMM", "i">>, <<"RR", "symm_i">>,
                   <<"I", "rr">>, <<"SYMM", "rr">>, <<"SYMM", "return">>}
      BY <1>2, TwoKinds DEF PlacesOK, Waiting, Getting, Answered, Nfc!Reads
    <2> QED BY <1>2, <2>1 DEF Waiting, Getting, Answered
  <1> QED BY <1>1, <1>2

LEMMA NfcWrite == ASSUME NfcTurns, Nfc!Write PROVE NfcTurns'
  <1>1. /\ npc \in Nfc!Writes /\ link /\ Nfc!PeerTakes(npc[1]) /\ turn' = "peer"
        /\ UNCHANGED <<mode, air>>
        /\ \/ npc[2] # "return" /\ npc' = <<npc[2]>> /\ UNCHANGED <<call, result, link>>
           \/ \E r \in {"ok", "failed"} : Nfc!Return(r)
    BY DEF Nfc!Write
  <1>2. call \in {"write", "read"} /\ npc[1] \in Nfc!PDU
    BY <1>1, TwoKinds DEF NfcTurns, NfcTypes, PlacesOK
  <1>3. /\ owes' \in Seq(Nfc!PDU)
        /\ npc[1] \in {"SYMM", "RR", "DM"} => owes' = owes
        /\ npc[1] \in {"CONNECT", "CC", "DISC"} => Len(owes') = Len(owes) + 1
        /\ npc[1] = "I" => Len(owes') \in {Len(owes) + 1, Len(owes) + 2}
        /\ puts' = IF npc[1] = "I" /\ call = "write" THEN puts + 1 ELSE puts
    BY <1>1, <1>2, PeerFacts
  <1>4. air = "none" /\ Len(owes) \in Nat
    BY <1>1, OwesBound DEF NfcTurns, Nfc!TurnsAlternate
  <1> DEFINE Moved(n) ==
        /\ call = "write" =>
             \/ npc \in Asking  /\ puts = 0 /\ puts' = 0 /\ n <= 1 /\ <<npc[2]>> \in Putting
             \/ npc \in Putting /\ puts = 0 /\ puts' = 0 /\ n <= 1 /\ <<npc[2]>> \in Putting
             \/ npc \in Putting /\ puts = 0 /\ puts' = 1 /\ n <= 3 /\ <<npc[2]>> \in Done
             \/ npc \in Done    /\ puts = 1 /\ puts' = 1 /\ n <= 3 /\ <<npc[2]>> \in Done
             \/ npc \in Done \cup Leaving
                                /\ puts = 1 /\ puts' = 1 /\ n <= 4 /\ <<npc[2]>> \in Leaving
        /\ call = "read" =>
             /\ puts' = 0
             /\ \/ n <= 1 /\ (npc[2] # "return" => <<npc[2]>> \in Waiting)
                \/ n <= 2 /\ (npc[2] # "return" => <<npc[2]>> \in Getting)
                \/ n <= 4 /\ (npc[2] # "return" => <<npc[2]>> \in Answered)
  <1>5. Moved(Len(owes'))
    <2>1. CASE call = "write"
      <3>1. /\ <<npc[2]>> \in IF npc[1] = "CONNECT" THEN Putting
                              ELSE IF npc[1] = "I" THEN Done
                              ELSE IF npc[1] = "DISC" THEN Leaving
                              ELSE IF npc \in Asking THEN Asking
                              ELSE IF npc \in Putting THEN Putting
                              ELSE IF npc \in Done THEN Done ELSE Leaving
            /\ npc \in Asking => npc[1] = "CONNECT"
            /\ npc \in Putting => npc[1] \in {"SYMM", "I"}
            /\ npc \in Done => npc[1] \in {"SYMM", "RR", "DISC"}
            /\ npc \in Leaving => npc[1] = "SYMM"
        BY <1>1, <1>2, <2>1, AfterWritten DEF NfcTurns
      <3>2. CASE npc \in Asking /\ puts = 0 /\ Len(owes) <= 0
        BY <1>3, <1>4, <2>1, <3>1, <3>2
      <3>3. CASE npc \in Putting /\ puts = 0 /\ Len(owes) <= 1
        <4>1. npc \notin Asking
          BY <3>3 DEF Asking, Putting
        <4> QED BY <1>3, <1>4, <2>1, <3>1, <3>3, <4>1
      <3>4. CASE npc \in Done /\ puts = 1 /\ Len(owes) <= 3
        <4>1. npc \notin Asking /\ npc \notin Putting
          BY <3>4 DEF Asking, Putting, Done
        <4> QED BY <1>3, <1>4, <2>1, <3>1, <3>4, <4>1
      <3>5. CASE npc \in Leaving /\ puts = 1 /\ Len(owes) <= 4
        <4>1. npc \notin Asking /\ npc \notin Putting /\ npc \notin Done
          BY <3>5 DEF Asking, Putting, Done, Leaving
        <4> QED BY <1>3, <1>4, <2>1, <3>1, <3>5, <4>1
      <3> QED BY <2>1, <3>2, <3>3, <3>4, <3>5 DEF NfcTurns, PlacesOK
    <2>2. CASE call = "read"
      <3>1. /\ npc[2] # "return" =>
                 <<npc[2]>> \in IF npc[1] = "CC" THEN Getting
                                ELSE IF npc[1] = "I" THEN Answered
                                ELSE IF npc \in Waiting THEN Waiting
                                ELSE IF npc \in Getting THEN Getting ELSE Answered
            /\ npc \in Waiting => npc[1] \in {"SYMM", "CC"}
            /\ npc \in Getting => npc[1] \in {"SYMM", "RR", "I"}
            /\ npc \in Answered => npc[1] = "SYMM"
            /\ puts = 0
        BY <1>1, <1>2, <2>2, AfterWritten DEF NfcTurns, PlacesOK
      <3>2. CASE npc \in Waiting /\ Len(owes) <= 1
        BY <1>3, <1>4, <2>2, <3>1, <3>2
      <3>3. CASE npc \in Getting /\ Len(owes) <= 2
        <4>1. npc \notin Waiting
          BY <3>3 DEF Waiting, Getting
        <4> QED BY <1>3, <1>4, <2>2, <3>1, <3>3, <4>1
      <3>4. CASE npc \in Answered /\ Len(owes) <= 4
        <4>1. npc \notin Waiting /\ npc \notin Getting
          BY <3>4 DEF Waiting, Getting, Answered
        <4> QED BY <1>3, <1>4, <2>2, <3>1, <3>4, <4>1
      <3> QED BY <2>2, <3>2, <3>3, <3>4 DEF NfcTurns, PlacesOK
    <2> QED BY <1>2, <2>1, <2>2
  <1>6. puts' \in {0, 1} /\ Len(owes') <= 4
    <2>1. Len(owes') \in Nat
      BY <1>3, LenProperties
    <2> QED BY <1>2, <1>5, <2>1
  <1>7. CASE \E r \in {"ok", "failed"} : Nfc!Return(r)
    BY <1>1, <1>3, <1>6, <1>7, NfcReturns DEF NfcTurns, NfcTypes
  <1>8. CASE npc[2] # "return" /\ npc' = <<npc[2]>> /\ UNCHANGED <<call, result, link>>
    <2>1. NfcTypes'
      BY <1>1, <1>3, <1>6, <1>8 DEF NfcTurns, NfcTypes
    <2>2. PlacesOK'
      <3>1. CASE call = "write"
        BY <1>1, <1>5, <1>8, <3>1 DEF NfcTurns, PlacesOK
      <3>2. CASE call = "read"
        BY <1>1, <1>5, <1>8, <3>2 DEF NfcTurns, PlacesOK
      <3> QED BY <1>2, <3>1, <3>2
    <2>3. npc' \notin Nfc!Writes
      <3>1. npc[2] \in Nfc!Reads
        BY <1>1, <1>8 DEF Nfc!Writes
      <3> QED BY <1>8, <3>1, TwoKinds
    <2>4. Nfc!TurnsAlternate'
      BY <1>1, <1>4, <2>3 DEF Nfc!TurnsAlternate
    <2> QED BY <2>1, <2>2, <2>4 DEF NfcTurns
  <1> QED BY <1>1, <1>7, <1>8

LEMMA TurnsStep == ASSUME NfcTurns, MessageDue, [Nfc!Next]_(Nfc!vars) PROVE NfcTurns'
  <1>1. CASE Nfc!WriteFails
    <2>1. Nfc!Fails /\ ~link /\ UNCHANGED <<mode, air, turn, owes, puts>>
      BY <1>1 DEF Nfc!WriteFails, Nfc!peer
    <2> QED BY <2>1, NfcFails DEF NfcTurns, NfcTypes
  <1>2. CASE Nfc!LinkBreaks
    <2>1. link' = FALSE /\ UNCHANGED <<call, npc, mode, result, air, turn, owes, puts>>
      BY <1>2 DEF Nfc!LinkBreaks, Nfc!us, Nfc!peer
    <2> QED BY <1>2, <2>1 DEF NfcTurns, NfcTypes, PlacesOK, Nfc!TurnsAlternate, Nfc!LinkBreaks
  <1>3. CASE Nfc!PeerIdles
    <2>1. /\ link /\ turn = "peer" /\ air' = "SYMM" /\ turn' = "us"
          /\ UNCHANGED <<call, npc, mode, result, owes, puts, link>>
      BY <1>3 DEF Nfc!PeerIdles, Nfc!us, Nfc!peer
    <2> QED BY <2>1 DEF NfcTurns, NfcTypes, PlacesOK, Nfc!TurnsAlternate, Nfc!PDU
  <1>4. CASE Nfc!PeerSends
    <2>1. /\ link /\ turn = "peer" /\ owes # <<>> /\ air' = Head(owes) /\ turn' = "us"
          /\ owes' = Tail(owes) /\ UNCHANGED <<call, npc, mode, result, puts, link>>
      BY <1>4 DEF Nfc!PeerSends, Nfc!us
    <2>2. /\ air' \in Nfc!PDU /\ owes' \in Seq(Nfc!PDU)
          /\ Len(owes) \in Nat /\ Len(owes') = Len(owes) - 1
      BY <2>1, OwesFacts DEF NfcTurns, NfcTypes, Nfc!PDU
    <2>3. NfcTypes'
      BY <2>1, <2>2 DEF NfcTurns, NfcTypes
    <2>4. PlacesOK'
      BY <2>1, <2>2 DEF NfcTurns, PlacesOK
    <2>5. air' # "none"
      BY <2>2 DEF Nfc!PDU
    <2>6. Nfc!TurnsAlternate'
      BY <2>1, <2>5 DEF NfcTurns, Nfc!TurnsAlternate
    <2> QED BY <2>3, <2>4, <2>6 DEF NfcTurns
  <1>5. CASE UNCHANGED Nfc!vars
    <2>1. UNCHANGED <<call, npc, mode, result, air, turn, owes, puts, link>>
      BY <1>5 DEF Nfc!vars, Nfc!us, Nfc!peer
    <2> QED BY <2>1 DEF NfcTurns, NfcTypes, PlacesOK, Nfc!TurnsAlternate
  <1> QED BY <1>1, <1>2, <1>3, <1>4, <1>5, NfcCall, NfcRead, NfcReadFails, NfcWrite DEF Nfc!Next

LEMMA DueStep == ASSUME NfcTurns, MessageDue, [Nfc!Next]_(Nfc!vars) PROVE MessageDue'
  <1> SUFFICES ASSUME call' = "read", link' PROVE MessageDue'
    BY DEF MessageDue
  <1>1. CASE \E c \in {"write", "read"} : Nfc!Call(c)
    <2>1. npc' = <<"connect">> /\ owes' = <<"CONNECT">> /\ air' = "none"
      BY <1>1 DEF Nfc!Call
    <2> QED BY <2>1 DEF MessageDue
  <1>2. CASE Nfc!Read
    <2>1. /\ npc[1] \in Nfc!Reads /\ air # "none" /\ air' = "none" /\ owes' = owes
          /\ (\E to \in Nfc!After(air) : Nfc!GoOn(to)) \/ (Nfc!After(air) = {} /\ Nfc!Fails)
      BY <1>2 DEF Nfc!Read, Nfc!peer
    <2>2. CASE Nfc!After(air) = {} /\ Nfc!Fails
      <3>1. call = "read" /\ npc \in Nfc!Getting /\ link
        BY <2>2 DEF Nfc!Fails, Nfc!Return, Nfc!GoOn
      <3> QED BY <2>1, <2>2, <3>1, FoundWhileUp
    <2>3. CASE \E to \in Nfc!After(air) : Nfc!GoOn(to)
      <3>1. PICK to \in Nfc!After(air) : npc' = to /\ call = "read" /\ link
        BY <2>3 DEF Nfc!GoOn
      <3>2. PICK w \in Nfc!Ways : w[1] = npc[1] /\ w[2] = air /\ to = w[3]
        BY DEF Nfc!After
      <3>3. mode = 1 /\ npc \in {<<"connect">>, <<"i">>, <<"symm_i">>, <<"rr">>}
        BY <2>1, <3>1, TwoKinds DEF NfcTurns, PlacesOK, Waiting, Getting, Answered, Nfc!Reads
      <3>4. /\ npc = <<"connect">> /\ air = "SYMM" => to = <<"SYMM", "connect">>
            /\ npc = <<"connect">> /\ air # "SYMM" => to = <<"CC", "i">> /\ air = "CONNECT"
            /\ npc = <<"i">> /\ air = "SYMM" => to = <<"SYMM", "i">>
            /\ npc = <<"i">> /\ air # "SYMM" => to = <<"RR", "symm_i">>
            /\ npc = <<"symm_i">> => to = <<"I", "rr">>
            /\ npc = <<"rr">> => to \in {<<"SYMM", "rr">>, <<"SYMM", "return">>}
        BY <3>2, <3>3 DEF Nfc!Ways, Nfc!connect, Nfc!waitForConnection, Nfc!write, Nfc!read,
                          Nfc!disconnect
      <3> QED BY <2>1, <3>1, <3>3, <3>4 DEF MessageDue
    <2> QED BY <2>1, <2>2, <2>3
  <1>3. CASE Nfc!ReadFails \/ Nfc!WriteFails
    <2>1. ~link /\ (Nfc!Fails \/ \E to : Nfc!GoOn(to))
      BY <1>3 DEF Nfc!ReadFails, Nfc!WriteFails
    <2> QED BY <2>1 DEF Nfc!Fails, Nfc!Return, Nfc!GoOn
  <1>4. CASE Nfc!Write
    <2>1. /\ npc \in Nfc!Writes /\ Nfc!PeerTakes(npc[1]) /\ air' = air
          /\ npc' = <<npc[2]>> /\ call = "read" /\ link
      BY <1>4 DEF Nfc!Write, Nfc!Return
    <2>2. air = "none"
      BY <2>1 DEF NfcTurns, Nfc!TurnsAlternate
    <2>3. npc \in {<<"SYMM", "connect">>, <<"CC", "i">>, <<"SYMM", "i">>, <<"RR", "symm_i">>,
                   <<"I", "rr">>, <<"SYMM", "rr">>, <<"SYMM", "return">>}
      BY <2>1, TwoKinds DEF NfcTurns, PlacesOK, Waiting, Getting, Answered, Nfc!Reads
    <2>4. CASE npc \in {<<"SYMM", "connect">>, <<"SYMM", "i">>}
      <3>1. owes' = owes
        BY <2>1, <2>4 DEF Nfc!PeerTakes, Nfc!peer
      <3> QED BY <2>1, <2>2, <2>4, <3>1 DEF MessageDue
    <2>5. CASE npc = <<"CC", "i">>
      <3>1. owes' = Append(owes, "I") /\ owes = <<>>
        BY <2>1, <2>5 DEF Nfc!PeerTakes, MessageDue
      <3>2. owes' = <<"I">>
        BY <3>1
      <3> QED BY <2>1, <2>2, <2>5, <3>2 DEF MessageDue
    <2>6. CASE npc \in {<<"RR", "symm_i">>, <<"I", "rr">>, <<"SYMM", "rr">>, <<"SYMM", "return">>}
      BY <2>1, <2>6 DEF MessageDue
    <2> QED BY <2>3, <2>4, <2>5, <2>6
  <1>5. CASE Nfc!LinkBreaks
    BY <1>5 DEF Nfc!LinkBreaks
  <1>6. CASE Nfc!PeerIdles
    BY <1>6 DEF Nfc!PeerIdles, Nfc!us, Nfc!peer, MessageDue
  <1>7. CASE Nfc!PeerSends
    <2>1. /\ owes # <<>> /\ air = "none" /\ air' = Head(owes) /\ owes' = Tail(owes)
          /\ npc' = npc /\ call = "read" /\ link
      BY <1>7 DEF Nfc!PeerSends, Nfc!us
    <2>2. \A x : Head(<<x>>) = x /\ Tail(<<x>>) = <<>>
      OBVIOUS
    <2> QED BY <2>1, <2>2 DEF MessageDue
  <1>8. CASE UNCHANGED Nfc!vars
    BY <1>8 DEF Nfc!vars, Nfc!us, Nfc!peer, MessageDue
  <1> QED BY <1>1, <1>2, <1>3, <1>4, <1>5, <1>6, <1>7, <1>8 DEF Nfc!Next

LEMMA NfcStep == ASSUME NfcInv, [Nfc!Next]_(Nfc!vars) PROVE NfcInv'
  BY TurnsStep, DueStep DEF NfcInv

LEMMA NfcInit == Nfc!Init => NfcInv
  <1>1. <<>> \in Seq(Nfc!PDU) /\ Len(<<>>) = 0
    OBVIOUS
  <1> SUFFICES ASSUME Nfc!Init PROVE NfcInv
    OBVIOUS
  <1>2. NfcTypes
    BY <1>1 DEF Nfc!Init, NfcTypes
  <1>3. PlacesOK /\ Nfc!TurnsAlternate
    BY <1>1 DEF Nfc!Init, PlacesOK, Nfc!TurnsAlternate
  <1>4. MessageDue
    BY DEF Nfc!Init, MessageDue
  <1> QED BY <1>2, <1>3, <1>4 DEF NfcInv, NfcTurns

LEMMA NfcInductive == Nfc!Spec => []NfcInv
  BY NfcInit, NfcStep, PTL DEF Nfc!Spec

LEMMA NfcTyped == NfcInv => Nfc!TypeOK
  <1> SUFFICES ASSUME NfcInv PROVE Nfc!TypeOK
    OBVIOUS
  <1>1. npc \in {<<"idle">>} \cup {<<r>> : r \in Nfc!Reads} \cup Nfc!Writes
    <2>1. CASE call = "none"
      BY <2>1 DEF NfcInv, NfcTurns, PlacesOK
    <2>2. CASE call \in {"write", "read"}
      BY <2>2, ReadPlace DEF NfcInv, NfcTurns
    <2> QED BY <2>1, <2>2 DEF NfcInv, NfcTurns, NfcTypes
  <1> QED BY <1>1, OwesBound DEF NfcInv, NfcTurns, NfcTypes, Nfc!TypeOK

\* TypeOK of LLCP.
THEOREM LlcpTypes == Nfc!Spec => []Nfc!TypeOK
  BY NfcTyped, NfcInductive, PTL

\* However many calls, wherever the link breaks, whatever the peer does with
\* its turns: turns alternate, and a message is put once.
THEOREM AgreementTheorem == Nfc!Spec => []Agreement
  <1>1. NfcInv => Agreement
    <2> SUFFICES ASSUME NfcInv PROVE Agreement
      OBVIOUS
    <2>1. puts <= 1
      BY DEF NfcInv, NfcTurns, NfcTypes
    <2>2. call = "write" /\ npc[1] = "symm_disc" => puts = 1
      BY DEF NfcInv, NfcTurns, PlacesOK, Asking, Putting, Done, Leaving
    <2> QED BY <2>1, <2>2 DEF NfcInv, NfcTurns, Agreement, Nfc!Agreement, Nfc!PutOnce
  <1> QED BY <1>1, NfcInductive, PTL

-----------------------------------------------------------------------------
(* SoftwareSerialESP *)

\* A place in the ring, counted from another.
PlaceOf(n) == IF n < BuffSize THEN n ELSE n - BuffSize

\* The n bytes of the ring from the place f on.
Stored(buf, f, n) == [k \in 1 .. n |-> buf[PlaceOf(f + k - 1)]]

\* How many there are from f to the place i where the next one goes.
From(f, i) == IF i >= f THEN i - f ELSE i - f + BuffSize

Amount == From(Serial!First, m_inPos)

SerialTypes ==
  /\ m_buffer \in [Serial!Slot -> SerialByte]
  /\ m_inPos \in Serial!Slot /\ m_outPos \in Serial!Slot /\ outWas \in Serial!Slot
  /\ m_rxValid \in BOOLEAN /\ edge \in BOOLEAN /\ ch \in SerialByte
  /\ spc \in {"idle", "checked", "loaded", "zeroIn", "zeroOut", "writing"}

\* Between the test of read() and its store there is a byte to read, and it
\* is the oldest; a pending edge has been let in because there was room.
CallsOK ==
  /\ spc \in {"checked", "loaded"} => m_inPos # m_outPos
  /\ spc = "loaded" => ch = m_buffer[m_outPos]
  /\ spc = "zeroIn" => m_outPos = 0
  /\ edge => spc = "writing" /\ Amount < BuffSize - 1

SerialInv == SerialTypes /\ CallsOK

LEMMA SerialConstants ==
  /\ BuffSize \in Nat /\ BuffSize > 0
  /\ 0 \in Serial!Slot
  /\ \A x \in Serial!Slot : x \in Nat /\ x < BuffSize
  /\ \A x \in Nat : x < BuffSize => x \in Serial!Slot
  BY PartAssumptions DEF Serial!ConstantsOK, Serial!Slot

LEMMA RingMod == ASSUME NEW x \in Nat, x < 2 * BuffSize PROVE x % BuffSize = PlaceOf(x)
  <1>1. BuffSize \in Nat /\ BuffSize > 0
    BY SerialConstants
  <1> QED BY <1>1 DEF PlaceOf

LEMMA IncIs == ASSUME NEW x \in Serial!Slot
               PROVE  Serial!Inc(x) = PlaceOf(x + 1) /\ Serial!Inc(x) \in Serial!Slot
  <1>1. x + 1 \in Nat /\ x + 1 < 2 * BuffSize
    BY SerialConstants
  <1> QED BY <1>1, RingMod, SerialConstants DEF Serial!Inc, PlaceOf

LEMMA RingIs ==
  ASSUME NEW buf, NEW f \in Serial!Slot, NEW i \in Serial!Slot
  PROVE  /\ From(f, i) \in 0 .. BuffSize - 1 /\ i = PlaceOf(f + From(f, i))
         /\ [k \in 1 .. (i + BuffSize - f) % BuffSize |-> buf[(f + k - 1) % BuffSize]]
            = Stored(buf, f, From(f, i))
  <1>1. From(f, i) \in 0 .. BuffSize - 1 /\ i = PlaceOf(f + From(f, i))
    BY SerialConstants DEF From, PlaceOf
  <1>2. (i + BuffSize - f) % BuffSize = From(f, i)
    <2>1. i + BuffSize - f \in Nat /\ i + BuffSize - f < 2 * BuffSize
      BY SerialConstants
    <2>2. (i + BuffSize - f) % BuffSize = PlaceOf(i + BuffSize - f)
      BY <2>1, RingMod
    <2> QED BY <2>2, SerialConstants DEF From, PlaceOf
  <1>3. \A k \in 1 .. From(f, i) : (f + k - 1) % BuffSize = PlaceOf(f + k - 1)
    <2>1. TAKE k \in 1 .. From(f, i)
    <2>2. f + k - 1 \in Nat /\ f + k - 1 < 2 * BuffSize
      BY <1>1, SerialConstants
    <2> QED BY <2>2, RingMod
  <1>4. [k \in 1 .. (i + BuffSize - f) % BuffSize |-> buf[(f + k - 1) % BuffSize]]
        = Stored(buf, f, From(f, i))
    BY <1>2, <1>3 DEF Stored
  <1> QED BY <1>1, <1>4

LEMMA UnreadIs ==
  ASSUME SerialTypes
  PROVE  /\ Serial!First \in Serial!Slot /\ Amount \in 0 .. BuffSize - 1
         /\ m_inPos = PlaceOf(Serial!First + Amount)
         /\ Serial!Unread = Stored(m_buffer, Serial!First, Amount)
  <1>1. Serial!First \in Serial!Slot /\ m_inPos \in Serial!Slot
    BY SerialConstants DEF SerialTypes, Serial!First
  <1> QED BY <1>1, RingIs DEF Amount, Serial!Unread

LEMMA UnreadNext ==
  ASSUME SerialTypes'
  PROVE  /\ Serial!First' \in Serial!Slot /\ Amount' \in 0 .. BuffSize - 1
         /\ Serial!Unread' = Stored(m_buffer', Serial!First', Amount')
  <1>1. Serial!First' \in Serial!Slot /\ m_inPos' \in Serial!Slot
    BY SerialConstants DEF SerialTypes, Serial!First, Serial!Slot
  <1> QED BY <1>1, RingIs DEF Amount, Serial!Unread

LEMMA StoredIs ==
  ASSUME NEW buf \in [Serial!Slot -> SerialByte], NEW f \in Serial!Slot,
         NEW n \in Nat, n < BuffSize
  PROVE  /\ \A k \in 1 .. n : PlaceOf(f + k - 1) \in Serial!Slot
         /\ Stored(buf, f, n) \in Seq(SerialByte) /\ Len(Stored(buf, f, n)) = n
         /\ n > 0 => Stored(buf, f, n)[1] = buf[f]
         /\ n = 0 => Stored(buf, f, n) = <<>>
  <1>1. \A k \in 1 .. n : PlaceOf(f + k - 1) \in Serial!Slot
    BY SerialConstants DEF PlaceOf
  <1>2. Stored(buf, f, n) \in [1 .. n -> SerialByte]
    BY <1>1 DEF Stored
  <1>3. Stored(buf, f, n) \in Seq(SerialByte) /\ Len(Stored(buf, f, n)) = n
    BY <1>2, SeqDef, LenProperties
  <1>4. n > 0 => Stored(buf, f, n)[1] = buf[f]
    <2>1. ASSUME n > 0 PROVE Stored(buf, f, n)[1] = buf[PlaceOf(f + 1 - 1)]
      BY <2>1 DEF Stored
    <2>2. PlaceOf(f + 1 - 1) = f
      BY SerialConstants DEF PlaceOf
    <2> QED BY <2>1, <2>2
  <1>5. n = 0 => Stored(buf, f, n) = <<>>
    BY <1>3, EmptySeq
  <1> QED BY <1>1, <1>3, <1>4, <1>5

LEMMA SameBytes ==
  ASSUME NEW s \in Seq(SerialByte), NEW t \in Seq(SerialByte), NEW n \in Nat,
         Len(s) = n, Len(t) = n, \A k \in 1 .. n : s[k] = t[k]
  PROVE  s = t
  BY SeqEqual

\* A byte put behind the others, and the oldest taken away.
LEMMA StoredGrows ==
  ASSUME NEW buf \in [Serial!Slot -> SerialByte], NEW f \in Serial!Slot,
         NEW n \in Nat, NEW m \in Nat, m = n + 1, m < BuffSize, NEW b \in SerialByte
  PROVE  Stored([buf EXCEPT ![PlaceOf(f + n)] = b], f, m) = Append(Stored(buf, f, n), b)
  <1> DEFINE new == [buf EXCEPT ![PlaceOf(f + n)] = b]
             old == Stored(buf, f, n)
             s   == Stored(new, f, m)
             t   == Append(old, b)
  <1>0. PlaceOf(f + n) \in Serial!Slot
    BY SerialConstants DEF PlaceOf
  <1>1. new \in [Serial!Slot -> SerialByte]
    BY <1>0
  <1>2. old \in Seq(SerialByte) /\ Len(old) = n
    BY StoredIs, SerialConstants
  <1>3. s \in Seq(SerialByte) /\ Len(s) = m
    <2> HIDE DEF new
    <2> QED BY <1>1, StoredIs
  <1>4. ASSUME NEW k \in 1 .. m PROVE s[k] = IF k <= n THEN old[k] ELSE b
    <2>1. s[k] = new[PlaceOf(f + k - 1)]
      BY DEF Stored
    <2>2. CASE k <= n
      <3>1. PlaceOf(f + k - 1) # PlaceOf(f + n) /\ PlaceOf(f + k - 1) \in Serial!Slot
        BY <2>2, SerialConstants DEF PlaceOf
      <3>2. old[k] = buf[PlaceOf(f + k - 1)]
        BY <2>2 DEF Stored
      <3> QED BY <2>1, <2>2, <3>1, <3>2
    <2>3. CASE k = n + 1
      <3>1. f + k - 1 = f + n
        BY <2>3, SerialConstants
      <3> QED BY <2>1, <2>3, <3>1, <1>0
    <2> QED BY <2>2, <2>3
  <1>5. t \in Seq(SerialByte) /\ Len(t) = m /\ \A k \in 1 .. m : t[k] = IF k <= n THEN old[k] ELSE b
    <2> HIDE DEF old
    <2> QED BY <1>2, AppendProperties
  <1>6. \A k \in 1 .. m : s[k] = t[k]
    BY <1>4, <1>5
  <1> HIDE DEF s, t
  <1>7. s = t
    BY <1>3, <1>5, <1>6, SameBytes
  <1> QED BY <1>7 DEF s, t

LEMMA StoredShrinks ==
  ASSUME NEW buf \in [Serial!Slot -> SerialByte], NEW f \in Serial!Slot,
         NEW n \in Nat, n < BuffSize, NEW m \in Nat, n = m + 1
  PROVE  Stored(buf, PlaceOf(f + 1), m) = SubSeq(Stored(buf, f, n), 2, n)
  <1> DEFINE old == Stored(buf, f, n)
             s   == Stored(buf, PlaceOf(f + 1), m)
             t   == SubSeq(old, 2, n)
  <1>1. old \in Seq(SerialByte) /\ Len(old) = n
    BY StoredIs
  <1>2. PlaceOf(f + 1) \in Serial!Slot
    BY SerialConstants DEF PlaceOf
  <1>3. s \in Seq(SerialByte) /\ Len(s) = m
    <2>1. PICK g \in Serial!Slot : g = PlaceOf(f + 1)
      BY <1>2
    <2>2. m < BuffSize
      BY SerialConstants
    <2>3. Stored(buf, g, m) \in Seq(SerialByte) /\ Len(Stored(buf, g, m)) = m
      BY <2>2, StoredIs
    <2> QED BY <2>1, <2>3
  <1>4. \A k \in 1 .. m : s[k] = old[k + 1]
    <2>1. TAKE k \in 1 .. m
    <2>2. PlaceOf(PlaceOf(f + 1) + k - 1) = PlaceOf(f + (k + 1) - 1)
      BY SerialConstants DEF PlaceOf
    <2> QED BY <2>2 DEF Stored
  <1>5. t \in Seq(SerialByte) /\ Len(t) = m /\ \A k \in 1 .. m : t[k] = old[k + 1]
    <2>0. \A k \in 2 .. n : old[k] \in SerialByte
      BY <1>1, ElementOfSeq
    <2> HIDE DEF old
    <2>1. t = [k \in 1 .. m |-> old[k + 1]]
      <3>1. SubSeq(old, 2, n) = [k \in 1 .. (1 + n - 2) |-> old[2 + k - 1]]
        OBVIOUS
      <3>2. 1 + n - 2 = m /\ \A k \in 1 .. m : 2 + k - 1 = k + 1
        OBVIOUS
      <3> QED BY <3>1, <3>2
    <2> HIDE DEF t
    <2>2. t \in [1 .. m -> SerialByte]
      <3>1. \A k \in 1 .. m : k + 1 \in 2 .. n
        OBVIOUS
      <3>2. \A k \in 1 .. m : old[k + 1] \in SerialByte
        BY <2>0, <3>1
      <3> QED BY <2>1, <3>2
    <2>3. t \in Seq(SerialByte) /\ Len(t) = m
      BY <2>2, SeqDef, LenProperties
    <2> QED BY <2>1, <2>3
  <1>6. \A k \in 1 .. m : s[k] = t[k]
    BY <1>4, <1>5
  <1> HIDE DEF s, t
  <1>7. s = t
    BY <1>3, <1>5, <1>6, SameBytes
  <1> QED BY <1>7 DEF s, t

LEMMA UnreadStays ==
  ASSUME m_buffer' = m_buffer, m_inPos' = m_inPos, Serial!First' = Serial!First
  PROVE  Serial!Unread' = Serial!Unread /\ Amount' = Amount
  BY DEF Serial!Unread, Amount

\* The handler stores a byte behind the others, where no call of the sketch
\* looks, if there is room for it.
LEMMA RxStores ==
  ASSUME SerialTypes, Amount < BuffSize - 1, NEW b \in SerialByte, Serial!rxRead(b)
  PROVE  /\ m_buffer' = [m_buffer EXCEPT ![m_inPos] = b] /\ in' = <<b>>
         /\ m_inPos' = PlaceOf(m_inPos + 1)
         /\ m_buffer' \in [Serial!Slot -> SerialByte] /\ m_inPos' \in Serial!Slot
         /\ m_inPos' # Serial!First
         /\ \A x \in Serial!Slot : x # m_inPos => m_buffer'[x] = m_buffer[x]
  <1>1. m_inPos \in Serial!Slot /\ m_buffer \in [Serial!Slot -> SerialByte]
    BY DEF SerialTypes
  <1>2. Serial!Inc(m_inPos) = PlaceOf(m_inPos + 1) /\ Serial!Inc(m_inPos) \in Serial!Slot
    BY <1>1, IncIs
  <1>3. PlaceOf(m_inPos + 1) # m_inPos /\ PlaceOf(m_inPos + 1) # Serial!First
    BY <1>1, UnreadIs, SerialConstants DEF PlaceOf
  <1>4. Serial!Stores(Serial!Inc(m_inPos))
    BY <1>2, <1>3 DEF Serial!Stores
  <1> QED BY <1>1, <1>2, <1>3, <1>4 DEF Serial!rxRead

LEMMA Received ==
  ASSUME SerialTypes, SerialTypes', Amount < BuffSize - 1, NEW b \in SerialByte,
         Serial!rxRead(b), Serial!First' = Serial!First
  PROVE  Serial!Unread' = Append(Serial!Unread, b)
  <1>1. /\ m_buffer' = [m_buffer EXCEPT ![m_inPos] = b]
        /\ m_inPos' = PlaceOf(m_inPos + 1) /\ m_inPos' # Serial!First
    BY RxStores
  <1>2. /\ Serial!First \in Serial!Slot /\ Amount \in Nat /\ m_inPos = PlaceOf(Serial!First + Amount)
        /\ Serial!Unread = Stored(m_buffer, Serial!First, Amount)
    BY UnreadIs, SerialConstants
  <1>3. Serial!Unread' = Stored(m_buffer', Serial!First, Amount')
    BY UnreadNext
  <1>4. Amount' = Amount + 1 /\ Amount + 1 < BuffSize
    BY <1>1, <1>2, SerialConstants DEF Amount, From, PlaceOf, SerialTypes
  <1>5. Stored([m_buffer EXCEPT ![PlaceOf(Serial!First + Amount)] = b], Serial!First, Amount')
        = Append(Stored(m_buffer, Serial!First, Amount), b)
    <2>1. PICK f \in Serial!Slot, n \in Nat, m \in Nat : f = Serial!First /\ n = Amount /\ m = Amount'
      BY <1>2, <1>4
    <2>2. m_buffer \in [Serial!Slot -> SerialByte] /\ m = n + 1 /\ m < BuffSize
      BY <1>4, <2>1 DEF SerialTypes
    <2>3. Stored([m_buffer EXCEPT ![PlaceOf(f + n)] = b], f, m) = Append(Stored(m_buffer, f, n), b)
      BY <2>2, StoredGrows
    <2> QED BY <2>1, <2>3
  <1> QED BY <1>1, <1>2, <1>3, <1>5

\* What a byte received does to the queue.
LEMMA OfferOne ==
  ASSUME SerialTypes, SerialTypes', Amount < BuffSize - 1, NEW b \in SerialByte,
         Serial!rxRead(b), Serial!First' = Serial!First, out' = out
  PROVE  Serial!Queue!Next
  <1> DEFINE s == <<b>>
             room == BuffSize - 1 - Len(Serial!Unread)
  <1>1. Serial!Unread \in Seq(SerialByte) /\ Len(Serial!Unread) = Amount /\ Amount \in Nat
    <2>1. PICK f \in Serial!Slot, n \in Nat : f = Serial!First /\ n = Amount
      BY UnreadIs, SerialConstants
    <2>2. n < BuffSize /\ m_buffer \in [Serial!Slot -> SerialByte]
      BY <2>1, SerialConstants DEF SerialTypes
    <2> QED BY <2>1, <2>2, StoredIs, UnreadIs
  <1>2. Serial!Queue!Min({1, room}) = 1
    <2>1. room \in Int /\ 1 <= room
      BY <1>1, SerialConstants
    <2> HIDE DEF room
    <2>2. \A x \in {1, room} : (\A y \in {1, room} : x <= y) => x = 1
      BY <2>1
    <2>3. 1 \in {1, room} /\ \A y \in {1, room} : 1 <= y
      BY <2>1
    <2> QED BY <2>2, <2>3 DEF Serial!Queue!Min
  <1>3. s \in Seq(SerialByte) /\ Len(s) = 1 /\ SubSeq(s, 1, 1) = s
    <2>1. s \in Seq(SerialByte) /\ Len(s) = 1
      OBVIOUS
    <2> QED BY <2>1, SubSeqFull
  <1>4. Append(Serial!Unread, b) = Serial!Unread \o s
    BY <1>1
  <1>5. Serial!Unread' = Serial!Unread \o SubSeq(s, 1, Serial!Queue!Min({Len(s), room}))
    BY <1>2, <1>3, <1>4, Received
  <1>6. in' = s
    BY RxStores
  <1>7. s \in Serial!Queue!Chunk
    <2>1. s \in [1 .. 1 -> SerialByte]
      OBVIOUS
    <2> QED BY <2>1 DEF Serial!Queue!Chunk
  <1> QED BY <1>5, <1>6, <1>7 DEF Serial!Queue!Next, Serial!Queue!Offer

\* The room the sketch leaves when it keeps up.
LEMMA RoomIs == ASSUME KeepsUp = TRUE, SerialTypes, Serial!Room PROVE Amount < BuffSize - 1
  <1>1. PICK f \in Serial!Slot, n \in Nat : f = Serial!First /\ n = Amount
    BY UnreadIs, SerialConstants
  <1>2. n < BuffSize /\ m_buffer \in [Serial!Slot -> SerialByte]
    BY <1>1, UnreadIs, SerialConstants DEF SerialTypes
  <1>3. Len(Serial!Unread) = Amount
    BY <1>1, <1>2, StoredIs, UnreadIs
  <1> QED BY <1>3 DEF Serial!Room

LEMMA SerialReceive ==
  ASSUME KeepsUp = TRUE, SerialInv, NEW b \in SerialByte, Serial!Receive(b)
  PROVE  SerialInv' /\ Serial!Queue!Next
  <1>1. /\ spc # "writing" /\ Serial!rxRead(b) /\ Amount < BuffSize - 1
        /\ UNCHANGED <<m_outPos, m_rxValid, spc, ch, outWas, edge, out>>
    BY RoomIs DEF Serial!Receive, Serial!call, SerialInv
  <1>2. /\ m_buffer' \in [Serial!Slot -> SerialByte] /\ m_inPos' \in Serial!Slot
        /\ m_inPos' # Serial!First
        /\ \A x \in Serial!Slot : x # m_inPos => m_buffer'[x] = m_buffer[x]
    BY <1>1, RxStores DEF SerialInv
  <1>3. SerialTypes'
    BY <1>1, <1>2 DEF SerialInv, SerialTypes
  <1>4. CallsOK'
    BY <1>1, <1>2 DEF SerialInv, SerialTypes, CallsOK, Serial!First
  <1>5. Serial!First' = Serial!First
    BY <1>1 DEF Serial!First
  <1> QED BY <1>1, <1>3, <1>4, <1>5, OfferOne DEF SerialInv

LEMMA SerialReadStore ==
  ASSUME SerialInv, Serial!ReadStore PROVE SerialInv' /\ Serial!Queue!Next
  <1>1. /\ spc = "loaded" /\ m_outPos' = Serial!Inc(m_outPos) /\ out' = <<ch>> /\ spc' = "idle"
        /\ UNCHANGED <<m_buffer, m_inPos, m_rxValid, ch, outWas, edge, in>>
    BY DEF Serial!ReadStore
  <1>2. /\ Serial!First = m_outPos /\ Serial!First' = m_outPos' /\ m_inPos # m_outPos
        /\ ch = m_buffer[m_outPos] /\ ~edge
    BY <1>1 DEF Serial!First, SerialInv, CallsOK
  <1>3. m_outPos' = PlaceOf(m_outPos + 1) /\ m_outPos' \in Serial!Slot
    <2>1. m_outPos \in Serial!Slot
      BY DEF SerialInv, SerialTypes
    <2> QED BY <1>1, <2>1, IncIs
  <1>4. SerialTypes'
    BY <1>1, <1>3 DEF SerialInv, SerialTypes
  <1>5. CallsOK'
    BY <1>1, <1>2 DEF CallsOK
  <1>6. PICK n \in Nat, m \in Nat :
          n = Amount /\ m = Amount' /\ n = m + 1 /\ n > 0 /\ 1 <= n /\ n < BuffSize
    <2>1. m_outPos \in Serial!Slot /\ m_inPos \in Serial!Slot
      BY DEF SerialInv, SerialTypes
    <2>2. /\ Amount \in Nat /\ Amount' \in Nat
          /\ Amount = Amount' + 1 /\ Amount > 0 /\ 1 <= Amount /\ Amount < BuffSize
      BY <1>1, <1>2, <1>3, <2>1, SerialConstants DEF Amount, From, PlaceOf
    <2> QED BY <2>2
  <1>7. PICK f \in Serial!Slot, q \in Seq(SerialByte) :
          /\ f = m_outPos /\ q = Stored(m_buffer, f, n) /\ q = Serial!Unread
          /\ Len(q) = n /\ q[1] = ch
    <2>1. m_outPos \in Serial!Slot /\ m_buffer \in [Serial!Slot -> SerialByte]
      BY DEF SerialInv, SerialTypes
    <2>2. PICK f \in Serial!Slot : f = m_outPos
      BY <2>1
    <2>3. n > 0 /\ n < BuffSize
      BY <1>6
    <2>4. /\ Stored(m_buffer, f, n) \in Seq(SerialByte) /\ Len(Stored(m_buffer, f, n)) = n
          /\ Stored(m_buffer, f, n)[1] = m_buffer[f]
      BY <2>1, <2>3, StoredIs
    <2> QED BY <1>2, <1>6, <2>2, <2>4, UnreadIs DEF SerialInv
  <1>8. Serial!Unread' = SubSeq(q, 2, Len(q))
    <2>1. m_buffer \in [Serial!Slot -> SerialByte]
      BY DEF SerialInv, SerialTypes
    <2>0. n = m + 1 /\ n < BuffSize
      BY <1>6
    <2>2. Stored(m_buffer, PlaceOf(f + 1), m) = SubSeq(Stored(m_buffer, f, n), 2, n)
      BY <2>0, <2>1, StoredShrinks
    <2> QED BY <1>1, <1>2, <1>3, <1>4, <1>6, <1>7, <2>2, UnreadNext
  <1>9. out' = SubSeq(q, 1, 1)
    <2>1. 1 \in 1 .. Len(q)
      BY <1>6, <1>7
    <2>2. SubSeq(q, 1, 1) = SubSeq(q, 1, 0) \o <<q[1]>> /\ SubSeq(q, 1, 0) = <<>>
      BY <2>1, SubSeqRecursiveSecond
    <2>3. <<q[1]>> \in Seq(SerialByte)
      BY <2>1, ElementOfSeq
    <2> QED BY <1>1, <1>7, <2>2, <2>3, ConcatEmptySeq
  <1>10. Serial!Queue!Get(1)
    <2>1. 1 <= Len(Serial!Unread)
      BY <1>6, <1>7
    <2>2. 1 + 1 = 2
      OBVIOUS
    <2> QED BY <1>1, <1>7, <1>8, <1>9, <2>1, <2>2 DEF Serial!Queue!Get
  <1> QED BY <1>4, <1>5, <1>10 DEF SerialInv, Serial!Queue!Next

\* A ring that begins where it ends is empty.
LEMMA Emptied ==
  ASSUME SerialTypes', m_inPos' = Serial!First' PROVE Serial!Unread' = <<>>
  <1>1. PICK f \in Serial!Slot, n \in Nat : f = Serial!First' /\ n = Amount'
    BY UnreadNext, SerialConstants
  <1>2. n = 0
    BY <1>1, SerialConstants DEF Amount, From
  <1>3. m_buffer' \in [Serial!Slot -> SerialByte]
    BY DEF SerialTypes
  <1>4. Stored(m_buffer', f, n) = <<>>
    BY <1>2, <1>3, SerialConstants, StoredIs
  <1> QED BY <1>1, <1>4, UnreadNext

LEMMA SerialFlush ==
  ASSUME SerialInv, Serial!FlushFirst \/ Serial!FlushSecond
  PROVE  SerialInv' /\ [Serial!Queue!Next]_(Serial!Queue!vars)
  <1>1. UNCHANGED <<m_buffer, m_rxValid, ch, edge, in, out>>
    BY DEF Serial!FlushFirst, Serial!FlushSecond
  <1>2. SerialTypes'
    BY <1>1, SerialConstants
       DEF SerialInv, SerialTypes, Serial!FlushFirst, Serial!FlushSecond
  <1>3. CallsOK'
    BY <1>1 DEF SerialInv, CallsOK, Serial!FlushFirst, Serial!FlushSecond
  <1>4. \/ m_inPos' = m_inPos /\ Serial!First' = Serial!First
        \/ m_inPos' = Serial!First'
    BY DEF Serial!FlushFirst, Serial!FlushSecond, Serial!First, SerialInv, CallsOK
  <1>5. CASE m_inPos' = m_inPos /\ Serial!First' = Serial!First
    <2>1. Serial!Unread' = Serial!Unread
      BY <1>1, <1>5, UnreadStays
    <2> QED BY <1>1, <1>2, <1>3, <2>1 DEF SerialInv, Serial!Queue!vars
  <1>6. CASE m_inPos' = Serial!First'
    <2>1. Serial!Unread' = <<>>
      BY <1>2, <1>6, Emptied
    <2>2. Serial!Queue!Clear
      BY <1>1, <2>1 DEF Serial!Queue!Clear
    <2> QED BY <1>2, <1>3, <2>2 DEF SerialInv, Serial!Queue!Next
  <1> QED BY <1>4, <1>5, <1>6

LEMMA SerialWriteEnd ==
  ASSUME SerialInv, Serial!WriteEnd
  PROVE  SerialInv' /\ [Serial!Queue!Next]_(Serial!Queue!vars)
  <1>1. /\ spc = "writing" /\ spc' = "idle" /\ edge' = FALSE
        /\ UNCHANGED <<m_outPos, m_rxValid, ch, outWas, out>>
        /\ \/ UNCHANGED <<m_buffer, m_inPos, in>>
           \/ edge /\ \E b \in SerialByte : Serial!rxRead(b)
    BY DEF Serial!WriteEnd
  <1>2. Serial!First' = Serial!First
    BY <1>1 DEF Serial!First
  <1>3. CallsOK'
    BY <1>1 DEF CallsOK
  <1>4. CASE UNCHANGED <<m_buffer, m_inPos, in>>
    <2>1. SerialTypes'
      BY <1>1, <1>4 DEF SerialInv, SerialTypes
    <2>2. Serial!Unread' = Serial!Unread
      BY <1>2, <1>4, UnreadStays
    <2> QED BY <1>1, <1>3, <1>4, <2>1, <2>2 DEF SerialInv, Serial!Queue!vars
  <1>5. CASE edge /\ \E b \in SerialByte : Serial!rxRead(b)
    <2>1. PICK b \in SerialByte : Serial!rxRead(b)
      BY <1>5
    <2>2. SerialTypes /\ Amount < BuffSize - 1
      BY <1>5 DEF SerialInv, CallsOK
    <2>3. m_buffer' \in [Serial!Slot -> SerialByte] /\ m_inPos' \in Serial!Slot
      BY <2>1, <2>2, RxStores
    <2>4. SerialTypes'
      BY <1>1, <2>3 DEF SerialInv, SerialTypes
    <2> QED BY <1>1, <1>2, <1>3, <2>1, <2>2, <2>4, OfferOne DEF SerialInv
  <1> QED BY <1>1, <1>4, <1>5

\* The rest of the sketch, and an edge that waits.
LEMMA SerialQuiet ==
  ASSUME KeepsUp = TRUE, SerialInv,
         \/ Serial!ReadCheck \/ Serial!ReadLoad \/ Serial!WriteBegin \/ Serial!BeginInvalid
         \/ Serial!LateEdge \/ UNCHANGED Serial!vars
  PROVE  SerialInv' /\ UNCHANGED Serial!Queue!vars
  <1>1. /\ UNCHANGED <<m_buffer, m_inPos, m_outPos, outWas, in, out>>
        /\ Serial!First' = Serial!First
        /\ spc' \in {spc, "checked", "loaded", "writing"}
        /\ m_rxValid' \in {m_rxValid, FALSE} /\ edge' \in {edge, TRUE}
        /\ ch' \in {ch, m_buffer[m_outPos]}
    BY DEF Serial!ReadCheck, Serial!ReadLoad, Serial!WriteBegin, Serial!BeginInvalid,
           Serial!LateEdge, Serial!vars, Serial!positions, Serial!call, Serial!First
  <1>2. Serial!Unread' = Serial!Unread /\ Amount' = Amount
    BY <1>1, UnreadStays
  <1>3. SerialTypes'
    BY <1>1 DEF SerialInv, SerialTypes
  <1>4. CallsOK'
    <2>1. CASE Serial!LateEdge
      <3>1. Amount < BuffSize - 1 /\ spc = "writing" /\ UNCHANGED <<spc, ch>>
        BY <2>1, RoomIs DEF Serial!LateEdge, Serial!call, SerialInv
      <3> QED BY <1>1, <1>2, <3>1 DEF SerialInv, CallsOK
    <2>2. CASE UNCHANGED Serial!vars
      <3>1. UNCHANGED <<spc, ch, edge>>
        BY <2>2 DEF Serial!vars, Serial!call
      <3> QED BY <1>1, <1>2, <3>1 DEF SerialInv, CallsOK
    <2>3. CASE Serial!BeginInvalid
      <3>1. UNCHANGED <<spc, ch, edge>>
        BY <2>3 DEF Serial!BeginInvalid, Serial!call
      <3> QED BY <1>1, <1>2, <3>1 DEF SerialInv, CallsOK
    <2>4. CASE Serial!ReadCheck \/ Serial!ReadLoad \/ Serial!WriteBegin
      <3>1. edge' = edge /\ ~edge
        BY <2>4 DEF Serial!ReadCheck, Serial!ReadLoad, Serial!WriteBegin, SerialInv, CallsOK
      <3> QED BY <1>1, <2>4, <3>1
              DEF SerialInv, CallsOK, Serial!ReadCheck, Serial!ReadLoad, Serial!WriteBegin
    <2> QED BY <2>1, <2>2, <2>3, <2>4
  <1> QED BY <1>1, <1>2, <1>3, <1>4 DEF SerialInv, Serial!Queue!vars

LEMMA SerialStep ==
  ASSUME KeepsUp = TRUE, SerialInv, [Serial!Next]_(Serial!vars)
  PROVE  SerialInv' /\ [Serial!Queue!Next]_(Serial!Queue!vars)
  BY SerialReceive, SerialReadStore, SerialFlush, SerialWriteEnd, SerialQuiet
     DEF Serial!Next, Serial!Sketch

LEMMA SerialBegins == Serial!Init => SerialInv /\ Serial!Queue!Init
  <1> SUFFICES ASSUME Serial!Init PROVE SerialInv /\ Serial!Queue!Init
    OBVIOUS
  <1>1. PICK b \in SerialByte : m_buffer = [s \in Serial!Slot |-> b] /\ ch = b
    BY DEF Serial!Init
  <1>2. /\ m_inPos = 0 /\ m_outPos = 0 /\ m_rxValid = TRUE /\ spc = "idle" /\ outWas = 0
        /\ edge = FALSE /\ in = <<>> /\ out = <<>>
    BY DEF Serial!Init
  <1>3. SerialInv
    BY <1>1, <1>2, SerialConstants DEF SerialInv, SerialTypes, CallsOK
  <1>4. Serial!Unread = <<>>
    <2>1. PICK f \in Serial!Slot, n \in Nat : f = Serial!First /\ n = Amount
      BY <1>3, UnreadIs, SerialConstants DEF SerialInv
    <2>2. n = 0
      BY <1>2, <2>1 DEF Amount, From, Serial!First
    <2>3. m_buffer \in [Serial!Slot -> SerialByte]
      BY <1>1
    <2>4. Stored(m_buffer, f, n) = <<>>
      BY <2>2, <2>3, SerialConstants, StoredIs
    <2> QED BY <1>3, <2>1, <2>4, UnreadIs DEF SerialInv
  <1> QED BY <1>2, <1>3, <1>4 DEF Serial!Queue!Init

\* TypeOK of SoftwareSerialESP.
THEOREM SerialIsTyped == ASSUME KeepsUp = TRUE PROVE Serial!Spec => []Serial!TypeOK
  <1>1. SerialInv => Serial!TypeOK
    BY DEF SerialInv, SerialTypes, Serial!TypeOK
  <1>2. SerialInv /\ [Serial!Next]_(Serial!vars) => SerialInv'
    BY SerialStep
  <1> QED BY <1>1, <1>2, SerialBegins, PTL DEF Serial!Spec

\* For every size of the buffer, with a sketch that keeps up: the port is a
\* queue of BuffSize - 1 bytes, wherever the interrupt falls.
THEOREM SerialQueueTheorem == ASSUME KeepsUp = TRUE PROVE Serial!Spec => SerialIsQueue
  <1>1. SerialInv /\ [Serial!Next]_(Serial!vars)
          => SerialInv' /\ [Serial!Queue!Next]_(Serial!Queue!vars)
    BY SerialStep
  <1> QED BY <1>1, SerialBegins, PTL
          DEF Serial!Spec, SerialIsQueue, Serial!ImplementsFifo, Serial!Queue!Spec

-----------------------------------------------------------------------------
(* Induction *)

\* The finite sets of numbers below n shrink with n, so no set of numbers is
\* without a least one.
LEMMA SetInduction ==
  ASSUME NEW S, 0 \in S, \A n \in Nat : n \in S => n + 1 \in S
  PROVE  \A n \in Nat : n \in S
  <1> SUFFICES ASSUME NEW k \in Nat, k \notin S PROVE FALSE
    OBVIOUS
  <1> DEFINE Below(n) == 0 .. n - 1
             U == {Below(n) : n \in Nat \ S}
             R == StrictSubsetOrdering(Nat)
  <1>1. U \subseteq FiniteSubsetsOf(Nat)
    <2>1. \A n \in Nat : IsFiniteSet(Below(n)) /\ Below(n) \subseteq Nat
      BY FS_Interval
    <2> QED BY <2>1 DEF FiniteSubsetsOf
  <1>2. Below(k) \in U
    OBVIOUS
  <1>3. PICK x \in U : \A y \in U : ~(<<y, x>> \in R)
    <2>1. IsWellFoundedOn(R, FiniteSubsetsOf(Nat))
      BY FS_StrictSubsetOrderingWellFounded
    <2>2. U # {}
      BY <1>2
    <2> HIDE DEF U, R
    <2> QED BY <1>1, <2>1, <2>2, WFMin
  <1>4. PICK m \in Nat \ S : x = Below(m)
    BY <1>3
  <1>5. m - 1 \in Nat \ S /\ m > 0
    <2>1. m # 0
      OBVIOUS
    <2>2. PICK j \in Nat : m = j + 1
      BY <2>1
    <2> QED BY <2>2
  <1>6. Below(m - 1) \in U
    BY <1>5
  <1>7. <<Below(m - 1), x>> \in R
    <2>1. Below(m - 1) \subseteq Below(m) /\ Below(m) \subseteq Nat
      BY <1>5
    <2>2. m - 1 \in Below(m) /\ m - 1 \notin Below(m - 1)
      BY <1>5
    <2> QED BY <1>4, <2>1, <2>2 DEF StrictSubsetOrdering
  <1> QED BY <1>3, <1>6, <1>7

-----------------------------------------------------------------------------
(* RunningAverage *)

\* The sums of the first values of a sequence, as Total defines them.
IsSums(f, s) == f = [i \in 0 .. Len(s) |-> IF i = 0 THEN 0 ELSE f[i - 1] + s[i]]

\* The sums of the first k values exist.
LEMMA SumsExist == ASSUME NEW s \in Seq(Int) PROVE \E f : IsSums(f, s)
  <1> DEFINE Step(f, i) == IF i = 0 THEN 0 ELSE f[i - 1] + s[i]
             Have(k) == \E f : f = [i \in 0 .. k |-> Step(f, i)]
             S == {k \in Nat : Have(k)}
  <1>1. 0 \in S
    <2> DEFINE f == [i \in 0 .. 0 |-> 0]
    <2>1. f = [i \in 0 .. 0 |-> Step(f, i)]
      OBVIOUS
    <2>2. Have(0)
      BY <2>1
    <2> HIDE DEF Have
    <2> QED BY <2>2
  <1>2. ASSUME NEW k \in Nat, k \in S PROVE k + 1 \in S
    <2>1. PICK f : f = [i \in 0 .. k |-> Step(f, i)]
      BY <1>2
    <2> DEFINE g == [i \in 0 .. k + 1 |-> IF i <= k THEN f[i] ELSE f[k] + s[k + 1]]
    <2>2. \A i \in 0 .. k + 1 : g[i] = Step(g, i)
      <3>1. TAKE i \in 0 .. k + 1
      <3>2. CASE i = 0
        BY <2>1, <3>2
      <3>3. CASE i > 0 /\ i <= k
        <4>1. g[i] = f[i] /\ g[i - 1] = f[i - 1] /\ f[i] = Step(f, i)
          BY <2>1, <3>3
        <4> QED BY <3>3, <4>1
      <3>4. CASE i = k + 1
        <4>1. g[i] = f[k] + s[k + 1] /\ g[i - 1] = f[k]
          BY <3>4
        <4> QED BY <3>4, <4>1
      <3> QED BY <3>2, <3>3, <3>4
    <2>3. g = [i \in 0 .. k + 1 |-> g[i]]
      OBVIOUS
    <2>4. g = [i \in 0 .. k + 1 |-> Step(g, i)]
      BY <2>2, <2>3
    <2> HIDE DEF g
    <2>5. Have(k + 1)
      BY <2>4, Zenon
    <2> HIDE DEF Have
    <2> QED BY <2>5
  <1>3. Len(s) \in Nat
    BY LenProperties
  <1>4. Len(s) \in S
    <2> HIDE DEF S
    <2> QED BY <1>1, <1>2, <1>3, SetInduction
  <1> QED BY <1>4 DEF IsSums

\* They are numbers, and those of two sequences that begin alike agree.
LEMMA SumsAgree ==
  ASSUME NEW s \in Seq(Int), NEW t \in Seq(Int), NEW f, NEW g, IsSums(f, s), IsSums(g, t),
         Len(s) <= Len(t), \A i \in 1 .. Len(s) : s[i] = t[i]
  PROVE  \A i \in 0 .. Len(s) : f[i] \in Int /\ g[i] = f[i]
  <1> DEFINE S == {k \in Nat : k <= Len(s) => f[k] \in Int /\ g[k] = f[k]}
  <1>0. Len(s) \in Nat /\ Len(t) \in Nat
    BY LenProperties
  <1>1. 0 \in S
    BY <1>0 DEF IsSums
  <1>2. ASSUME NEW k \in Nat, k \in S PROVE k + 1 \in S
    <2>1. SUFFICES ASSUME k + 1 <= Len(s)
                   PROVE  f[k + 1] \in Int /\ g[k + 1] = f[k + 1]
      OBVIOUS
    <2>2. f[k] \in Int /\ g[k] = f[k]
      BY <1>0, <1>2, <2>1
    <2>3. k + 1 \in 0 .. Len(s) /\ k + 1 \in 0 .. Len(t) /\ k + 1 \in 1 .. Len(s) /\ k + 1 # 0
      BY <1>0, <2>1
    <2>4. f[k + 1] = f[k] + s[k + 1] /\ g[k + 1] = g[k] + t[k + 1]
      BY <2>3 DEF IsSums
    <2>5. s[k + 1] \in Int /\ s[k + 1] = t[k + 1]
      BY <2>3, ElementOfSeq
    <2> QED BY <2>2, <2>4, <2>5
  <1>3. \A k \in Nat : k \in S
    <2> HIDE DEF S
    <2> QED BY <1>1, <1>2, SetInduction
  <1> QED BY <1>0, <1>3

\* Without the first value each is less by it.
IsTail(t, s)    == Len(s) = Len(t) + 1 /\ \A i \in 1 .. Len(t) : t[i] = s[i + 1]
Less(f, g, n, x) == \A i \in 0 .. n : g[i] \in Int /\ f[i + 1] = g[i] + x

LEMMA SumsShift ==
  ASSUME NEW s \in Seq(Int), NEW t \in Seq(Int), NEW f, NEW g, IsSums(f, s), IsSums(g, t),
         IsTail(t, s)
  PROVE  Less(f, g, Len(t), s[1])
  <1> DEFINE S == {k \in Nat : k <= Len(t) => g[k] \in Int /\ f[k + 1] = g[k] + s[1]}
  <1>0. /\ Len(s) \in Nat /\ Len(t) \in Nat /\ s[1] \in Int
        /\ Len(s) = Len(t) + 1 /\ \A i \in 1 .. Len(t) : t[i] = s[i + 1]
    <2>1. /\ Len(s) \in Nat /\ Len(t) \in Nat
          /\ Len(s) = Len(t) + 1 /\ \A i \in 1 .. Len(t) : t[i] = s[i + 1]
      BY LenProperties DEF IsTail
    <2>2. 1 \in 1 .. Len(s)
      BY <2>1
    <2> QED BY <2>1, <2>2, ElementOfSeq
  <1>1. 0 \in S
    <2>1. g[0] = 0 /\ f[0] = 0 /\ f[1] = f[0] + s[1]
      BY <1>0 DEF IsSums
    <2> QED BY <1>0, <2>1
  <1>2. ASSUME NEW k \in Nat, k \in S PROVE k + 1 \in S
    <2>1. SUFFICES ASSUME k + 1 <= Len(t)
                   PROVE  g[k + 1] \in Int /\ f[(k + 1) + 1] = g[k + 1] + s[1]
      OBVIOUS
    <2>2. g[k] \in Int /\ f[k + 1] = g[k] + s[1]
      BY <1>0, <1>2, <2>1
    <2>3. k + 1 \in 0 .. Len(t) /\ k + 2 \in 0 .. Len(s) /\ k + 1 \in 1 .. Len(t) /\ k + 2 # 0
          /\ k + 1 # 0
      BY <1>0, <2>1
    <2>4. g[k + 1] = g[k] + t[k + 1]
      BY <2>3 DEF IsSums
    <2>5. f[k + 2] = f[k + 1] + s[k + 2]
      <3>1. f[k + 2] = f[(k + 2) - 1] + s[k + 2]
        BY <2>3 DEF IsSums
      <3> QED BY <3>1
    <2>6. t[k + 1] \in Int /\ t[k + 1] = s[k + 2]
      <3>1. t[k + 1] = s[(k + 1) + 1]
        BY <1>0, <2>3
      <3> QED BY <2>3, <3>1, ElementOfSeq
    <2> QED BY <1>0, <2>2, <2>4, <2>5, <2>6
  <1>3. \A k \in Nat : k \in S
    <2> HIDE DEF S
    <2> QED BY <1>1, <1>2, SetInduction
  <1> QED BY <1>0, <1>3 DEF Less

LEMMA TotalIs == ASSUME NEW s \in Seq(Int) PROVE \E f : IsSums(f, s) /\ Average!Total(s) = f[Len(s)]
  <1> DEFINE f == CHOOSE h : h = [i \in 0 .. Len(s) |-> IF i = 0 THEN 0 ELSE h[i - 1] + s[i]]
  <1>1. Average!Total(s) = f[Len(s)]
    BY DEF Average!Total
  <1>2. IsSums(f, s)
    <2>1. \E h : h = [i \in 0 .. Len(s) |-> IF i = 0 THEN 0 ELSE h[i - 1] + s[i]]
      BY SumsExist DEF IsSums
    <2> QED BY <2>1 DEF IsSums
  <1> QED BY <1>1, <1>2

LEMMA TotalEmpty == Average!Total(<<>>) = 0
  <1>1. <<>> \in Seq(Int) /\ Len(<<>>) = 0
    OBVIOUS
  <1>2. PICK f : IsSums(f, <<>>) /\ Average!Total(<<>>) = f[Len(<<>>)]
    BY <1>1, TotalIs
  <1>3. f[0] = 0
    BY <1>1, <1>2 DEF IsSums
  <1> QED BY <1>1, <1>2, <1>3

LEMMA TotalAppend ==
  ASSUME NEW s \in Seq(Int), NEW v \in Int
  PROVE  Average!Total(s) \in Int /\ Average!Total(Append(s, v)) = Average!Total(s) + v
  <1>1. /\ Append(s, v) \in Seq(Int) /\ Len(Append(s, v)) = Len(s) + 1 /\ Len(s) \in Nat
        /\ \A i \in 1 .. Len(s) : Append(s, v)[i] = s[i]
        /\ Append(s, v)[Len(s) + 1] = v
    BY AppendProperties, LenProperties
  <1>2. PICK t \in Seq(Int) : t = Append(s, v)
    BY <1>1
  <1>3. PICK f : IsSums(f, s) /\ Average!Total(s) = f[Len(s)]
    BY TotalIs
  <1>4. PICK g : IsSums(g, t) /\ Average!Total(t) = g[Len(t)]
    BY TotalIs
  <1>5. Len(s) <= Len(t) /\ \A i \in 1 .. Len(s) : s[i] = t[i]
    BY <1>1, <1>2
  <1>6. \A i \in 0 .. Len(s) : f[i] \in Int /\ g[i] = f[i]
    <2>1. IsSums(f, s) /\ IsSums(g, t)
      BY <1>3, <1>4
    <2> QED
      BY <1>5, <2>1, SumsAgree, SMTT(40)
  <1>7. g[Len(s) + 1] = g[Len(s)] + v
    <2>1. Len(t) = Len(s) + 1 /\ t[Len(s) + 1] = v /\ Len(s) \in Nat
      BY <1>1, <1>2
    <2>2. \A i \in 0 .. Len(t) : g[i] = IF i = 0 THEN 0 ELSE g[i - 1] + t[i]
      BY <1>4 DEF IsSums
    <2>3. Len(s) + 1 \in 0 .. Len(t) /\ Len(s) + 1 # 0 /\ (Len(s) + 1) - 1 = Len(s)
      BY <2>1
    <2>4. g[Len(s) + 1] = g[(Len(s) + 1) - 1] + t[Len(s) + 1]
      BY <2>2, <2>3
    <2> QED BY <2>1, <2>3, <2>4
  <1>8. f[Len(s)] \in Int /\ g[Len(s)] = f[Len(s)]
    BY <1>1, <1>6
  <1> QED BY <1>1, <1>2, <1>3, <1>4, <1>7, <1>8

LEMMA TotalTail ==
  ASSUME NEW s \in Seq(Int), NEW t \in Seq(Int), IsTail(t, s)
  PROVE  Average!Total(t) \in Int /\ Average!Total(s) = Average!Total(t) + s[1]
  <1>1. PICK f : IsSums(f, s) /\ Average!Total(s) = f[Len(s)]
    BY TotalIs
  <1>2. PICK g : IsSums(g, t) /\ Average!Total(t) = g[Len(t)]
    BY TotalIs
  <1>3. Less(f, g, Len(t), s[1])
    BY <1>1, <1>2, SumsShift
  <1>4. Len(t) \in 0 .. Len(t)
    BY LenProperties
  <1>5. f[Len(t) + 1] = g[Len(t)] + s[1] /\ g[Len(t)] \in Int
    BY <1>3, <1>4 DEF Less
  <1> QED BY <1>1, <1>2, <1>5 DEF IsTail

\* The slot of the k-th value of the window.
SlotOf(a, k) ==
  IF a.cnt < _size THEN k - 1
  ELSE IF a.idx + k - 1 < _size THEN a.idx + k - 1 ELSE a.idx + k - 1 - _size

\* The object a, the last values w and the set s of all values say the same.
RingOK(a, w) ==
  /\ a \in [cnt : 0 .. _size, idx : 0 .. _size - 1, sum : Int,
            ar : [0 .. _size - 1 -> AverageValue \cup {0}],
            min : AverageValue \cup {NAN}, max : AverageValue \cup {NAN}]
  /\ w \in Seq(AverageValue) /\ Len(w) = a.cnt
  /\ a.sum = Average!Total(w)
  /\ a.cnt < _size => a.idx = a.cnt /\ \A j \in a.cnt .. _size - 1 : a.ar[j] = 0
  /\ \A k \in 1 .. a.cnt : a.ar[SlotOf(a, k)] = w[k]

ExtremesOK(a, s) ==
  /\ s \subseteq AverageValue /\ (s = {} <=> a.cnt = 0)
  /\ s # {} => a.min \in s /\ a.max \in s /\ \A x \in s : a.min <= x /\ x <= a.max

LEMMA AverageConstants ==
  /\ _size \in Nat /\ _size > 0 /\ AverageValue \subseteq Int /\ NAN \notin AverageValue
  /\ \A x \in AverageValue : x \in Int
  /\ Seq(AverageValue) \subseteq Seq(Int)
  <1>1. _size \in Nat /\ _size > 0 /\ AverageValue \subseteq Int /\ NAN \notin AverageValue
    BY PartAssumptions DEF Average!ConstantsOK
  <1> QED BY <1>1, SeqMonotonic

LEMMA ValuesAreInt == \A x : x \in AverageValue \cup {0} => x \in Int
  BY AverageConstants

\* The parts of the object after a value is added.
LEMMA AddedIs ==
  ASSUME NEW a, NEW w, RingOK(a, w), NEW v \in AverageValue, NEW b, b = Average!Added(a, v)
  PROVE  /\ b.cnt = IF a.cnt < _size THEN a.cnt + 1 ELSE a.cnt
         /\ b.idx = IF a.idx + 1 = _size THEN 0 ELSE a.idx + 1
         /\ b.sum = a.sum - a.ar[a.idx] + v
         /\ b.min = IF a.cnt = 0 \/ v < a.min THEN v ELSE a.min
         /\ b.max = IF a.cnt = 0 \/ (v >= a.min /\ v > a.max) THEN v ELSE a.max
         /\ \A j \in 0 .. _size - 1 : b.ar[j] = IF j = a.idx THEN v ELSE a.ar[j]
         /\ b \in [cnt : 0 .. _size, idx : 0 .. _size - 1, sum : Int,
                   ar : [0 .. _size - 1 -> AverageValue \cup {0}],
                   min : AverageValue \cup {NAN}, max : AverageValue \cup {NAN}]
  <1>1. /\ b.cnt = IF a.cnt < _size THEN a.cnt + 1 ELSE a.cnt
        /\ b.idx = IF a.idx + 1 = _size THEN 0 ELSE a.idx + 1
        /\ b.sum = a.sum - a.ar[a.idx] + v
        /\ b.min = IF a.cnt = 0 \/ v < a.min THEN v ELSE a.min
        /\ b.max = IF a.cnt = 0 \/ (v >= a.min /\ v > a.max) THEN v ELSE a.max
        /\ b.ar = [a.ar EXCEPT ![a.idx] = v]
        /\ b = [cnt |-> b.cnt, idx |-> b.idx, sum |-> b.sum, ar |-> b.ar,
                min |-> b.min, max |-> b.max]
    BY DEF Average!Added
  <1>2. /\ a.cnt \in 0 .. _size /\ a.idx \in 0 .. _size - 1 /\ a.sum \in Int
        /\ a.ar \in [0 .. _size - 1 -> AverageValue \cup {0}]
        /\ a.min \in AverageValue \cup {NAN} /\ a.max \in AverageValue \cup {NAN}
    BY DEF RingOK
  <1>3. a.ar[a.idx] \in Int /\ v \in Int
    <2>1. a.ar[a.idx] \in AverageValue \cup {0}
      BY <1>2
    <2>2. v \in AverageValue \cup {0}
      OBVIOUS
    <2> QED BY <2>1, <2>2, ValuesAreInt
  <1>4. b.ar \in [0 .. _size - 1 -> AverageValue \cup {0}]
    BY <1>1, <1>2
  <1>5. \A j \in 0 .. _size - 1 : b.ar[j] = IF j = a.idx THEN v ELSE a.ar[j]
    BY <1>1, <1>2
  <1>6. b.cnt \in 0 .. _size /\ b.idx \in 0 .. _size - 1 /\ b.sum \in Int
    <2>1. _size \in Nat /\ _size > 0
      BY AverageConstants
    <2>2. b.cnt \in 0 .. _size
      BY <1>1, <1>2, <2>1
    <2>3. b.idx \in 0 .. _size - 1
      BY <1>1, <1>2, <2>1
    <2>4. b.sum \in Int
      BY <1>1, <1>2, <1>3
    <2> QED BY <2>2, <2>3, <2>4
  <1>7. b.min \in AverageValue \cup {NAN} /\ b.max \in AverageValue \cup {NAN}
    BY <1>1, <1>2
  <1>8. b \in [cnt : 0 .. _size, idx : 0 .. _size - 1, sum : Int,
               ar : [0 .. _size - 1 -> AverageValue \cup {0}],
               min : AverageValue \cup {NAN}, max : AverageValue \cup {NAN}]
    BY <1>1, <1>4, <1>6, <1>7
  <1> QED BY <1>1, <1>5, <1>8

\* What leaves the window, and what it is then.
Moved(w, n, v, u) ==
  /\ u \in Seq(AverageValue)
  /\ n < _size => u = Append(w, v) /\ Len(u) = n + 1
  /\ n = _size => Len(u) = n /\ \A i \in 1 .. n : u[i] = Append(w, v)[i + 1]
  /\ \A i \in 1 .. n + 1 : Append(w, v)[i] = IF i <= n THEN w[i] ELSE v

LEMMA WindowFacts ==
  ASSUME NEW w \in Seq(AverageValue), NEW n \in Nat, Len(w) = n, n <= _size,
         NEW v \in AverageValue
  PROVE  Moved(w, n, v, Average!LastOf(Append(w, v)))
  <1>0. PICK u : u = Average!LastOf(Append(w, v))
    OBVIOUS
  <1>1. /\ Append(w, v) \in Seq(AverageValue) /\ Len(Append(w, v)) = n + 1
        /\ \A i \in 1 .. n + 1 : Append(w, v)[i] = IF i <= n THEN w[i] ELSE v
    BY AppendProperties
  <1>2. PICK t \in Seq(AverageValue) : t = Append(w, v) /\ Len(t) = n + 1
    BY <1>1
  <1>3. CASE n < _size
    <2>1. ~(n + 1 > _size)
      BY <1>3, AverageConstants
    <2> QED BY <1>0, <1>1, <1>2, <1>3, <2>1 DEF Average!LastOf, Moved
  <1>4. CASE n = _size
    <2>1. u = SubSeq(t, 2, n + 1)
      <3>1. n + 1 > _size /\ (n + 1) - _size + 1 = 2
        BY <1>4, AverageConstants
      <3> QED BY <1>0, <1>2, <3>1 DEF Average!LastOf
    <2>2. \A i \in 2 .. n + 1 : t[i] \in AverageValue
      BY <1>2, ElementOfSeq
    <2>3. /\ SubSeq(t, 2, n + 1) \in Seq(AverageValue)
          /\ Len(SubSeq(t, 2, n + 1)) = IF 2 <= n + 1 THEN n + 1 - 2 + 1 ELSE 0
          /\ \A i \in 1 .. n + 1 - 2 + 1 : SubSeq(t, 2, n + 1)[i] = t[2 + i - 1]
      BY <2>2, SubSeqProperties
    <2>4. n > 0
      BY <1>4, AverageConstants
    <2>5. n + 1 - 2 + 1 = n /\ 2 <= n + 1 /\ \A i \in 1 .. n : 2 + i - 1 = i + 1
      BY <2>4
    <2>6. u \in Seq(AverageValue) /\ Len(u) = n /\ \A i \in 1 .. n : u[i] = t[i + 1]
      BY <2>1, <2>3, <2>5
    <2>7. Moved(w, n, v, u)
      BY <1>1, <1>2, <1>4, <2>6 DEF Moved
    <2> QED BY <1>0, <2>7
  <1> QED BY <1>3, <1>4, AverageConstants

LEMMA AddedTotal ==
  ASSUME NEW a, NEW w, RingOK(a, w), NEW v \in AverageValue
  PROVE  Average!Added(a, v).sum = Average!Total(Average!LastOf(Append(w, v)))
  <1> DEFINE u == Average!LastOf(Append(w, v))
  <1>1. PICK n \in Nat : n = a.cnt /\ n <= _size /\ Len(w) = n
    BY AverageConstants DEF RingOK
  <1>2. w \in Seq(AverageValue) /\ w \in Seq(Int) /\ v \in Int /\ a.sum = Average!Total(w)
    BY AverageConstants DEF RingOK
  <1>3. Average!Total(w) \in Int /\ Average!Total(Append(w, v)) = Average!Total(w) + v
    BY <1>2, TotalAppend
  <1>4. Average!Added(a, v).sum = a.sum - a.ar[a.idx] + v
    BY DEF Average!Added
  <1>m. Moved(w, n, v, u)
    BY <1>1, <1>2, WindowFacts
  <1>5. CASE n < _size
    <2>1. u = Append(w, v)
      BY <1>m, <1>5 DEF Moved
    <2>2. a.ar[a.idx] = 0
      <3>1. a.idx \in n .. _size - 1 /\ \A j \in n .. _size - 1 : a.ar[j] = 0
        BY <1>1, <1>5, AverageConstants DEF RingOK
      <3> QED BY <3>1
    <2> QED BY <1>2, <1>3, <1>4, <2>1, <2>2
  <1>6. CASE n = _size
    <2>1. /\ u \in Seq(AverageValue) /\ Len(u) = n
          /\ \A i \in 1 .. n : u[i] = Append(w, v)[i + 1]
      BY <1>m, <1>6 DEF Moved
    <2>2. /\ Append(w, v) \in Seq(AverageValue) /\ Len(Append(w, v)) = n + 1
          /\ Append(w, v)[1] = w[1]
      <3>1. n >= 1
        BY <1>6, AverageConstants
      <3> QED BY <1>1, <1>2, <3>1, AppendProperties
    <2>3. u \in Seq(Int) /\ Append(w, v) \in Seq(Int) /\ IsTail(u, Append(w, v))
      <3> HIDE DEF u
      <3> QED BY <1>1, <2>1, <2>2, AverageConstants DEF IsTail
    <2>4. Average!Total(u) \in Int
          /\ Average!Total(Append(w, v)) = Average!Total(u) + Append(w, v)[1]
      <3> HIDE DEF u
      <3> QED BY <2>3, TotalTail
    <2>5. a.ar[a.idx] = w[1] /\ w[1] \in Int
      <3>1. /\ 1 \in 1 .. a.cnt /\ SlotOf(a, 1) = a.idx
        BY <1>1, <1>6, AverageConstants DEF RingOK, SlotOf
      <3>2. w[1] \in Int
        <4>1. 1 \in 1 .. Len(w)
          BY <1>1, <1>6, AverageConstants
        <4> QED BY <1>2, <4>1, ElementOfSeq
      <3> QED BY <3>1, <3>2 DEF RingOK
    <2>6. Average!Total(w) + v = Average!Total(u) + w[1]
      BY <1>3, <2>2, <2>4
    <2> HIDE DEF u
    <2>7. Average!Total(w) - w[1] + v = Average!Total(u)
      BY <1>2, <1>3, <2>4, <2>5, <2>6
    <2> QED BY <1>2, <1>4, <2>5, <2>7 DEF u
  <1> QED BY <1>1, <1>5, <1>6, AverageConstants

\* The slots and the values, when the window grows and when it moves on.
LEMMA GrowingSlots ==
  ASSUME NEW N \in Nat, NEW n \in Nat, n < N, NEW ar, NEW br, NEW w, NEW u, NEW v,
         \A j \in 0 .. N - 1 : br[j] = IF j = n THEN v ELSE ar[j],
         \A i \in 1 .. n + 1 : u[i] = IF i <= n THEN w[i] ELSE v,
         \A k \in 1 .. n : ar[k - 1] = w[k]
  PROVE  \A k \in 1 .. n + 1 : br[k - 1] = u[k]
  <1>1. TAKE k \in 1 .. n + 1
  <1>2. PICK j \in 0 .. N - 1 : j = k - 1 /\ j <= n
    OBVIOUS
  <1>3. CASE j = n
    <2>1. br[j] = v
      BY <1>3
    <2>2. u[k] = v
      BY <1>2, <1>3
    <2> QED BY <1>2, <2>1, <2>2
  <1>4. CASE j < n
    <2>1. br[j] = ar[j]
      BY <1>4
    <2>2. k \in 1 .. n
      BY <1>2, <1>4
    <2>3. u[k] = w[k] /\ ar[k - 1] = w[k]
      BY <2>2
    <2> QED BY <1>2, <2>1, <2>3
  <1> QED BY <1>2, <1>3, <1>4

Turn(N, x, k) == IF x + k - 1 < N THEN x + k - 1 ELSE x + k - 1 - N

Holds(N, x, ar, w)      == \A k \in 1 .. N : ar[Turn(N, x, k)] = w[k]
Placed(N, x, ar, br, v) == \A j \in 0 .. N - 1 : br[j] = IF j = x THEN v ELSE ar[j]
Entered(N, w, u, v)     == \A i \in 1 .. N : u[i] = IF i = N THEN v ELSE w[i + 1]

LEMMA MovingSlots ==
  ASSUME NEW N \in Nat, N > 0, NEW x \in 0 .. N - 1, NEW y \in 0 .. N - 1,
         y = (IF x + 1 = N THEN 0 ELSE x + 1),
         NEW ar, NEW br, NEW w, NEW u, NEW v,
         Placed(N, x, ar, br, v), Entered(N, w, u, v), Holds(N, x, ar, w)
  PROVE  Holds(N, y, br, u)
  <1>0. /\ \A j \in 0 .. N - 1 : br[j] = IF j = x THEN v ELSE ar[j]
        /\ \A i \in 1 .. N : u[i] = IF i = N THEN v ELSE w[i + 1]
        /\ \A k \in 1 .. N : ar[Turn(N, x, k)] = w[k]
    BY DEF Placed, Entered, Holds
  <1>1. SUFFICES ASSUME NEW k \in 1 .. N PROVE br[Turn(N, y, k)] = u[k]
    BY DEF Holds
  <1>2. CASE k = N
    <2>1. Turn(N, y, k) = x
      BY <1>2 DEF Turn
    <2> QED BY <1>0, <1>2, <2>1
  <1>3. CASE k < N
    <2>1. PICK m \in 1 .. N : m = k + 1
      BY <1>3
    <2>2. Turn(N, y, k) = Turn(N, x, m)
      BY <1>3, <2>1 DEF Turn
    <2>3. PICK j \in 0 .. N - 1 : j = Turn(N, x, m) /\ j # x
      <3>1. m > 1 /\ m <= N
        BY <1>3, <2>1
      <3>2. CASE x + m - 1 < N
        <4>1. Turn(N, x, m) = x + m - 1
          BY <3>2 DEF Turn
        <4> QED BY <3>1, <3>2, <4>1
      <3>3. CASE ~(x + m - 1 < N)
        <4>1. Turn(N, x, m) = x + m - 1 - N
          BY <3>3 DEF Turn
        <4> QED BY <3>1, <3>3, <4>1
      <3> QED BY <3>2, <3>3
    <2>4. br[j] = ar[j]
      BY <1>0, <2>3
    <2>5. ar[j] = w[m]
      BY <1>0, <2>3
    <2>6. u[k] = w[k + 1]
      BY <1>0, <1>3
    <2> QED BY <2>1, <2>2, <2>3, <2>4, <2>5, <2>6
  <1> QED BY <1>2, <1>3

LEMMA AddedRing ==
  ASSUME NEW a, NEW w, RingOK(a, w), NEW v \in AverageValue
  PROVE  RingOK(Average!Added(a, v), Average!LastOf(Append(w, v)))
  <1>0. PICK b : b = Average!Added(a, v)
    OBVIOUS
  <1>a. PICK u : u = Average!LastOf(Append(w, v))
    OBVIOUS
  <1>1. /\ b.cnt = IF a.cnt < _size THEN a.cnt + 1 ELSE a.cnt
        /\ b.idx = IF a.idx + 1 = _size THEN 0 ELSE a.idx + 1
        /\ \A j \in 0 .. _size - 1 : b.ar[j] = IF j = a.idx THEN v ELSE a.ar[j]
        /\ b \in [cnt : 0 .. _size, idx : 0 .. _size - 1, sum : Int,
                  ar : [0 .. _size - 1 -> AverageValue \cup {0}],
                  min : AverageValue \cup {NAN}, max : AverageValue \cup {NAN}]
    BY <1>0, AddedIs
  <1>2. b.sum = Average!Total(u)
    BY <1>0, <1>a, AddedTotal
  <1>3. PICK n \in Nat, x \in Nat :
          /\ n = a.cnt /\ n <= _size /\ Len(w) = n /\ x = a.idx /\ x < _size
          /\ n < _size => x = n
    BY AverageConstants DEF RingOK
  <1>4. w \in Seq(AverageValue) /\ _size \in Nat /\ _size > 0
    BY AverageConstants DEF RingOK
  <1>5. /\ u \in Seq(AverageValue)
        /\ n < _size => u = Append(w, v) /\ Len(u) = n + 1
        /\ n = _size => Len(u) = n /\ \A i \in 1 .. n : u[i] = Append(w, v)[i + 1]
        /\ \A i \in 1 .. n + 1 : Append(w, v)[i] = IF i <= n THEN w[i] ELSE v
    <2>1. Moved(w, n, v, u)
      BY <1>3, <1>4, <1>a, WindowFacts
    <2> QED BY <2>1 DEF Moved
  <1>6. \A k \in 1 .. n : a.ar[SlotOf(a, k)] = w[k]
    BY <1>3 DEF RingOK
  <1>7. PICK m \in Nat, y \in Nat :
          /\ m = b.cnt /\ y = b.idx /\ y < _size
          /\ m = IF n < _size THEN n + 1 ELSE n
          /\ y = IF x + 1 = _size THEN 0 ELSE x + 1
    BY <1>1, <1>3, <1>4
  <1>8. Len(u) = m
    BY <1>3, <1>4, <1>5, <1>7
  <1>9. m < _size => y = m /\ \A j \in m .. _size - 1 : b.ar[j] = 0
    <2>1. SUFFICES ASSUME m < _size PROVE y = m /\ \A j \in m .. _size - 1 : b.ar[j] = 0
      OBVIOUS
    <2>2. n < _size /\ m = n + 1 /\ y = n + 1 /\ x = n
      BY <1>3, <1>4, <1>7, <2>1
    <2>3. \A j \in n .. _size - 1 : a.ar[j] = 0
      BY <1>3, <2>2 DEF RingOK
    <2>4. ASSUME NEW j \in m .. _size - 1 PROVE b.ar[j] = 0
      <3>1. j \in 0 .. _size - 1 /\ j # x /\ j \in n .. _size - 1
        BY <1>4, <2>2
      <3> QED BY <1>1, <1>3, <2>3, <3>1
    <2> QED BY <2>2, <2>4
  <1>10. \A k \in 1 .. m : b.ar[SlotOf(b, k)] = u[k]
    <2>0. \A j \in 0 .. _size - 1 : b.ar[j] = IF j = x THEN v ELSE a.ar[j]
      BY <1>1, <1>3
    <2>1. CASE n < _size
      <3>1. m = n + 1 /\ x = n /\ \A i \in 1 .. n + 1 : u[i] = IF i <= n THEN w[i] ELSE v
        BY <1>3, <1>5, <1>7, <2>1
      <3>2. \A k \in 1 .. n : a.ar[k - 1] = w[k]
        <4>1. \A k \in 1 .. n : SlotOf(a, k) = k - 1
          BY <1>3, <2>1 DEF SlotOf
        <4> QED BY <1>6, <4>1
      <3>3. \A k \in 1 .. n + 1 : b.ar[k - 1] = u[k]
        BY <1>4, <2>0, <2>1, <3>1, <3>2, GrowingSlots
      <3>4. \A k \in 1 .. m : SlotOf(b, k) = k - 1
        <4>1. CASE m < _size
          BY <1>7, <4>1 DEF SlotOf
        <4>2. CASE m = _size
          <5>1. y = 0
            BY <1>7, <3>1, <4>2
          <5>2. b.idx = 0 /\ ~(b.cnt < _size)
            BY <1>7, <4>2, <5>1, <1>4
          <5>3. \A k \in 1 .. m : 0 + k - 1 < _size /\ 0 + k - 1 = k - 1
            BY <1>4, <4>2
          <5> QED BY <5>2, <5>3 DEF SlotOf
        <4> QED BY <1>4, <2>1, <3>1, <4>1, <4>2
      <3> QED BY <3>1, <3>3, <3>4
    <2>2. CASE n = _size
      <3>1. m = _size
        BY <1>7, <2>2
      <3>2. \A i \in 1 .. _size : u[i] = IF i = _size THEN v ELSE w[i + 1]
        <4>1. TAKE i \in 1 .. _size
        <4>2. u[i] = Append(w, v)[i + 1]
          BY <1>5, <2>2
        <4>3. i + 1 \in 1 .. n + 1 /\ (i + 1 <= n <=> i # _size)
          BY <1>4, <2>2
        <4>4. Append(w, v)[i + 1] = IF i + 1 <= n THEN w[i + 1] ELSE v
          BY <1>5, <4>3
        <4> QED BY <4>2, <4>3, <4>4
      <3>3. \A k : SlotOf(a, k) = Turn(_size, x, k)
        BY <1>3, <1>4, <2>2 DEF SlotOf, Turn
      <3>4. \A k : SlotOf(b, k) = Turn(_size, y, k)
        BY <1>4, <1>7, <3>1 DEF SlotOf, Turn
      <3>5. \A k \in 1 .. _size : a.ar[Turn(_size, x, k)] = w[k]
        BY <1>6, <2>2, <3>3
      <3>6. x \in 0 .. _size - 1 /\ y \in 0 .. _size - 1
        BY <1>3, <1>4, <1>7
      <3>7. PICK c, d : c = b.ar /\ d = a.ar
        OBVIOUS
      <3>8. Holds(_size, y, c, u)
        <4>1. y = IF x + 1 = _size THEN 0 ELSE x + 1
          BY <1>7
        <4>2. Placed(_size, x, d, c, v)
          BY <2>0, <3>7 DEF Placed
        <4>3. Holds(_size, x, d, w) /\ Entered(_size, w, u, v)
          BY <3>2, <3>5, <3>7 DEF Holds, Entered
        <4> QED BY <1>4, <3>6, <4>1, <4>2, <4>3, MovingSlots
      <3>9. \A k \in 1 .. _size : b.ar[Turn(_size, y, k)] = u[k]
        BY <3>7, <3>8 DEF Holds
      <3> QED BY <3>1, <3>4, <3>9
    <2> QED BY <1>3, <1>4, <2>1, <2>2
  <1>11. RingOK(b, u)
    BY <1>1, <1>2, <1>5, <1>7, <1>8, <1>9, <1>10 DEF RingOK
  <1> QED BY <1>0, <1>a, <1>11

LEMMA AddedExtremes ==
  ASSUME NEW a, NEW w, RingOK(a, w), NEW s, ExtremesOK(a, s), NEW v \in AverageValue
  PROVE  ExtremesOK(Average!Added(a, v), s \cup {v})
  <1>1. PICK b : b = Average!Added(a, v)
    OBVIOUS
  <1>2. /\ b.cnt = IF a.cnt < _size THEN a.cnt + 1 ELSE a.cnt
        /\ b.min = IF a.cnt = 0 \/ v < a.min THEN v ELSE a.min
        /\ b.max = IF a.cnt = 0 \/ (v >= a.min /\ v > a.max) THEN v ELSE a.max
    BY <1>1, AddedIs
  <1>3. b.cnt # 0
    <2>1. a.cnt \in 0 .. _size
      BY DEF RingOK
    <2> QED BY <1>2, <2>1, AverageConstants
  <1>4. s \subseteq AverageValue /\ \A x \in s \cup {v} : x \in Int
    BY AverageConstants DEF ExtremesOK
  <1>5. CASE a.cnt = 0
    <2>1. s = {} /\ b.min = v /\ b.max = v
      BY <1>2, <1>5 DEF ExtremesOK
    <2>2. s \cup {v} = {v} /\ v \in Int
      BY <1>4, <2>1
    <2>3. ExtremesOK(b, {v})
      BY <1>3, <2>1, <2>2 DEF ExtremesOK
    <2> QED BY <1>1, <2>2, <2>3
  <1>6. CASE a.cnt # 0
    <2>1. PICK low \in s, high \in s :
            low = a.min /\ high = a.max /\ \A x \in s : low <= x /\ x <= high
      BY <1>6 DEF ExtremesOK
    <2>2. low \in Int /\ high \in Int /\ v \in Int
      BY <1>4
    <2>3. /\ b.min = IF v < low THEN v ELSE low
          /\ b.max = IF v >= low /\ v > high THEN v ELSE high
      BY <1>2, <1>6, <2>1
    <2>4. b.min \in s \cup {v} /\ b.max \in s \cup {v}
      BY <2>3
    <2>5. low <= high
      BY <2>1
    <2>6. ASSUME NEW x \in s \cup {v} PROVE b.min <= x /\ x <= b.max
      <3>1. x \in Int
        BY <1>4
      <3>2. x = v \/ (low <= x /\ x <= high)
        BY <2>1
      <3> QED BY <2>2, <2>3, <2>5, <3>1, <3>2
    <2>7. s \cup {v} \subseteq AverageValue /\ s \cup {v} # {}
      BY <1>4
    <2>8. ExtremesOK(b, s \cup {v})
      BY <1>3, <2>4, <2>6, <2>7 DEF ExtremesOK
    <2> QED BY <1>1, <2>8
  <1> QED BY <1>5, <1>6

\* The empty object, and the window that holds one value n times.
Same(n, v) == [i \in 1 .. n |-> v]
Least(n)   == IF n <= _size THEN n ELSE _size

LEMMA ClearedOK == RingOK(Average!Cleared, <<>>) /\ ExtremesOK(Average!Cleared, {})
  <1>1. PICK c : c = Average!Cleared
    OBVIOUS
  <1>2. /\ c.cnt = 0 /\ c.idx = 0 /\ c.sum = 0 /\ c.ar = [i \in 0 .. _size - 1 |-> 0]
        /\ c.min = NAN /\ c.max = NAN
        /\ c = [cnt |-> c.cnt, idx |-> c.idx, sum |-> c.sum, ar |-> c.ar,
                min |-> c.min, max |-> c.max]
    BY <1>1 DEF Average!Cleared
  <1>3. c.cnt \in 0 .. _size /\ c.idx \in 0 .. _size - 1 /\ c.sum \in Int
    BY <1>2, AverageConstants
  <1>4. c.ar \in [0 .. _size - 1 -> AverageValue \cup {0}] /\ \A j \in 0 .. _size - 1 : c.ar[j] = 0
    BY <1>2
  <1>5. c \in [cnt : 0 .. _size, idx : 0 .. _size - 1, sum : Int,
               ar : [0 .. _size - 1 -> AverageValue \cup {0}],
               min : AverageValue \cup {NAN}, max : AverageValue \cup {NAN}]
    BY <1>2, <1>3, <1>4
  <1>6. <<>> \in Seq(AverageValue) /\ Len(<<>>) = 0
    OBVIOUS
  <1>7. RingOK(c, <<>>)
    BY <1>2, <1>4, <1>5, <1>6, TotalEmpty DEF RingOK
  <1>8. ExtremesOK(c, {})
    BY <1>2 DEF ExtremesOK
  <1> QED BY <1>1, <1>7, <1>8

LEMMA SameIs ==
  ASSUME NEW v \in AverageValue, NEW n \in Nat
  PROVE  /\ Same(n, v) \in Seq(AverageValue) /\ Len(Same(n, v)) = n
         /\ \A i \in 1 .. n : Same(n, v)[i] = v
  BY DEF Same

LEMMA SameFacts ==
  ASSUME NEW v \in AverageValue, NEW n \in Nat
  PROVE  Append(Same(n, v), v) = Same(n + 1, v)
  <1>1. PICK s \in Seq(AverageValue) :
          s = Same(n, v) /\ Len(s) = n /\ \A i \in 1 .. n : s[i] = v
    BY SameIs
  <1>2. PICK r \in Seq(AverageValue) :
          r = Same(n + 1, v) /\ Len(r) = n + 1 /\ \A i \in 1 .. n + 1 : r[i] = v
    <2>1. n + 1 \in Nat
      OBVIOUS
    <2> QED BY <2>1, SameIs
  <1>3. PICK t \in Seq(AverageValue) :
          t = Append(s, v) /\ Len(t) = n + 1 /\ \A i \in 1 .. n + 1 : t[i] = v
    <2>1. /\ Append(s, v) \in Seq(AverageValue) /\ Len(Append(s, v)) = n + 1
          /\ \A i \in 1 .. n : Append(s, v)[i] = s[i]
          /\ Append(s, v)[n + 1] = v
      BY <1>1, AppendProperties
    <2>2. PICK t \in Seq(AverageValue) :
            /\ t = Append(s, v) /\ Len(t) = n + 1 /\ t[n + 1] = v
            /\ \A i \in 1 .. n : t[i] = s[i]
      BY <2>1
    <2>3. ASSUME NEW i \in 1 .. n + 1 PROVE t[i] = v
      <3>1. i = n + 1 \/ i \in 1 .. n
        OBVIOUS
      <3>2. CASE i \in 1 .. n
        BY <1>1, <2>2, <3>2
      <3> QED BY <2>2, <3>1, <3>2
    <2> QED BY <2>2, <2>3
  <1>4. t = r
    BY <1>2, <1>3, SeqEqual
  <1> QED BY <1>1, <1>2, <1>3, <1>4

LEMMA LastOfSame ==
  ASSUME NEW v \in AverageValue, NEW n \in Nat
  PROVE  Average!LastOf(Same(n, v)) = Same(Least(n), v)
  <1>1. Len(Same(n, v)) = n
    BY SameIs
  <1>2. CASE n <= _size
    BY <1>1, <1>2, AverageConstants DEF Average!LastOf, Least
  <1>3. CASE n > _size
    <2>1. PICK t \in Seq(AverageValue) : t = Same(n, v)
      BY SameIs
    <2>2. PICK m \in Nat : m = n - _size + 1 /\ 1 <= m /\ m <= n
      BY <1>3, AverageConstants
    <2>3. Average!LastOf(t) = SubSeq(t, m, n)
      BY <1>1, <1>3, <2>1, <2>2, AverageConstants DEF Average!LastOf
    <2>4. \A i \in m .. n : t[i] = v
      BY <2>1, <2>2 DEF Same
    <2>5. /\ SubSeq(t, m, n) \in Seq(AverageValue) /\ Len(SubSeq(t, m, n)) = n - m + 1
          /\ \A i \in 1 .. n - m + 1 : SubSeq(t, m, n)[i] = t[m + i - 1]
      BY <2>2, <2>4, SubSeqProperties
    <2>6. n - m + 1 = _size
      BY <2>2, AverageConstants
    <2>7. \A i \in 1 .. _size : SubSeq(t, m, n)[i] = v
      <3>1. TAKE i \in 1 .. _size
      <3>2. m + i - 1 \in m .. n
        BY <2>2, <2>6, AverageConstants
      <3> QED BY <2>4, <2>5, <2>6, <3>2
    <2>8. PICK r \in Seq(AverageValue) : r = SubSeq(t, m, n) /\ Len(r) = _size
      BY <2>5, <2>6
    <2>9. r = [i \in 1 .. _size |-> v]
      BY <2>7, <2>8
    <2>10. Least(n) = _size
      BY <1>3, AverageConstants DEF Least
    <2> QED BY <2>1, <2>3, <2>8, <2>9, <2>10 DEF Same
  <1> QED BY <1>2, <1>3, AverageConstants

\* fillValue(): the objects after each of its addValue()s.
IsFilled(f, n, v) ==
  f = [k \in 0 .. n |-> IF k = 0 THEN Average!Cleared ELSE Average!Added(f[k - 1], v)]

LEMMA FilledExists == ASSUME NEW v, NEW n \in Nat PROVE \E f : IsFilled(f, n, v)
  <1> DEFINE Step(f, i) == IF i = 0 THEN Average!Cleared ELSE Average!Added(f[i - 1], v)
             Have(k) == \E f : f = [i \in 0 .. k |-> Step(f, i)]
             S == {k \in Nat : Have(k)}
  <1>1. 0 \in S
    <2> DEFINE f == [i \in 0 .. 0 |-> Average!Cleared]
    <2>1. f = [i \in 0 .. 0 |-> Step(f, i)]
      OBVIOUS
    <2>2. Have(0)
      BY <2>1
    <2> HIDE DEF Have
    <2> QED BY <2>2
  <1>2. ASSUME NEW k \in Nat, k \in S PROVE k + 1 \in S
    <2>1. PICK f : f = [i \in 0 .. k |-> Step(f, i)]
      BY <1>2
    <2> DEFINE g == [i \in 0 .. k + 1 |-> IF i <= k THEN f[i] ELSE Average!Added(f[k], v)]
    <2>2. \A i \in 0 .. k + 1 : g[i] = Step(g, i)
      <3>1. TAKE i \in 0 .. k + 1
      <3>2. CASE i = 0
        BY <2>1, <3>2
      <3>3. CASE i > 0 /\ i <= k
        <4>1. g[i] = f[i] /\ g[i - 1] = f[i - 1] /\ f[i] = Step(f, i)
          BY <2>1, <3>3
        <4> QED BY <3>3, <4>1
      <3>4. CASE i = k + 1
        <4>1. g[i] = Average!Added(f[k], v) /\ g[i - 1] = f[k]
          BY <3>4
        <4> QED BY <3>4, <4>1
      <3> QED BY <3>2, <3>3, <3>4
    <2>3. g = [i \in 0 .. k + 1 |-> g[i]]
      OBVIOUS
    <2>4. g = [i \in 0 .. k + 1 |-> Step(g, i)]
      BY <2>2, <2>3
    <2> HIDE DEF g
    <2>5. Have(k + 1)
      BY <2>4, Zenon
    <2> HIDE DEF Have
    <2> QED BY <2>5
  <1>3. n \in S
    <2> HIDE DEF S
    <2> QED BY <1>1, <1>2, SetInduction
  <1> QED BY <1>3 DEF IsFilled

LEMMA FilledOK ==
  ASSUME NEW v \in AverageValue, NEW n \in Nat, NEW f, IsFilled(f, n, v)
  PROVE  /\ RingOK(f[n], Average!LastOf(Same(n, v)))
         /\ ExtremesOK(f[n], IF n = 0 THEN {} ELSE {v})
  <1> DEFINE S == {k \in Nat : k <= n => /\ RingOK(f[k], Same(Least(k), v))
                                         /\ ExtremesOK(f[k], IF k = 0 THEN {} ELSE {v})}
  <1>1. 0 \in S
    <2>1. f[0] = Average!Cleared
      BY DEF IsFilled
    <2>2. Same(Least(0), v) = <<>>
      BY AverageConstants DEF Same, Least
    <2> QED BY <2>1, <2>2, ClearedOK
  <1>2. ASSUME NEW k \in Nat, k \in S PROVE k + 1 \in S
    <2>1. SUFFICES ASSUME k + 1 <= n
                   PROVE  /\ RingOK(f[k + 1], Same(Least(k + 1), v))
                          /\ ExtremesOK(f[k + 1], {v})
      OBVIOUS
    <2>2. RingOK(f[k], Same(Least(k), v)) /\ ExtremesOK(f[k], IF k = 0 THEN {} ELSE {v})
      BY <1>2, <2>1
    <2>3. f[k + 1] = Average!Added(f[k], v)
      <3>1. k + 1 \in 0 .. n /\ k + 1 # 0 /\ (k + 1) - 1 = k
        BY <2>1
      <3>2. f[k + 1] = Average!Added(f[(k + 1) - 1], v)
        BY <3>1 DEF IsFilled
      <3> QED BY <3>1, <3>2
    <2>4. PICK m \in Nat : m = Least(k) /\ Least(m + 1) = Least(k + 1)
      BY AverageConstants DEF Least
    <2>5. Average!LastOf(Append(Same(m, v), v)) = Same(Least(k + 1), v)
      <3>1. Append(Same(m, v), v) = Same(m + 1, v)
        BY SameFacts
      <3>2. m + 1 \in Nat
        OBVIOUS
      <3> QED BY <2>4, <3>1, <3>2, LastOfSame
    <2>6. RingOK(f[k + 1], Same(Least(k + 1), v))
      BY <2>2, <2>3, <2>4, <2>5, AddedRing
    <2>7. ExtremesOK(f[k + 1], {v})
      <3>1. (IF k = 0 THEN {} ELSE {v}) \cup {v} = {v}
        OBVIOUS
      <3>2. ExtremesOK(Average!Added(f[k], v), (IF k = 0 THEN {} ELSE {v}) \cup {v})
        BY <2>2, AddedExtremes
      <3> QED BY <2>3, <3>1, <3>2
    <2> QED BY <2>6, <2>7
  <1>3. n \in S
    <2> HIDE DEF S
    <2> QED BY <1>1, <1>2, SetInduction
  <1> QED BY <1>3, LastOfSame

-----------------------------------------------------------------------------
AverageInv == RingOK(av, window) /\ ExtremesOK(av, since)

LEMMA AverageInit == Average!Init => AverageInv
  BY ClearedOK DEF Average!Init, AverageInv

LEMMA AverageStep == ASSUME AverageInv, [Average!Next]_(Average!vars) PROVE AverageInv'
  <1>1. RingOK(av, window) /\ ExtremesOK(av, since)
    BY DEF AverageInv
  <1>2. CASE Average!clear
    <2>1. av' = Average!Cleared /\ window' = <<>> /\ since' = {}
      BY <1>2 DEF Average!clear
    <2>2. RingOK(av', window') /\ ExtremesOK(av', since')
      BY <2>1, ClearedOK
    <2> QED BY <2>2 DEF AverageInv, RingOK, ExtremesOK
  <1>3. ASSUME NEW v \in AverageValue, Average!addValue(v) PROVE AverageInv'
    <2>1. /\ av' = Average!Added(av, v) /\ window' = Average!LastOf(Append(window, v))
          /\ since' = since \cup {v}
      BY <1>3 DEF Average!addValue
    <2>2. RingOK(av', window') /\ ExtremesOK(av', since')
      BY <1>1, <2>1, AddedRing, AddedExtremes
    <2> QED BY <2>2 DEF AverageInv, RingOK, ExtremesOK
  <1>4. ASSUME NEW v \in AverageValue, NEW n \in 0 .. _size + 1, Average!fillValue(v, n)
        PROVE  AverageInv'
    <2> DEFINE f == CHOOSE g : g = [k \in 0 .. n |-> IF k = 0 THEN Average!Cleared
                                                     ELSE Average!Added(g[k - 1], v)]
    <2>1. n \in Nat
      BY AverageConstants
    <2>2. /\ av' = f[n] /\ window' = Average!LastOf([i \in 1 .. n |-> v])
          /\ since' = IF n = 0 THEN {} ELSE {v}
      BY <1>4 DEF Average!fillValue
    <2>3. IsFilled(f, n, v)
      <3>1. \E g : g = [k \in 0 .. n |-> IF k = 0 THEN Average!Cleared
                                         ELSE Average!Added(g[k - 1], v)]
        BY <2>1, FilledExists DEF IsFilled
      <3> QED BY <3>1 DEF IsFilled
    <2> HIDE DEF f
    <2>4. RingOK(av', window') /\ ExtremesOK(av', since')
      BY <2>1, <2>2, <2>3, FilledOK DEF Same
    <2> QED BY <2>4 DEF AverageInv, RingOK, ExtremesOK
  <1>5. CASE UNCHANGED Average!vars
    <2>1. av' = av /\ window' = window /\ since' = since
      BY <1>5 DEF Average!vars
    <2> QED BY <1>1, <2>1 DEF AverageInv, RingOK, ExtremesOK
  <1> QED BY <1>2, <1>3, <1>4, <1>5 DEF Average!Next

LEMMA AverageInvHolds == Average!Spec => []AverageInv
  BY AverageInit, AverageStep, PTL DEF Average!Spec

\* RunningAverage: the count and the place in the ring never leave it, and a
\* slot holds a value that was added or the zero of the constructor.
THEOREM AverageTypes == Average!Spec => []Average!TypeOK
  <1>1. AverageInv => Average!TypeOK
    BY DEF AverageInv, RingOK, Average!TypeOK
  <1> QED BY <1>1, AverageInvHolds, PTL

\* RunningAverage: the sum is that of the values in the window and the extremes
\* those of all values since clear(), for every size of the ring and every set
\* of values, whatever addValue(), fillValue() and clear() came before.
THEOREM StatisticsTheorem == Average!Spec => []Statistics
  <1>1. AverageInv => Statistics
    <2>1. SUFFICES ASSUME AverageInv PROVE Statistics
      OBVIOUS
    <2>2. av.cnt = Len(window) /\ av.sum = Average!Total(window)
      BY <2>1 DEF AverageInv, RingOK
    <2>3. ASSUME since # {}
          PROVE  av.min = Average!Min(since) /\ av.max = Average!Max(since)
      <3>1. /\ av.min \in since /\ av.max \in since
            /\ \A x \in since : av.min <= x /\ x <= av.max
            /\ \A x \in since : x \in Int
        BY <2>1, <2>3, AverageConstants DEF AverageInv, ExtremesOK
      <3>2. /\ Average!Min(since) \in since
            /\ \A x \in since : Average!Min(since) <= x
        BY <3>1 DEF Average!Min
      <3>3. /\ Average!Max(since) \in since
            /\ \A x \in since : Average!Max(since) >= x
        BY <3>1 DEF Average!Max
      <3> QED BY <3>1, <3>2, <3>3
    <2> QED BY <2>2, <2>3 DEF Statistics, Average!Statistics
  <1> QED BY <1>1, AverageInvHolds, PTL

-----------------------------------------------------------------------------
(* OneWire *)

\* OneWireProofs is about the module that Devices calls Wire.
WireProofs == INSTANCE OneWireProofs WITH result <- wresult

LEMMA WireConstants == WireProofs!ConstantsOK
BY PartAssumptions DEF Wire!ConstantsOK, WireProofs!ConstantsOK

LEMMA SameAddresses ==
  /\ Wire!Bit = WireProofs!Bit /\ Wire!Zero = WireProofs!Zero
  /\ Wire!Address = WireProofs!Address /\ Wire!Device = WireProofs!Device
  /\ Wire!NoFamily = WireProofs!NoFamily
  /\ \A a : Wire!family(a) = WireProofs!family(a)
<1>1. Wire!Bit = WireProofs!Bit
  BY DEF Wire!Bit, WireProofs!Bit
<1>2. \A a : Wire!family(a) = WireProofs!family(a)
  BY DEF Wire!family, WireProofs!family
<1>3. Wire!Zero = WireProofs!Zero /\ Wire!Address = WireProofs!Address
  BY <1>1 DEF Wire!Zero, WireProofs!Zero, Wire!Address, WireProofs!Address
<1>4. Wire!NoFamily = WireProofs!NoFamily
  BY <1>2, <1>3 DEF Wire!NoFamily, WireProofs!NoFamily
<1>5. Wire!Device = WireProofs!Device
  BY <1>2, <1>3, <1>4 DEF Wire!Device, WireProofs!Device
<1> QED BY <1>1, <1>2, <1>3, <1>4, <1>5

LEMMA SameSearchTypes == Wire!TypeOK <=> WireProofs!TypeOK
<1>1. {Wire!family(a) : a \in Wire!Address} = {WireProofs!family(a) : a \in WireProofs!Address}
  BY SameAddresses
<1> QED BY <1>1, SameAddresses DEF Wire!TypeOK, WireProofs!TypeOK

LEMMA SameSize == \A s : Wire!Cardinality(s) = WireProofs!Cardinality(s)
BY DEF Wire!Cardinality, WireProofs!Cardinality

LEMMA SameSearchStart == Wire!Init <=> WireProofs!Init
BY SameAddresses, SameSize DEF Wire!Init, WireProofs!Init

LEMMA SameBit == Wire!SearchBit <=> WireProofs!SearchBit
<1>1. Wire!Answers = WireProofs!Answers
  BY DEF Wire!Answers, WireProofs!Answers
<1>2. Wire!search_direction = WireProofs!search_direction
  BY <1>1, SameSize DEF Wire!search_direction, WireProofs!search_direction
<1> QED BY <1>1, <1>2, SameAddresses, SameSize
        DEF Wire!SearchBit, WireProofs!SearchBit, Wire!ghosts, WireProofs!ghosts

LEMMA SameSearchSteps ==
  [Wire!Next]_(Wire!vars) <=> [WireProofs!Next]_(WireProofs!vars)
<1> USE DEF Wire!Anew, WireProofs!Anew, Wire!NotFound, WireProofs!NotFound
<1>1. Wire!reset_search <=> WireProofs!reset_search
  BY SameAddresses DEF Wire!reset_search, WireProofs!reset_search
<1>2. \A f : Wire!target_search(f) <=> WireProofs!target_search(f)
  BY SameAddresses DEF Wire!target_search, WireProofs!target_search
<1>3. Wire!SearchBegins <=> WireProofs!SearchBegins
  BY SameAddresses DEF Wire!SearchBegins, WireProofs!SearchBegins
<1>4. Wire!SearchLost <=> WireProofs!SearchLost
  BY SameAddresses DEF Wire!SearchLost, WireProofs!SearchLost
<1>5. Wire!SearchFinds <=> WireProofs!SearchFinds
  BY DEF Wire!SearchFinds, WireProofs!SearchFinds
<1>6. Wire!SearchEnds <=> WireProofs!SearchEnds
  BY DEF Wire!SearchEnds, WireProofs!SearchEnds
<1>7. \A a : Wire!Attach(a) <=> WireProofs!Attach(a)
  BY DEF Wire!Attach, WireProofs!Attach, Wire!search_, WireProofs!search_,
         Wire!ghosts, WireProofs!ghosts
<1>8. \A a : Wire!Detach(a) <=> WireProofs!Detach(a)
  BY DEF Wire!Detach, WireProofs!Detach
<1>9. UNCHANGED Wire!vars <=> UNCHANGED WireProofs!vars
  BY DEF Wire!vars, WireProofs!vars, Wire!search_, WireProofs!search_,
         Wire!ghosts, WireProofs!ghosts
<1>10. (\E a \in Wire!Device : Wire!target_search(Wire!family(a)))
         <=> (\E a \in WireProofs!Device : WireProofs!target_search(WireProofs!family(a)))
  BY <1>2, SameAddresses
<1>11. (\E a \in Wire!Device : Wire!Attach(a) \/ Wire!Detach(a))
         <=> (\E a \in WireProofs!Device : WireProofs!Attach(a) \/ WireProofs!Detach(a))
  BY <1>7, <1>8, SameAddresses
<1>12. Wire!Next <=> WireProofs!Next
  BY <1>1, <1>3, <1>4, <1>5, <1>6, <1>10, <1>11, SameBit, Zenon DEF Wire!Next, WireProofs!Next
<1> QED BY <1>9, <1>12

LEMMA WireInductive == Wire!Spec => []WireProofs!IInv
<1>1. Wire!Init => WireProofs!IInv
  BY SameSearchStart, WireConstants, WireProofs!InitIInv
<1>2. WireProofs!IInv /\ [Wire!Next]_(Wire!vars) => WireProofs!IInv'
  BY SameSearchSteps, WireConstants, WireProofs!StepIInv
<1> QED BY <1>1, <1>2, PTL DEF Wire!Spec

\* OneWire: for every length of an address and whatever devices are there or
\* come, an enumeration during which none leaves finds every device, none
\* twice, and the family asked for is found while a device of it stays.
THEOREM SearchOKTheorem == Wire!Spec => SearchOK
<1>1. WireProofs!IInv => Wire!AllFound
  BY WireProofs!AllFoundHolds, SameAddresses DEF Wire!AllFound, WireProofs!AllFound
<1>2. WireProofs!IInv /\ Wire!SearchFinds => (~left => ROM_NO \notin found)
  <2>1. Wire!SearchFinds <=> WireProofs!SearchFinds
    BY DEF Wire!SearchFinds, WireProofs!SearchFinds
  <2> QED BY <2>1, WireConstants, WireProofs!FoundOnceStep
<1>3. WireProofs!IInv /\ Wire!SearchFinds /\ found = {}
        /\ target \in {Wire!family(a) : a \in stayed} => Wire!family(ROM_NO) = target
  <2>1. Wire!SearchFinds <=> WireProofs!SearchFinds
    BY DEF Wire!SearchFinds, WireProofs!SearchFinds
  <2>2. {Wire!family(a) : a \in stayed} = {WireProofs!family(a) : a \in stayed}
    BY SameAddresses
  <2> QED BY <2>1, <2>2, SameAddresses, WireConstants, WireProofs!TargetFoundStep
<1>4. WireProofs!IInv /\ [Wire!Next]_(Wire!vars)
        => [Wire!SearchFinds => (~left => ROM_NO \notin found)]_(Wire!vars)
  BY <1>2
<1>5. WireProofs!IInv /\ [Wire!Next]_(Wire!vars)
        => [Wire!SearchFinds /\ found = {} /\ target \in {Wire!family(a) : a \in stayed}
              => Wire!family(ROM_NO) = target]_(Wire!vars)
  BY <1>3
<1>6. Wire!Spec => [][Wire!Next]_(Wire!vars)
  BY PTL DEF Wire!Spec
<1> QED BY <1>1, <1>4, <1>5, <1>6, WireInductive, PTL
        DEF SearchOK, Wire!SearchOK, Wire!FoundOnce, Wire!TargetFound

-----------------------------------------------------------------------------
(* Side by side *)

\* What each part keeps, whichever of them runs.
DevicesInv ==
  /\ IInv /\ SerialInv /\ LedsInv /\ IrShape /\ Gas!TypeOK /\ FramesInv
  /\ WireProofs!IInv /\ ClockInv /\ NfcInv /\ AverageInv /\ RadioQueue

\* A part that rests stutters.
LEMMA PartSteps ==
  ASSUME [MCNext]_mcVars
  PROVE  /\ [Next]_vars /\ [Serial!Next]_(Serial!vars) /\ [Leds!Next]_(Leds!vars)
         /\ [Infrared!Next]_(Infrared!vars) /\ [Gas!Next]_(Gas!vars)
         /\ [Frames!Next]_(Frames!vars) /\ [Wire!Next]_(Wire!vars)
         /\ [Clock!Next]_(Clock!vars) /\ [Nfc!Next]_(Nfc!vars)
         /\ [Average!Next]_(Average!vars) /\ [Radio!Next]_(Radio!vars)
<1>1. /\ Next \/ UNCHANGED vars
      /\ Serial!Next \/ UNCHANGED serialVars
      /\ Leds!Next \/ UNCHANGED ledVars
      /\ Infrared!Next \/ UNCHANGED irVars
      /\ Gas!Next \/ UNCHANGED gasVars
      /\ Frames!Next \/ UNCHANGED frameVars
      /\ Wire!Next \/ UNCHANGED wireVars
      /\ Clock!Next \/ UNCHANGED clockVars
      /\ Nfc!Next \/ UNCHANGED nfcVars
      /\ Average!Next \/ UNCHANGED avgVars
      /\ Radio!Next \/ UNCHANGED radioVars
  <2>1. CASE UNCHANGED mcVars
    BY <2>1 DEF mcVars
  <2>2. CASE MCNext
    BY <2>2 DEF MCNext, Others
  <2> QED BY <2>1, <2>2
<1>2. UNCHANGED serialVars => UNCHANGED Serial!vars
  BY DEF serialVars, Serial!vars, Serial!positions, Serial!call
<1>3. UNCHANGED ledVars => UNCHANGED Leds!vars
  BY DEF ledVars, Leds!vars, Leds!sketch, Leds!engine
<1>4. UNCHANGED irVars => UNCHANGED Infrared!vars
  BY DEF irVars, Infrared!vars, Infrared!line
<1>5. UNCHANGED gasVars => UNCHANGED Gas!vars
  BY DEF gasVars, Gas!vars, Gas!clock
<1>6. UNCHANGED frameVars => UNCHANGED Frames!vars
  BY DEF frameVars, Frames!vars, Frames!time, Frames!direction, Frames!ghosts
<1>7. UNCHANGED wireVars => UNCHANGED Wire!vars
  BY DEF wireVars, Wire!vars, Wire!search_, Wire!ghosts
<1>8. UNCHANGED clockVars => UNCHANGED Clock!vars
  BY DEF clockVars, Clock!vars, Clock!config, Clock!counted
<1>9. UNCHANGED nfcVars => UNCHANGED Nfc!vars
  BY DEF nfcVars, Nfc!vars, Nfc!us, Nfc!peer
<1>10. UNCHANGED avgVars => UNCHANGED Average!vars
  BY DEF avgVars, Average!vars
<1>11. UNCHANGED radioVars => UNCHANGED Radio!vars
  BY DEF radioVars, Radio!vars, Radio!flags
<1> QED BY <1>1, <1>2, <1>3, <1>4, <1>5, <1>6, <1>7, <1>8, <1>9, <1>10, <1>11

\* The eleven libraries side by side keep their types, whichever of them runs:
\* among others, nothing is recorded past the end of the receiver's buffer and
\* no frame is drawn that does not exist.
THEOREM DeviceTypes ==
  ASSUME Careful, KeepsUp = TRUE, Prompt = TRUE, Patient = TRUE, LowerHalf
  PROVE  MCSpec => []Types
<1>1. MCInit => DevicesInv
  <2>1. ASSUME Radio!Init PROVE RadioQueue
    BY <2>1, QueueFacts DEF Radio!Init, RadioQueue
  <2>2. ASSUME Wire!Init PROVE WireProofs!IInv
    BY <2>2, SameSearchStart, WireConstants, WireProofs!InitIInv
  <2> QED BY <2>1, <2>2, InitIInv, SerialBegins, LedsInit, IrInit, GasInit, FramesInit, ClockInit,
             NfcInit, AverageInit DEF MCInit, DevicesInv
<1>2. DevicesInv /\ [MCNext]_mcVars => DevicesInv'
  <2> SUFFICES ASSUME DevicesInv, [MCNext]_mcVars PROVE DevicesInv'
    OBVIOUS
  <2>1. IInv' /\ SerialInv' /\ LedsInv' /\ IrShape' /\ Gas!TypeOK' /\ FramesInv'
    BY PartSteps, StepIInv, SerialStep, LedsStep, ShapeStep, GasTypesStep, FramesStep
       DEF DevicesInv
  <2>2. ClockInv' /\ NfcInv' /\ AverageInv' /\ RadioQueue'
    BY PartSteps, ClockStep, NfcStep, AverageStep, RadioQueueStep DEF DevicesInv
  <2>3. WireProofs!IInv'
    BY PartSteps, SameSearchSteps, WireConstants, WireProofs!StepIInv DEF DevicesInv
  <2> QED BY <2>1, <2>2, <2>3 DEF DevicesInv
<1>3. DevicesInv => Types
  <2> SUFFICES ASSUME DevicesInv PROVE Types
    OBVIOUS
  <2>1. TypeOK /\ Gas!TypeOK
    BY DEF DevicesInv, IInv
  <2>2. Serial!TypeOK /\ Leds!TypeOK
    BY DEF DevicesInv, SerialInv, SerialTypes, Serial!TypeOK, LedsInv, LedTypes, Leds!TypeOK
  <2>3. Infrared!TypeOK /\ Frames!TypeOK /\ Clock!TypeOK /\ Nfc!TypeOK
    BY IrTyped, FramesTyped, ClockTyped, NfcTyped DEF DevicesInv
  <2>4. Average!TypeOK /\ Radio!TypeOK
    BY DEF DevicesInv, AverageInv, RingOK, Average!TypeOK, RadioQueue, QueueOK, Radio!TypeOK
  <2>5. Wire!TypeOK
    BY SameSearchTypes DEF DevicesInv, WireProofs!IInv
  <2> QED BY <2>1, <2>2, <2>3, <2>4, <2>5 DEF Types
<1>4. MCSpec => MCInit /\ [][MCNext]_mcVars
  BY PTL DEF MCSpec
<1> QED BY <1>1, <1>2, <1>3, <1>4, PTL
=============================================================================
