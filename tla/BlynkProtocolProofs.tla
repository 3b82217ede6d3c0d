------------------------- MODULE BlynkProtocolProofs -------------------------
(***************************************************************************)
(* Proofs about BlynkProtocol: the inductive invariant IInv, and from it   *)
(* the type invariant, the two bounds on a silent link, the session        *)
(* property and two action properties, for all constants; and when a       *)
(* client stays connected to a server that answers at once.                *)
(***************************************************************************)
EXTENDS BlynkProtocol, SequenceTheorems, TLAPS

-----------------------------------------------------------------------------
(* The operators and the bounds *)

\* The greatest element of a set is its maximum.
LEMMA MaxIs ==
  ASSUME NEW S \in SUBSET Int, NEW m \in S, \A y \in S : m >= y
  PROVE  Max(S) = m
<1>1. \A x \in S : (\A y \in S : x >= y) => x = m
  OBVIOUS
<1> QED
  BY <1>1 DEF Max

\* The least element of a set is its minimum.
LEMMA MinIs ==
  ASSUME NEW S \in SUBSET Int, NEW m \in S, \A y \in S : m <= y
  PROVE  Min(S) = m
<1>1. \A x \in S : (\A y \in S : x <= y) => x = m
  OBVIOUS
<1> QED
  BY <1>1 DEF Min

\* The greater of two numbers.
LEMMA MaxOf2 == \A a, b \in Nat : Max({a, b}) = IF a >= b THEN a ELSE b
<1> SUFFICES ASSUME NEW a \in Nat, NEW b \in Nat
             PROVE  Max({a, b}) = IF a >= b THEN a ELSE b
  OBVIOUS
<1>1. CASE a >= b
  BY <1>1, MaxIs
<1>2. CASE ~(a >= b)
  BY <1>2, MaxIs
<1> QED
  BY <1>1, <1>2

\* The greatest of three numbers.
LEMMA MaxOf3 ==
  \A a, b, c \in Nat :
    LET m == Max({a, b, c}) IN m \in Nat /\ m >= a /\ m >= b /\ m >= c
<1> SUFFICES ASSUME NEW a \in Nat, NEW b \in Nat, NEW c \in Nat
             PROVE  LET m == Max({a, b, c})
                    IN  m \in Nat /\ m >= a /\ m >= b /\ m >= c
  OBVIOUS
<1>1. CASE a >= b /\ a >= c
  <2>1. Max({a, b, c}) = a
    BY <1>1, MaxIs
  <2> QED
    BY <1>1, <2>1
<1>2. CASE b >= a /\ b >= c
  <2>1. Max({a, b, c}) = b
    BY <1>2, MaxIs
  <2> QED
    BY <1>2, <2>1
<1>3. CASE c >= a /\ c >= b
  <2>1. Max({a, b, c}) = c
    BY <1>3, MaxIs
  <2> QED
    BY <1>3, <2>1
<1> QED
  BY <1>1, <1>2, <1>3

\* A capped number.
LEMMA AtMostFacts ==
  \A age, cap \in Nat : AtMost(age, cap) = IF age <= cap THEN age ELSE cap
<1> SUFFICES ASSUME NEW age \in Nat, NEW cap \in Nat
             PROVE  AtMost(age, cap) = IF age <= cap THEN age ELSE cap
  OBVIOUS
<1>1. CASE age <= cap
  BY <1>1, MinIs DEF AtMost
<1>2. CASE ~(age <= cap)
  BY <1>2, MinIs DEF AtMost
<1> QED
  BY <1>1, <1>2

\* An age grows by one up to its cap.
LEMMA OlderFacts ==
  \A cap \in Nat : \A age \in 0 .. cap :
    /\ Older(age, cap) \in 0 .. cap
    /\ Older(age, cap) = IF age < cap THEN age + 1 ELSE age
BY DEF Older

\* The bounds of the properties cover each path of run().
LEMMA BoundFacts ==
  /\ Max({Heartbeat, Timeout}) \in Nat
  /\ Max({Heartbeat, Timeout}) >= Heartbeat
  /\ Max({Heartbeat, Timeout}) >= Timeout
  /\ Pause \in Nat
  /\ Pause >= Timeout /\ Pause >= ConnectTime /\ Pause >= HandlerTime
  /\ InBound \in Nat /\ InBound >= HandlerTime
  /\ InBound >= Heartbeat + 3 * Timeout + Gap + Timeout
  /\ InBound >= Heartbeat + 3 * Timeout + Gap + ConnectTime
  /\ OutBound = Max({Heartbeat, Timeout}) + Gap + Pause
<1> USE DurationsAssumption
<1>1. /\ Max({Heartbeat, Timeout}) \in Nat
      /\ Max({Heartbeat, Timeout}) >= Heartbeat
      /\ Max({Heartbeat, Timeout}) >= Timeout
  BY MaxOf2
<1>2. /\ Pause \in Nat
      /\ Pause >= Timeout /\ Pause >= ConnectTime /\ Pause >= HandlerTime
  BY MaxOf3 DEF Pause
<1> DEFINE m == Max({Timeout, ConnectTime})
           l == Heartbeat + 3 * Timeout + Gap + m
<1>3. m \in Nat /\ m >= Timeout /\ m >= ConnectTime
  BY MaxOf2
<1>4. l \in Nat
  BY <1>3
<1>5. InBound = Max({l, HandlerTime})
  BY DEF InBound
<1> HIDE DEF m
<1>6. /\ l >= Heartbeat + 3 * Timeout + Gap + Timeout
      /\ l >= Heartbeat + 3 * Timeout + Gap + ConnectTime
  BY <1>3
<1> HIDE DEF l
<1>7. InBound \in Nat /\ InBound >= HandlerTime /\ InBound >= l
  BY <1>4, <1>5, MaxOf2
<1> QED
  BY <1>1, <1>2, <1>4, <1>6, <1>7 DEF OutBound

\* The caps of the ages lie above everything an age is compared with.
LEMMA CapFacts ==
  /\ InCap \in Nat /\ InCap > InBound
  /\ BeatCap \in Nat /\ BeatCap = Retry + 1
  /\ OutCap \in Nat /\ OutCap >= BeatCap /\ OutCap > OutBound
<1>1. OutBound + 1 \in Nat /\ BeatCap \in Nat /\ InBound \in Nat
  BY BoundFacts, DurationsAssumption DEF BeatCap
<1>2. OutCap \in Nat /\ OutCap >= BeatCap /\ OutCap >= OutBound + 1
  BY <1>1, MaxOf2 DEF OutCap
<1> QED
  BY <1>1, <1>2, BoundFacts, DurationsAssumption DEF InCap, BeatCap

\* How long run() stays at a place.
LEMMA LimitFacts ==
  /\ Limit \in Nat
  /\ pc = "idle" => Limit = Gap
  /\ pc = "reading" => Limit = Timeout
  /\ pc \in {"reopening", "connecting"} => Limit = ConnectTime
  /\ pc = "handler" => Limit = HandlerTime
  /\ pc \in {"input", "info", "pong", "timers"} => Limit = 0
BY DurationsAssumption DEF Limit

-----------------------------------------------------------------------------
(* Each part of the invariant is kept by every step *)

\* sendCmd leaves the link as it is or hangs up.
LEMMA SendFacts ==
  ASSUME TypeOK, NEW cmd, sendCmd(cmd)
  PROVE  /\ WireType'
         /\ ageOut' \in {ageOut, 0}
         /\ \/ /\ UNCHANGED <<link, session, inbox, state>>
               /\ Skipped(cmd) \/ ageOut' = 0
            \/ /\ link = "up" /\ ~Skipped(cmd)
               /\ link' = "none" /\ inbox' = <<>> /\ state' = "CONNECTING"
<1>1. Asks(cmd) \subseteq Answers
  BY DEF Asks, Answers
<1>2. CASE Skipped(cmd)
  BY <1>2 DEF sendCmd, wire, TypeOK, WireType
<1>3. CASE ~Skipped(cmd)
  <2>1. link = "up"
    BY <1>3 DEF Skipped
  <2>2. CASE /\ ageOut' = 0 /\ owed' = owed \cup Asks(cmd)
             /\ UNCHANGED <<link, session, inbox, state>>
    BY <1>1, <2>1, <2>2 DEF TypeOK, WireType
  <2>3. CASE WriteFails \/ FloodError
    <3>1. Drop /\ state' = "CONNECTING" /\ ageOut' \in {ageOut, 0}
      BY <2>3 DEF WriteFails, FloodError
    <3> QED
      BY <1>3, <2>1, <3>1 DEF Drop, TypeOK, WireType
  <2> QED
    BY <1>3, <2>2, <2>3 DEF sendCmd
<1> QED
  BY <1>2, <1>3

\* One unit of time passes where run() may still stay, or after disconnect().
LEMMA TickFacts ==
  ASSUME TypeOK, ControlOK, Tick
  PROVE  /\ spent' \in Nat /\ spent' <= Limit
         /\ spent' = spent + 1 \/ (pc = "idle" /\ state = "DISCONNECTED")
         /\ ageIn' = IF ageIn < InCap THEN ageIn + 1 ELSE ageIn
         /\ ageOut' = IF ageOut < OutCap THEN ageOut + 1 ELSE ageOut
         /\ ageBeat' = IF ageBeat < BeatCap THEN ageBeat + 1 ELSE ageBeat
         /\ ageTry' = IF ageTry < BeatCap THEN ageTry + 1 ELSE ageTry
         /\ ageStart' \in {ageStart, Older(ageStart, ConnectTimeout)}
         /\ UNCHANGED <<link, session, inbox, owed, state, pc, tconn, waiting,
                        healthy, sound, excused>>
<1>1. spent \in 0 .. Limit /\ Limit \in Nat
  BY LimitFacts DEF TypeOK, ControlType, ControlOK
<1>2. /\ spent' \in Nat /\ spent' <= Limit
      /\ spent' = spent + 1 \/ (pc = "idle" /\ state = "DISCONNECTED")
  BY <1>1, OlderFacts DEF Tick
<1>3. /\ ageIn \in 0 .. InCap /\ ageOut \in 0 .. OutCap
      /\ ageBeat \in 0 .. BeatCap /\ ageTry \in 0 .. BeatCap
  BY DEF TypeOK, AgeType
<1>4. /\ ageIn' = IF ageIn < InCap THEN ageIn + 1 ELSE ageIn
      /\ ageOut' = IF ageOut < OutCap THEN ageOut + 1 ELSE ageOut
      /\ ageBeat' = IF ageBeat < BeatCap THEN ageBeat + 1 ELSE ageBeat
      /\ ageTry' = IF ageTry < BeatCap THEN ageTry + 1 ELSE ageTry
  BY <1>3, CapFacts, OlderFacts DEF Tick
<1>5. /\ ageStart' \in {ageStart, Older(ageStart, ConnectTimeout)}
      /\ UNCHANGED <<link, session, inbox, owed, state, pc, tconn, waiting,
                     healthy, sound, excused>>
  BY DEF Tick, wire
<1> QED
  BY <1>2, <1>4, <1>5

\* The flags stay flags.
LEMMA FlagStep == TypeOK /\ [Next]_vars => FlagType'
<1> SUFFICES ASSUME TypeOK, [Next]_vars PROVE FlagType'
  OBVIOUS
<1> USE DEF wire, ages, control, caller, world, TypeOK, FlagType
<1>1. CASE Sketch
  BY <1>1, SendFacts
     DEF Sketch, SketchSend, SketchRuns, SketchDisconnect, Drop, SketchConnect
<1>2. CASE Input
  BY <1>2, SendFacts
     DEF Input, InputGone, At, ReadReady, Reads, Pop, ReadRefusal, Fail, Drop,
         ReadAnswer, ReadGarbled, ReadOdd, ReadPing, ReadRedirect,
         ReadHardware, ReadingEnds, Reopened, Pong, SendInfo
<1>3. CASE Timers
  BY <1>3, SendFacts
     DEF Timers, LinkGone, At, HeartbeatTimeout, Drop, Overdue, Ping, PingDue,
         LoginTimeout, Reconnect, RetryDue, NothingDue
<1>4. CASE Connecting
  BY <1>4 DEF Connecting, ConnectFails, At, LoginSent, LoginNotSent
<1>5. CASE Run \/ HandlerReturns \/ ConnectReturns
  BY <1>5 DEF Run, At, HandlerReturns, ConnectReturns, Drop
<1>6. CASE Server \/ PeerCloses \/ Heal
  BY <1>6
     DEF Server, ServerAnswers, Answered, ServerSends, Odd, PeerCloses, Heal
<1>7. CASE Tick
  BY <1>7 DEF Tick, Limit
<1>8. CASE UNCHANGED vars
  BY <1>8 DEF vars
<1> QED
  BY <1>1, <1>2, <1>3, <1>4, <1>5, <1>6, <1>7, <1>8 DEF Next, Client

\* What is on the wire has its type, and only a live link carries anything.
LEMMA WireStep == TypeOK /\ ControlOK /\ [Next]_vars => WireType'
<1> SUFFICES ASSUME TypeOK, ControlOK, [Next]_vars PROVE WireType'
  OBVIOUS
<1> USE DEF wire, ages, control, caller, world, TypeOK, WireType, ControlOK,
            Answers, Message
<1>1. CASE SketchSend
  BY <1>1, SendFacts DEF SketchSend, SketchRuns
<1>2. CASE SketchDisconnect
  BY <1>2 DEF SketchDisconnect, SketchRuns, Drop
<1>3. CASE SketchConnect
  BY <1>3 DEF SketchConnect, Drop
<1>4. CASE ConnectReturns
  <2>1. CASE UNCHANGED wire
    BY <2>1
  <2>2. CASE Drop
    BY <2>2 DEF Drop
  <2> QED
    BY <1>4, <2>1, <2>2 DEF ConnectReturns
<1>5. CASE Run
  BY <1>5 DEF Run, At
<1>6. CASE InputGone
  BY <1>6 DEF InputGone, At
<1>7. CASE ReadReady
  BY <1>7 DEF ReadReady, Reads, Pop, At
<1>8. CASE ReadRefusal
  BY <1>8 DEF ReadRefusal, Reads, Fail, Drop, At
<1>9. CASE ReadAnswer
  BY <1>9 DEF ReadAnswer, Reads, Pop, At
<1>10. CASE ReadGarbled
  BY <1>10 DEF ReadGarbled, Reads, Pop, At
<1>11. CASE ReadOdd
  BY <1>11 DEF ReadOdd, Reads, Drop, At
<1>12. CASE ReadPing
  BY <1>12 DEF ReadPing, Reads, Pop, At
<1>13. CASE ReadRedirect
  BY <1>13 DEF ReadRedirect, Reads, Drop, At
<1>14. CASE ReadHardware
  BY <1>14 DEF ReadHardware, Reads, Pop, At
<1>15. CASE ReadingEnds
  BY <1>15 DEF ReadingEnds, Fail, Drop, At
<1>16. CASE Reopened
  BY <1>16 DEF Reopened, At
<1>17. CASE Pong
  BY <1>17, SendFacts DEF Pong, At
<1>18. CASE SendInfo
  BY <1>18, SendFacts DEF SendInfo, At
<1>19. CASE HandlerReturns
  BY <1>19 DEF HandlerReturns, At
<1>20. CASE LinkGone
  BY <1>20 DEF LinkGone, At
<1>21. CASE HeartbeatTimeout
  BY <1>21 DEF HeartbeatTimeout, At, Drop, Overdue
<1>22. CASE Ping
  BY <1>22, SendFacts DEF Ping, At, Overdue, PingDue
<1>23. CASE LoginTimeout
  BY <1>23 DEF LoginTimeout, At, Drop
<1>24. CASE Reconnect
  BY <1>24 DEF Reconnect, At, Drop, RetryDue
<1>25. CASE NothingDue
  BY <1>25 DEF NothingDue, At, Overdue, PingDue, RetryDue
<1>26. CASE ConnectFails
  BY <1>26 DEF ConnectFails, At
<1>27. CASE LoginSent
  BY <1>27 DEF LoginSent, At
<1>28. CASE LoginNotSent
  BY <1>28 DEF LoginNotSent, At
<1>29. CASE ServerAnswers
  BY <1>29 DEF ServerAnswers, Answered
<1>30. CASE ServerSends
  BY <1>30, SwitchesAssumption DEF ServerSends, Odd
<1>31. CASE PeerCloses
  BY <1>31 DEF PeerCloses
<1>32. CASE Heal
  BY <1>32 DEF Heal
<1>33. CASE Tick
  BY <1>33 DEF Tick, Limit
<1>34. CASE UNCHANGED vars
  BY <1>34 DEF vars
<1> QED
  BY <1>1, <1>2, <1>3, <1>4, <1>5, <1>6, <1>7, <1>8, <1>9, <1>10, <1>11,
     <1>12, <1>13, <1>14, <1>15, <1>16, <1>17, <1>18, <1>19, <1>20, <1>21,
     <1>22, <1>23, <1>24, <1>25, <1>26, <1>27, <1>28, <1>29, <1>30, <1>31,
     <1>32, <1>33, <1>34
     DEF Next, Sketch, Client, Input, Timers, Connecting, Server

\* The ages stay below their caps.
LEMMA AgeStep == TypeOK /\ ControlOK /\ [Next]_vars => AgeType'
<1> SUFFICES ASSUME TypeOK, ControlOK, [Next]_vars PROVE AgeType'
  OBVIOUS
<1> USE DEF wire, ages, control, caller, world, TypeOK, AgeType
<1>1. CASE Sketch
  BY <1>1, CapFacts, DurationsAssumption, SendFacts
     DEF Sketch, SketchSend, SketchRuns, SketchDisconnect, Drop, SketchConnect
<1>2. CASE Input
  BY <1>2, CapFacts, DurationsAssumption, SendFacts
     DEF Input, InputGone, At, ReadReady, Reads, Pop, ReadRefusal, Fail, Drop,
         ReadAnswer, ReadGarbled, ReadOdd, ReadPing, ReadRedirect,
         ReadHardware, ReadingEnds, Reopened, Pong, SendInfo
<1>3. CASE Timers
  BY <1>3, CapFacts, SendFacts
     DEF Timers, LinkGone, At, HeartbeatTimeout, Drop, Overdue, Ping, PingDue,
         LoginTimeout, Reconnect, RetryDue, NothingDue
<1>4. CASE Connecting
  BY <1>4, CapFacts, AtMostFacts
     DEF Connecting, ConnectFails, At, LoginSent, LoginNotSent, ControlType
<1>5. CASE Run \/ HandlerReturns \/ ConnectReturns
  BY <1>5, DurationsAssumption
     DEF Run, At, HandlerReturns, ConnectReturns, Drop
<1>6. CASE Server \/ PeerCloses \/ Heal
  BY <1>6
     DEF Server, ServerAnswers, Answered, ServerSends, Odd, PeerCloses, Heal
<1>7. CASE Tick
  BY <1>7, TickFacts, OlderFacts, CapFacts, DurationsAssumption DEF Tick
<1>8. CASE UNCHANGED vars
  BY <1>8 DEF vars
<1> QED
  BY <1>1, <1>2, <1>3, <1>4, <1>5, <1>6, <1>7, <1>8 DEF Next, Client

\* The place in run() and the time spent there.
LEMMA ControlTypeStep == TypeOK /\ ControlOK /\ [Next]_vars => ControlType'
<1> SUFFICES ASSUME TypeOK, ControlOK, [Next]_vars PROVE ControlType'
  OBVIOUS
<1> USE DEF wire, ages, control, caller, world, TypeOK, ControlType, Places
<1>1. CASE Sketch
  BY <1>1, SwitchesAssumption, SendFacts
     DEF Sketch, SketchSend, SketchRuns, SketchDisconnect, Drop, SketchConnect
<1>2. CASE Input
  BY <1>2, SendFacts
     DEF Input, InputGone, At, ReadReady, Reads, Pop, ReadRefusal, Fail, Drop,
         ReadAnswer, ReadGarbled, ReadOdd, ReadPing, ReadRedirect,
         ReadHardware, ReadingEnds, Reopened, Pong, SendInfo
<1>3. CASE Timers
  BY <1>3, SendFacts
     DEF Timers, LinkGone, At, HeartbeatTimeout, Drop, Overdue, Ping, PingDue,
         LoginTimeout, Reconnect, RetryDue, NothingDue
<1>4. CASE Connecting
  BY <1>4 DEF Connecting, ConnectFails, At, LoginSent, LoginNotSent
<1>5. CASE Run \/ HandlerReturns \/ ConnectReturns
  BY <1>5, SwitchesAssumption
     DEF Run, At, HandlerReturns, ConnectReturns, Drop
<1>6. CASE Server \/ PeerCloses \/ Heal
  BY <1>6
     DEF Server, ServerAnswers, Answered, ServerSends, Odd, PeerCloses, Heal
<1>7. CASE Tick
  BY <1>7, TickFacts
<1>8. CASE UNCHANGED vars
  BY <1>8 DEF vars
<1> QED
  BY <1>1, <1>2, <1>3, <1>4, <1>5, <1>6, <1>7, <1>8 DEF Next, Client

\* The link and the state agree with the place in run().
LEMMA ControlStep == TypeOK /\ ControlOK /\ [Next]_vars => ControlOK'
<1> SUFFICES ASSUME TypeOK, ControlOK, [Next]_vars PROVE ControlOK'
  OBVIOUS
<1> USE DEF wire, ages, control, caller, world, TypeOK, WireType, ControlType,
            FlagType, ControlOK, Places
<1>a. Limit' \in Nat /\ 0 <= Limit' /\ (pc' = pc => Limit' = Limit)
  BY DurationsAssumption DEF Limit
<1>1. CASE Sketch
  BY <1>1, <1>a, SendFacts
     DEF Sketch, SketchSend, SketchRuns, SketchDisconnect, Drop, SketchConnect
<1>2. CASE Input
  BY <1>2, <1>a, SendFacts
     DEF Input, InputGone, At, ReadReady, Reads, Pop, ReadRefusal, Fail, Drop,
         ReadAnswer, ReadGarbled, ReadOdd, ReadPing, ReadRedirect,
         ReadHardware, ReadingEnds, Reopened, Pong, SendInfo
<1>3. CASE Timers
  BY <1>3, <1>a, SendFacts
     DEF Timers, LinkGone, At, HeartbeatTimeout, Drop, Overdue, Ping, PingDue,
         LoginTimeout, Reconnect, RetryDue, NothingDue
<1>4. CASE Connecting
  BY <1>4, <1>a DEF Connecting, ConnectFails, At, LoginSent, LoginNotSent
<1>5. CASE Run \/ HandlerReturns \/ ConnectReturns
  BY <1>5, <1>a DEF Run, At, HandlerReturns, ConnectReturns, Drop
<1>6. CASE Server \/ PeerCloses \/ Heal
  BY <1>6, <1>a
     DEF Server, ServerAnswers, Answered, ServerSends, Odd, PeerCloses, Heal
<1>7. CASE Tick
  BY <1>7, <1>a, TickFacts
<1>8. CASE UNCHANGED vars
  BY <1>8, <1>a DEF vars
<1> QED
  BY <1>1, <1>2, <1>3, <1>4, <1>5, <1>6, <1>7, <1>8 DEF Next, Client

\* Only the server makes a login good.
LEMMA SessionStep ==
  TypeOK /\ ControlOK /\ SessionOK /\ [Next]_vars => SessionOK'
<1> SUFFICES ASSUME TypeOK, ControlOK, SessionOK, [Next]_vars PROVE SessionOK'
  OBVIOUS
<1> USE DEF wire, ages, control, caller, world, TypeOK, WireType, ControlOK,
            SessionOK, SessionOpen, Up
<1>1. CASE Sketch
  BY <1>1, SendFacts
     DEF Sketch, SketchSend, SketchRuns, SketchDisconnect, Drop, SketchConnect
<1>2. CASE Input
  BY <1>2, SendFacts
     DEF Input, InputGone, At, ReadReady, Reads, Pop, ReadRefusal, Fail, Drop,
         ReadAnswer, ReadGarbled, ReadOdd, ReadPing, ReadRedirect,
         ReadHardware, ReadingEnds, Reopened, Pong, SendInfo
<1>3. CASE Timers
  BY <1>3, SendFacts
     DEF Timers, LinkGone, At, HeartbeatTimeout, Drop, Overdue, Ping, PingDue,
         LoginTimeout, Reconnect, RetryDue, NothingDue
<1>4. CASE Connecting
  BY <1>4 DEF Connecting, ConnectFails, At, LoginSent, LoginNotSent
<1>5. CASE Run \/ HandlerReturns \/ ConnectReturns
  BY <1>5 DEF Run, At, HandlerReturns, ConnectReturns, Drop
<1>6. CASE Server \/ PeerCloses \/ Heal
  BY <1>6
     DEF Server, ServerAnswers, Answered, ServerSends, Odd, PeerCloses, Heal
<1>7. CASE Tick
  BY <1>7 DEF Tick, Limit
<1>8. CASE UNCHANGED vars
  BY <1>8 DEF vars
<1> QED
  BY <1>1, <1>2, <1>3, <1>4, <1>5, <1>6, <1>7, <1>8 DEF Next, Client

\* The time since the client last heard from the server: run() leaves its
\* timers with less than the heartbeat timeout, and each place on the way back
\* to them adds what it may take.
LEMMA InStep == TypeOK /\ ControlOK /\ InOK /\ [Next]_vars => InOK'
<1> SUFFICES ASSUME TypeOK, ControlOK, InOK, [Next]_vars PROVE InOK'
  OBVIOUS
<1> USE DEF wire, ages, control, caller, world, TypeOK, AgeType, ControlType,
            WireType, ControlOK, InOK, Live
<1>1. CASE SketchSend
  BY <1>1, BoundFacts, LimitFacts, DurationsAssumption, SendFacts
     DEF SketchSend, SketchRuns
<1>2. CASE SketchDisconnect
  BY <1>2, BoundFacts, LimitFacts, DurationsAssumption
     DEF SketchDisconnect, SketchRuns, Drop
<1>3. CASE SketchConnect
  BY <1>3, BoundFacts, LimitFacts, DurationsAssumption DEF SketchConnect, Drop
<1>4. CASE ConnectReturns
  BY <1>4, BoundFacts, LimitFacts, DurationsAssumption
     DEF ConnectReturns, Drop
<1>5. CASE Run
  BY <1>5, BoundFacts, LimitFacts, DurationsAssumption DEF Run, At
<1>6. CASE InputGone
  BY <1>6, BoundFacts, LimitFacts, DurationsAssumption DEF InputGone, At
<1>7. CASE ReadReady
  BY <1>7, BoundFacts, LimitFacts, DurationsAssumption, SMTT(30)
     DEF ReadReady, Reads, Pop, At
<1>8. CASE ReadRefusal
  BY <1>8, BoundFacts, LimitFacts, DurationsAssumption
     DEF ReadRefusal, Reads, Fail, Drop, At
<1>9. CASE ReadAnswer
  BY <1>9, BoundFacts, LimitFacts, DurationsAssumption
     DEF ReadAnswer, Reads, Pop, At
<1>10. CASE ReadGarbled
  BY <1>10, BoundFacts, LimitFacts, DurationsAssumption
     DEF ReadGarbled, Reads, Pop, At
<1>11. CASE ReadOdd
  BY <1>11, BoundFacts, LimitFacts, DurationsAssumption
     DEF ReadOdd, Reads, Drop, At
<1>12. CASE ReadPing
  BY <1>12, BoundFacts, LimitFacts, DurationsAssumption
     DEF ReadPing, Reads, Pop, At
<1>13. CASE ReadRedirect
  BY <1>13, BoundFacts, LimitFacts, DurationsAssumption
     DEF ReadRedirect, Reads, Drop, At
<1>14. CASE ReadHardware
  BY <1>14, BoundFacts, LimitFacts, DurationsAssumption
     DEF ReadHardware, Reads, Pop, At
<1>15. CASE ReadingEnds
  BY <1>15, BoundFacts, LimitFacts, DurationsAssumption
     DEF ReadingEnds, Fail, Drop, At
<1>16. CASE Reopened
  BY <1>16, BoundFacts, LimitFacts, DurationsAssumption DEF Reopened, At
<1>17. CASE Pong
  BY <1>17, BoundFacts, LimitFacts, DurationsAssumption, SendFacts
     DEF Pong, At
<1>18. CASE SendInfo
  BY <1>18, BoundFacts, LimitFacts, DurationsAssumption, SendFacts
     DEF SendInfo, At
<1>19. CASE HandlerReturns
  BY <1>19, BoundFacts, LimitFacts, DurationsAssumption DEF HandlerReturns, At
<1>20. CASE LinkGone
  BY <1>20, BoundFacts, LimitFacts, DurationsAssumption DEF LinkGone, At
<1>21. CASE HeartbeatTimeout
  BY <1>21, BoundFacts, LimitFacts, DurationsAssumption
     DEF HeartbeatTimeout, At, Drop, Overdue
<1>22. CASE Ping
  BY <1>22, BoundFacts, LimitFacts, DurationsAssumption, SendFacts
     DEF Ping, At, Overdue, PingDue
<1>23. CASE LoginTimeout
  BY <1>23, BoundFacts, LimitFacts, DurationsAssumption
     DEF LoginTimeout, At, Drop
<1>24. CASE Reconnect
  BY <1>24, BoundFacts, LimitFacts, DurationsAssumption
     DEF Reconnect, At, Drop, RetryDue
<1>25. CASE NothingDue
  BY <1>25, BoundFacts, LimitFacts, DurationsAssumption
     DEF NothingDue, At, Overdue, PingDue, RetryDue
<1>26. CASE ConnectFails
  BY <1>26, BoundFacts, LimitFacts, DurationsAssumption DEF ConnectFails, At
<1>27. CASE LoginSent
  BY <1>27, BoundFacts, LimitFacts, DurationsAssumption DEF LoginSent, At
<1>28. CASE LoginNotSent
  BY <1>28, BoundFacts, LimitFacts, DurationsAssumption DEF LoginNotSent, At
<1>29. CASE ServerAnswers
  BY <1>29, BoundFacts, LimitFacts, DurationsAssumption
     DEF ServerAnswers, Answered
<1>30. CASE ServerSends
  BY <1>30, BoundFacts, LimitFacts, DurationsAssumption DEF ServerSends, Odd
<1>31. CASE PeerCloses
  BY <1>31, BoundFacts, LimitFacts, DurationsAssumption DEF PeerCloses
<1>32. CASE Heal
  BY <1>32, BoundFacts, LimitFacts, DurationsAssumption DEF Heal
<1>33. CASE Tick
  <2> SUFFICES ASSUME Live, state = "CONNECTED" PROVE InOK'
    BY <1>33, TickFacts
  <2>1. /\ ageIn' \in Nat /\ ageIn' <= ageIn + 1
        /\ spent' = spent + 1 /\ spent' <= Limit
    BY <1>33, TickFacts
  <2>2. pc' = pc /\ pc \notin {"input", "info", "pong", "timers"}
    BY <1>33, <2>1, TickFacts, LimitFacts
  <2>3. Heartbeat + 3 * Timeout \in Nat /\ Gap \in Nat
    BY DurationsAssumption
  <2> QED
    BY <2>1, <2>2, <2>3, SMTT(30)
<1>34. CASE UNCHANGED vars
  BY <1>34 DEF vars
<1> QED
  BY <1>1, <1>2, <1>3, <1>4, <1>5, <1>6, <1>7, <1>8, <1>9, <1>10, <1>11,
     <1>12, <1>13, <1>14, <1>15, <1>16, <1>17, <1>18, <1>19, <1>20, <1>21,
     <1>22, <1>23, <1>24, <1>25, <1>26, <1>27, <1>28, <1>29, <1>30, <1>31,
     <1>32, <1>33, <1>34
     DEF Next, Sketch, Client, Input, Timers, Connecting, Server

\* The time since the server last heard from the client: a beat is never
\* noted without a command, so where run() finds no ping due the last command
\* is a heartbeat or a timeout old at most.
LEMMA OutStep == TypeOK /\ ControlOK /\ OutOK /\ [Next]_vars => OutOK'
<1> SUFFICES ASSUME TypeOK, ControlOK, OutOK, [Next]_vars PROVE OutOK'
  OBVIOUS
<1> USE DEF wire, ages, control, caller, world, TypeOK, AgeType, ControlType,
            WireType, ControlOK, OutOK, Live
<1>1. CASE SketchSend
  <2> SUFFICES ASSUME Live' PROVE OutOK'
    OBVIOUS
  <2>1. /\ link' = link /\ ageOut' \in {ageOut, 0} /\ pc \in {"handler", "idle"}
        /\ UNCHANGED <<pc, spent, ageBeat>>
    BY <1>1, SendFacts DEF SketchSend, SketchRuns
  <2>2. Max({Heartbeat, Timeout}) \in Nat /\ Gap \in Nat
    BY BoundFacts, DurationsAssumption
  <2> QED
    BY <2>1, <2>2
<1>2. CASE SketchDisconnect
  BY <1>2, BoundFacts, LimitFacts, DurationsAssumption
     DEF SketchDisconnect, SketchRuns, Drop
<1>3. CASE SketchConnect
  BY <1>3, BoundFacts, LimitFacts, DurationsAssumption DEF SketchConnect, Drop
<1>4. CASE ConnectReturns
  BY <1>4, BoundFacts, LimitFacts, DurationsAssumption
     DEF ConnectReturns, Drop
<1>5. CASE Run
  BY <1>5, BoundFacts, LimitFacts, DurationsAssumption DEF Run, At
<1>6. CASE InputGone
  BY <1>6, BoundFacts, LimitFacts, DurationsAssumption DEF InputGone, At
<1>7. CASE ReadReady
  BY <1>7, BoundFacts, LimitFacts, DurationsAssumption, SMTT(30)
     DEF ReadReady, Reads, Pop, At
<1>8. CASE ReadRefusal
  BY <1>8, BoundFacts, LimitFacts, DurationsAssumption
     DEF ReadRefusal, Reads, Fail, Drop, At
<1>9. CASE ReadAnswer
  BY <1>9, BoundFacts, LimitFacts, DurationsAssumption
     DEF ReadAnswer, Reads, Pop, At
<1>10. CASE ReadGarbled
  BY <1>10, BoundFacts, LimitFacts, DurationsAssumption
     DEF ReadGarbled, Reads, Pop, At
<1>11. CASE ReadOdd
  BY <1>11, BoundFacts, LimitFacts, DurationsAssumption, SMTT(30)
     DEF ReadOdd, Reads, Drop, At
<1>12. CASE ReadPing
  BY <1>12, BoundFacts, LimitFacts, DurationsAssumption
     DEF ReadPing, Reads, Pop, At
<1>13. CASE ReadRedirect
  BY <1>13, BoundFacts, LimitFacts, DurationsAssumption
     DEF ReadRedirect, Reads, Drop, At
<1>14. CASE ReadHardware
  BY <1>14, BoundFacts, LimitFacts, DurationsAssumption
     DEF ReadHardware, Reads, Pop, At
<1>15. CASE ReadingEnds
  BY <1>15, BoundFacts, LimitFacts, DurationsAssumption
     DEF ReadingEnds, Fail, Drop, At
<1>16. CASE Reopened
  BY <1>16, BoundFacts, LimitFacts, DurationsAssumption DEF Reopened, At
<1>17. CASE Pong
  BY <1>17, BoundFacts, LimitFacts, DurationsAssumption, SendFacts
     DEF Pong, At
<1>18. CASE SendInfo
  BY <1>18, BoundFacts, LimitFacts, DurationsAssumption, SendFacts
     DEF SendInfo, At, Skipped
<1>19. CASE HandlerReturns
  BY <1>19, BoundFacts, LimitFacts, DurationsAssumption DEF HandlerReturns, At
<1>20. CASE LinkGone
  BY <1>20, BoundFacts, LimitFacts, DurationsAssumption DEF LinkGone, At
<1>21. CASE HeartbeatTimeout
  BY <1>21, BoundFacts, LimitFacts, DurationsAssumption
     DEF HeartbeatTimeout, At, Drop, Overdue
<1>22. CASE Ping
  BY <1>22, BoundFacts, LimitFacts, DurationsAssumption, SendFacts
     DEF Ping, At, Overdue, PingDue, Skipped
<1>23. CASE LoginTimeout
  BY <1>23, BoundFacts, LimitFacts, DurationsAssumption
     DEF LoginTimeout, At, Drop
<1>24. CASE Reconnect
  BY <1>24, BoundFacts, LimitFacts, DurationsAssumption
     DEF Reconnect, At, Drop, RetryDue
<1>25. CASE NothingDue
  BY <1>25, BoundFacts, LimitFacts, DurationsAssumption
     DEF NothingDue, At, Overdue, PingDue, RetryDue
<1>26. CASE ConnectFails
  BY <1>26, BoundFacts, LimitFacts, DurationsAssumption DEF ConnectFails, At
<1>27. CASE LoginSent
  BY <1>27, BoundFacts, LimitFacts, DurationsAssumption DEF LoginSent, At
<1>28. CASE LoginNotSent
  BY <1>28, BoundFacts, LimitFacts, DurationsAssumption DEF LoginNotSent, At
<1>29. CASE ServerAnswers
  BY <1>29, BoundFacts, LimitFacts, DurationsAssumption
     DEF ServerAnswers, Answered
<1>30. CASE ServerSends
  BY <1>30, BoundFacts, LimitFacts, DurationsAssumption DEF ServerSends, Odd
<1>31. CASE PeerCloses
  BY <1>31, BoundFacts, LimitFacts, DurationsAssumption DEF PeerCloses
<1>32. CASE Heal
  BY <1>32, BoundFacts, LimitFacts, DurationsAssumption DEF Heal
<1>33. CASE Tick
  <2> SUFFICES ASSUME Live PROVE OutOK'
    BY <1>33, TickFacts
  <2>1. /\ ageOut' \in Nat /\ ageOut' <= ageOut + 1
        /\ spent' = spent + 1 /\ spent' <= Limit
        /\ ageBeat' <= Retry => ageBeat' = ageBeat + 1
    BY <1>33, TickFacts, CapFacts, DurationsAssumption
  <2>2. pc' = pc /\ pc \notin {"input", "info", "pong", "timers"}
    BY <1>33, <2>1, TickFacts, LimitFacts
  <2>3. Max({Heartbeat, Timeout}) \in Nat /\ Gap \in Nat /\ Retry \in Nat
    BY BoundFacts, DurationsAssumption
  <2> QED
    BY <2>1, <2>2, <2>3, SMTT(30)
<1>34. CASE UNCHANGED vars
  BY <1>34 DEF vars
<1> QED
  BY <1>1, <1>2, <1>3, <1>4, <1>5, <1>6, <1>7, <1>8, <1>9, <1>10, <1>11,
     <1>12, <1>13, <1>14, <1>15, <1>16, <1>17, <1>18, <1>19, <1>20, <1>21,
     <1>22, <1>23, <1>24, <1>25, <1>26, <1>27, <1>28, <1>29, <1>30, <1>31,
     <1>32, <1>33, <1>34
     DEF Next, Sketch, Client, Input, Timers, Connecting, Server

\* The time since the last attempt to log in.
LEMMA BackoffStep ==
  TypeOK /\ ControlOK /\ BackoffOK /\ [Next]_vars => BackoffOK'
<1> SUFFICES ASSUME TypeOK, ControlOK, BackoffOK, [Next]_vars PROVE BackoffOK'
  OBVIOUS
<1> USE DEF wire, ages, control, caller, world, TypeOK, FlagType, AgeType,
            ControlType, BackoffOK
<1>1. CASE Sketch
  BY <1>1, SendFacts
     DEF Sketch, SketchSend, SketchRuns, SketchDisconnect, Drop, SketchConnect
<1>2. CASE Input
  BY <1>2, CapFacts, DurationsAssumption, SendFacts
     DEF Input, InputGone, At, ReadReady, Reads, Pop, ReadRefusal, Fail, Drop,
         ReadAnswer, ReadGarbled, ReadOdd, ReadPing, ReadRedirect,
         ReadHardware, ReadingEnds, Reopened, Pong, SendInfo
<1>3. CASE Timers
  BY <1>3, CapFacts, AtMostFacts, SendFacts
     DEF Timers, LinkGone, At, HeartbeatTimeout, Drop, Overdue, Ping, PingDue,
         LoginTimeout, Reconnect, RetryDue, NothingDue
<1>4. CASE Connecting
  BY <1>4, CapFacts, AtMostFacts
     DEF Connecting, ConnectFails, At, LoginSent, LoginNotSent
<1>5. CASE Run \/ HandlerReturns \/ ConnectReturns
  BY <1>5 DEF Run, At, HandlerReturns, ConnectReturns, Drop
<1>6. CASE Server \/ PeerCloses \/ Heal
  BY <1>6
     DEF Server, ServerAnswers, Answered, ServerSends, Odd, PeerCloses, Heal
<1>7. CASE Tick
  BY <1>7, TickFacts, AtMostFacts, CapFacts
<1>8. CASE UNCHANGED vars
  BY <1>8 DEF vars
<1> QED
  BY <1>1, <1>2, <1>3, <1>4, <1>5, <1>6, <1>7, <1>8 DEF Next, Client

-----------------------------------------------------------------------------
(* The invariant and the properties *)

\* The object starts without a connection.
LEMMA InitIInv == Init => IInv
<1> SUFFICES ASSUME Init PROVE IInv
  OBVIOUS
<1>1. Max({InCap, OutCap}) \in Nat
  BY CapFacts, MaxOf2
<1>2. PICK boot \in Nat :
        /\ ageIn = AtMost(boot, InCap) /\ ageOut = AtMost(boot, OutCap)
        /\ ageBeat = AtMost(boot, BeatCap)
  BY <1>1 DEF Init
<1>3. AgeType
  BY <1>2, CapFacts, AtMostFacts, DurationsAssumption DEF Init, AgeType
<1>4. TypeOK
  <2>1. FlagType /\ ControlType
    BY DEF Init, FlagType, ControlType, Places
  <2>2. WireType
    BY DEF Init, WireType
  <2> QED
    BY <1>3, <2>1, <2>2 DEF TypeOK
<1>5. ControlOK
  BY LimitFacts DEF Init, ControlOK
<1>6. SessionOK /\ InOK /\ OutOK
  BY DEF Init, SessionOK, SessionOpen, Up, InOK, OutOK, Live
<1>7. BackoffOK
  BY <1>3, CapFacts DEF Init, BackoffOK, AgeType
<1> QED
  BY <1>4, <1>5, <1>6, <1>7 DEF IInv

\* Every step keeps the invariant.
LEMMA NextIInv == IInv /\ [Next]_vars => IInv'
<1> SUFFICES ASSUME IInv, [Next]_vars PROVE IInv'
  OBVIOUS
<1>1. TypeOK'
  BY FlagStep, WireStep, AgeStep, ControlTypeStep DEF IInv, TypeOK
<1>2. ControlOK' /\ SessionOK'
  BY ControlStep, SessionStep DEF IInv
<1>3. InOK' /\ OutOK' /\ BackoffOK'
  BY InStep, OutStep, BackoffStep DEF IInv
<1> QED
  BY <1>1, <1>2, <1>3 DEF IInv

\* The inductive invariant holds in every state the client reaches.
THEOREM Invariance == Spec => []IInv
<1>1. Init => IInv
  BY InitIInv
<1>2. IInv /\ [Next]_vars => IInv'
  BY NextIInv
<1> QED
  BY <1>1, <1>2, PTL DEF Spec

\* Every variable of the session stays within its type, and every age below
\* its cap.
THEOREM TypeCorrect == Spec => []TypeOK
<1>1. IInv => TypeOK
  BY DEF IInv
<1> QED
  BY <1>1, Invariance, PTL

\* processInput: a connected client on a live link has a session there, or
\* the link was reopened after a message of odd type or length.
THEOREM SessionTheorem == Spec => []SessionOpen
<1>1. IInv => SessionOpen
  BY DEF IInv, SessionOK
<1> QED
  BY <1>1, Invariance, PTL

\* run(), "Heartbeat timeout": for all durations, a connected client with a
\* live link has read something within InBound.
THEOREM DeadPeerTheorem == Spec => []DeadPeerDetected
<1>1. IInv => DeadPeerDetected
  <2> SUFFICES ASSUME IInv, Up PROVE ageIn <= InBound
    BY DEF DeadPeerDetected
  <2>1. /\ state = "CONNECTED" /\ link = "up" /\ InOK
        /\ pc \in Places \ {"connecting"}
        /\ spent \in Nat /\ spent <= Limit /\ ageIn \in Nat
    BY DEF Up, IInv, ControlOK, TypeOK, ControlType, AgeType
  <2> QED
    BY <2>1, BoundFacts, LimitFacts, DurationsAssumption DEF InOK, Live, Places
<1> QED
  BY <1>1, Invariance, PTL

\* run(), "Send ping": for all durations, a connected client with a live link
\* has sent something within OutBound.
THEOREM KeepAliveTheorem == Spec => []KeepAlive
<1>1. IInv => KeepAlive
  <2> SUFFICES ASSUME IInv, Up PROVE ageOut <= OutBound
    BY DEF KeepAlive
  <2>1. /\ state = "CONNECTED" /\ link = "up" /\ OutOK
        /\ pc \in Places \ {"connecting"}
        /\ spent \in Nat /\ spent <= Limit /\ ageOut \in Nat
    BY DEF Up, IInv, ControlOK, TypeOK, ControlType, AgeType
  <2> QED
    BY <2>1, BoundFacts, LimitFacts, DurationsAssumption DEF OutOK, Live, Places
<1> QED
  BY <1>1, Invariance, PTL

\* Only a new connect() of the sketch ends what disconnect() began.
LEMMA DisconnectStep ==
  TypeOK /\ ControlOK /\ [Next]_vars =>
    (state = "DISCONNECTED" =>
     /\ link' = "none"
     /\ state' = "DISCONNECTED" \/ (pc = "idle" /\ waiting' # "no"))
<1> SUFFICES ASSUME TypeOK, ControlOK, [Next]_vars, state = "DISCONNECTED"
             PROVE  /\ link' = "none"
                    /\ state' = "DISCONNECTED" \/ (pc = "idle" /\ waiting' # "no")
  OBVIOUS
<1> USE DEF wire, ages, control, caller, world, TypeOK, WireType, ControlOK
<1>1. CASE Sketch
  BY <1>1, SwitchesAssumption, SendFacts
     DEF Sketch, SketchSend, SketchRuns, SketchDisconnect, Drop, SketchConnect
<1>2. CASE Input
  BY <1>2, SendFacts
     DEF Input, InputGone, At, ReadReady, Reads, Pop, ReadRefusal, Fail, Drop,
         ReadAnswer, ReadGarbled, ReadOdd, ReadPing, ReadRedirect,
         ReadHardware, ReadingEnds, Reopened, Pong, SendInfo
<1>3. CASE Timers
  BY <1>3, SendFacts
     DEF Timers, LinkGone, At, HeartbeatTimeout, Drop, Overdue, Ping, PingDue,
         LoginTimeout, Reconnect, RetryDue, NothingDue
<1>4. CASE Connecting
  BY <1>4 DEF Connecting, ConnectFails, At, LoginSent, LoginNotSent
<1>5. CASE Run \/ HandlerReturns \/ ConnectReturns
  BY <1>5 DEF Run, At, HandlerReturns, ConnectReturns, Drop
<1>6. CASE Server \/ PeerCloses \/ Heal
  BY <1>6
     DEF Server, ServerAnswers, Answered, ServerSends, Odd, PeerCloses, Heal
<1>7. CASE Tick
  BY <1>7 DEF Tick, Limit
<1>8. CASE UNCHANGED vars
  BY <1>8 DEF vars
<1> QED
  BY <1>1, <1>2, <1>3, <1>4, <1>5, <1>6, <1>7, <1>8 DEF Next, Client

\* BlynkApi.h, disconnect(): until connect() is called again there is no link
\* and no attempt to get one, for all constants.
THEOREM DisconnectTheorem == Spec => DisconnectSticks
<1>1. IInv /\ [Next]_vars =>
        [ state = "DISCONNECTED" =>
            /\ link' = "none"
            /\ state' = "DISCONNECTED" \/ (pc = "idle" /\ waiting' # "no") ]_vars
  BY DisconnectStep DEF IInv
<1> QED
  BY <1>1, Invariance, PTL DEF Spec, DisconnectSticks

\* run() turns to connecting only when its retry timer is due.
LEMMA ReconnectOnly ==
  TypeOK /\ [Next]_vars => (pc = "timers" /\ pc' = "connecting" => RetryDue)
<1> SUFFICES ASSUME TypeOK, [Next]_vars
             PROVE  pc = "timers" /\ pc' = "connecting" => RetryDue
  OBVIOUS
<1> USE DEF wire, ages, control, caller, world, TypeOK
<1>1. CASE Sketch
  BY <1>1, SendFacts
     DEF Sketch, SketchSend, SketchRuns, SketchDisconnect, Drop, SketchConnect
<1>2. CASE Input
  BY <1>2, SendFacts
     DEF Input, InputGone, At, ReadReady, Reads, Pop, ReadRefusal, Fail, Drop,
         ReadAnswer, ReadGarbled, ReadOdd, ReadPing, ReadRedirect,
         ReadHardware, ReadingEnds, Reopened, Pong, SendInfo
<1>3. CASE Timers
  BY <1>3, SendFacts
     DEF Timers, LinkGone, At, HeartbeatTimeout, Drop, Overdue, Ping, PingDue,
         LoginTimeout, Reconnect, RetryDue, NothingDue
<1>4. CASE Connecting
  BY <1>4 DEF Connecting, ConnectFails, At, LoginSent, LoginNotSent
<1>5. CASE Run \/ HandlerReturns \/ ConnectReturns
  BY <1>5 DEF Run, At, HandlerReturns, ConnectReturns, Drop
<1>6. CASE Server \/ PeerCloses \/ Heal
  BY <1>6
     DEF Server, ServerAnswers, Answered, ServerSends, Odd, PeerCloses, Heal
<1>7. CASE Tick
  BY <1>7 DEF Tick, Limit
<1>8. CASE UNCHANGED vars
  BY <1>8 DEF vars
<1> QED
  BY <1>1, <1>2, <1>3, <1>4, <1>5, <1>6, <1>7, <1>8 DEF Next, Client

\* run(), "t - lastLogin > 5000UL": two attempts to log in lie Retry apart,
\* but for a redirect and a login that could not be written.
THEOREM BackoffTheorem == Spec => Backoff
<1>1. IInv /\ [Next]_vars =>
        [ pc = "timers" /\ pc' = "connecting" => ageTry > Retry \/ excused ]_vars
  <2> SUFFICES ASSUME IInv, [Next]_vars, pc = "timers", pc' = "connecting"
               PROVE  ageTry > Retry \/ excused
    OBVIOUS
  <2>1. /\ ageBeat \in Nat /\ ageTry \in Nat /\ excused \in BOOLEAN
        /\ excused \/ ageBeat <= ageTry
    BY DEF IInv, TypeOK, FlagType, AgeType, BackoffOK
  <2>2. ageBeat > Retry
    BY ReconnectOnly DEF RetryDue, IInv
  <2> QED
    BY <2>1, <2>2, DurationsAssumption
<1> QED
  BY <1>1, Invariance, PTL DEF Spec, Backoff

-----------------------------------------------------------------------------
(* A server that answers at once *)

\* The heartbeat timeout covers the time until a ping is due and the gap
\* before its answer is read, and it covers a handler.
PingInTime ==
  /\ Max({Heartbeat, Timeout}) + Gap <= Heartbeat + 3 * Timeout
  /\ HandlerTime <= Heartbeat + 3 * Timeout

\* What a client reads from a server that does its job.
Plain == {"ready", "answer", "hardware", "ping"}

\* A connection made when all was well carries nothing else.
SoundOK ==
  sound =>
    /\ healthy /\ pc # "reopening"
    /\ link = "up" => /\ pc # "reading" /\ session \in {"asked", "open"}
                      /\ inbox \in Seq(Plain) /\ "deny" \notin owed

\* With nothing under way the last message is no older than the last beat,
\* and the timers never see the heartbeat timeout pass.
Fresh ==
  /\ inbox = <<>> /\ owed = {} => ageIn <= ageBeat \/ ageBeat = BeatCap
  /\ pc = "timers" => ageIn <= Heartbeat + 3 * Timeout
  /\ pc = "idle" /\ inbox = <<>> =>
       ageIn <= IF owed = {} THEN Max({Heartbeat, Timeout}) + spent
                             ELSE Heartbeat + 3 * Timeout

FreshOK == Up /\ sound => Fresh

\* On a sound connection each message is one of the plain ones.
LEMMA ReadsPlain ==
  ASSUME TypeOK, SoundOK, sound, NEW m, Reads(m)
  PROVE  m \in Plain /\ link = "up" /\ Tail(inbox) \in Seq(Plain)
<1>1. inbox # <<>> /\ m = Head(inbox) /\ link = "up"
  BY DEF Reads, TypeOK, WireType
<1>2. inbox \in Seq(Plain)
  BY <1>1 DEF SoundOK
<1> QED
  BY <1>1, <1>2, HeadTailProperties

\* A command on a sound connection is skipped or written, if it keeps to the
\* message limit.
LEMMA SoundSends ==
  ASSUME Paced, SessionOK, SoundOK, sound, NEW cmd \in {"HARDWARE", "RESPONSE", "INFO", "PING"},
         cmd = "PING" => state = "CONNECTED",
         sendCmd(cmd)
  PROVE  /\ UNCHANGED <<link, session, inbox, state>>
         /\ link = "up" => owed' = IF cmd = "PING" THEN owed \cup {"ping"} ELSE owed
<1>1. healthy
  BY DEF SoundOK
<1>2. CASE Skipped(cmd)
  <2>1. UNCHANGED <<link, session, inbox, owed, state>>
    BY <1>1, <1>2 DEF sendCmd, wire
  <2>2. link = "up" => cmd # "PING"
    BY <1>2 DEF Skipped
  <2> QED
    BY <2>1, <2>2
<1>3. CASE ~Skipped(cmd)
  <2>1. UNCHANGED <<link, session, inbox, state>> /\ owed' = owed \cup Asks(cmd)
    BY <1>1, <1>3 DEF sendCmd, WriteFails, FloodError
  <2>2. cmd # "RESPONSE" => session = "open"
    BY <1>3 DEF Skipped, SoundOK, SessionOK, SessionOpen, Up
  <2>3. CASE cmd = "PING"
    BY <2>1, <2>2, <2>3 DEF Asks
  <2>4. CASE cmd # "PING"
    <3>1. Asks(cmd) = {}
      BY <2>2, <2>4 DEF Asks
    <3> QED
      BY <2>1, <2>4, <3>1
  <2> QED
    BY <2>3, <2>4
<1> QED
  BY <1>2, <1>3

\* A sound connection stays one.
LEMMA SoundStep ==
  ASSUME Paced
  PROVE  TypeOK /\ ControlOK /\ SessionOK /\ SoundOK /\ [Next]_vars => SoundOK'
<1> SUFFICES ASSUME TypeOK, ControlOK, SessionOK, SoundOK, [Next]_vars, sound'
             PROVE  /\ healthy' /\ pc' # "reopening"
                    /\ link' = "up" =>
                         /\ pc' # "reading" /\ session' \in {"asked", "open"}
                         /\ inbox' \in Seq(Plain) /\ "deny" \notin owed'
  BY DEF SoundOK
<1> DEFINE Good == /\ healthy' /\ pc' # "reopening"
                   /\ link' = "up" =>
                        /\ pc' # "reading" /\ session' \in {"asked", "open"}
                        /\ inbox' \in Seq(Plain) /\ "deny" \notin owed'
<1>a. ASSUME sound, UNCHANGED <<wire, healthy, sound>>,
             pc' = pc \/ pc' \notin {"reading", "reopening"}
      PROVE  Good
  BY <1>a DEF SoundOK, wire
<1>b. ASSUME sound, UNCHANGED <<healthy, sound>>, link' = "none", pc' # "reopening"
      PROVE  Good
  BY <1>b DEF SoundOK
<1>c. ASSUME NEW m, Reads(m), sound, Pop, UNCHANGED <<healthy, sound>>,
             pc' \notin {"reading", "reopening"}
      PROVE  Good
  BY <1>c, ReadsPlain DEF SoundOK, Pop
<1>d. ASSUME NEW cmd \in {"HARDWARE", "RESPONSE", "INFO", "PING"}, sound,
             cmd = "PING" => state = "CONNECTED", sendCmd(cmd),
             UNCHANGED <<healthy, sound>>,
             pc' = pc \/ pc' \notin {"reading", "reopening"}
      PROVE  Good
  BY <1>d, SoundSends DEF SoundOK
<1> USE DEF control, caller, world
<1>1. CASE SketchSend
  BY <1>1, <1>d DEF SketchSend
<1>2. CASE SketchDisconnect
  BY <1>2, <1>b DEF SketchDisconnect, Drop, SoundOK
<1>3. CASE SketchConnect
  BY <1>3, <1>b DEF SketchConnect, Drop
<1>4. CASE ConnectReturns
  BY <1>4, <1>a, <1>b DEF ConnectReturns, Drop, wire
<1>5. CASE Run
  BY <1>5, <1>a DEF Run, At
<1>6. CASE InputGone
  <2>1. link # "up" /\ link' = link /\ sound /\ pc' # "reopening" /\ healthy' = healthy
    BY <1>6 DEF InputGone, At, ControlOK, wire
  <2> QED
    BY <2>1 DEF SoundOK
<1>7. CASE ReadReady
  BY <1>7, <1>c DEF ReadReady, At
<1>8. CASE ReadRefusal
  BY <1>8, <1>b DEF ReadRefusal, Fail, Drop, At
<1>9. CASE ReadAnswer
  BY <1>9, <1>c DEF ReadAnswer, At
<1>10. CASE ReadGarbled
  BY <1>10, ReadsPlain DEF ReadGarbled, Plain
<1>11. CASE ReadOdd
  BY <1>11, ReadsPlain DEF ReadOdd, Plain
<1>12. CASE ReadPing
  BY <1>12, <1>c DEF ReadPing, At
<1>13. CASE ReadRedirect
  BY <1>13, ReadsPlain DEF ReadRedirect, Plain
<1>14. CASE ReadHardware
  BY <1>14, <1>c DEF ReadHardware, At
<1>15. CASE ReadingEnds
  BY <1>15, <1>b DEF ReadingEnds, Fail, Drop, At
<1>16. CASE Reopened
  BY <1>16 DEF Reopened, SoundOK
<1>17. CASE Pong
  BY <1>17, <1>d DEF Pong, At
<1>18. CASE SendInfo
  BY <1>18, <1>d DEF SendInfo, At
<1>19. CASE HandlerReturns
  BY <1>19, <1>a DEF HandlerReturns, At
<1>20. CASE LinkGone
  BY <1>20, <1>a DEF LinkGone, At
<1>21. CASE HeartbeatTimeout
  BY <1>21, <1>b DEF HeartbeatTimeout, At, Drop
<1>22. CASE Ping
  BY <1>22, <1>d DEF Ping, At
<1>23. CASE LoginTimeout
  BY <1>23, <1>b DEF LoginTimeout, At, Drop
<1>24. CASE Reconnect
  BY <1>24, <1>b DEF Reconnect, At, Drop
<1>25. CASE NothingDue
  BY <1>25, <1>a DEF NothingDue, At
<1>26. CASE ConnectFails
  BY <1>26 DEF ConnectFails, SoundOK
<1>27. CASE LoginSent
  <2>1. /\ healthy' /\ pc' = "idle" /\ session' = "asked" /\ owed' = {"login"}
        /\ inbox' = inbox /\ link = "none"
    BY <1>27 DEF LoginSent, At, ControlOK
  <2>2. inbox = <<>>
    BY <2>1 DEF TypeOK, WireType
  <2> QED
    BY <2>1, <2>2
<1>28. CASE LoginNotSent
  BY <1>28 DEF LoginNotSent, SoundOK
<1>29. CASE ServerAnswers
  <2>1. /\ sound /\ healthy /\ "deny" \notin owed /\ inbox \in Seq(Plain)
        /\ session \in {"asked", "open"} /\ pc # "reading" /\ pc # "reopening"
    BY <1>29 DEF ServerAnswers, SoundOK
  <2>2. PICK a \in owed : \E m \in Answered(a) :
          /\ owed' = owed \ {a} /\ inbox' = Append(inbox, m)
          /\ session' = IF m = "ready" THEN "open" ELSE session
    BY <1>29 DEF ServerAnswers
  <2>3. PICK m \in Answered(a) :
          /\ owed' = owed \ {a} /\ inbox' = Append(inbox, m)
          /\ session' = IF m = "ready" THEN "open" ELSE session
    BY <2>2
  <2>4. a \in {"login", "ping"}
    BY <1>29, <2>1, <2>2 DEF TypeOK, WireType, Answers
  <2>5. m \in Plain
    BY <2>1, <2>3, <2>4 DEF Answered, Plain
  <2>6. Append(inbox, m) \in Seq(Plain)
    BY <2>1, <2>5, AppendProperties
  <2> QED
    BY <1>29, <2>1, <2>3, <2>6 DEF ServerAnswers
<1>30. CASE ServerSends
  <2>1. /\ sound /\ healthy /\ "deny" \notin owed /\ inbox \in Seq(Plain)
        /\ session \in {"asked", "open"} /\ pc # "reading" /\ pc # "reopening"
    BY <1>30 DEF ServerSends, SoundOK
  <2>2. PICK m \in Messages : (m \in Odd => ~healthy) /\ inbox' = Append(inbox, m)
    BY <1>30 DEF ServerSends
  <2>3. m \in Plain
    BY <2>1, <2>2, SwitchesAssumption DEF Odd, Plain
  <2>4. Append(inbox, m) \in Seq(Plain)
    BY <2>1, <2>3, AppendProperties
  <2> QED
    BY <1>30, <2>1, <2>2, <2>4 DEF ServerSends
<1>31. CASE PeerCloses
  BY <1>31 DEF PeerCloses, SoundOK
<1>32. CASE Heal
  BY <1>32 DEF Heal, SoundOK
<1>33. CASE Tick
  BY <1>33, <1>a DEF Tick
<1>34. CASE UNCHANGED vars
  BY <1>34, <1>a DEF vars
<1> QED
  BY <1>1, <1>2, <1>3, <1>4, <1>5, <1>6, <1>7, <1>8, <1>9, <1>10, <1>11,
     <1>12, <1>13, <1>14, <1>15, <1>16, <1>17, <1>18, <1>19, <1>20, <1>21,
     <1>22, <1>23, <1>24, <1>25, <1>26, <1>27, <1>28, <1>29, <1>30, <1>31,
     <1>32, <1>33, <1>34
     DEF Next, Sketch, Client, Input, Timers, Connecting, Server

\* The numbers that Fresh speaks of.
LEMMA FreshNumbers ==
  ASSUME TypeOK
  PROVE  /\ ageIn \in Nat /\ ageBeat \in Nat /\ spent \in Nat /\ BeatCap \in Nat
         /\ Max({Heartbeat, Timeout}) \in Nat /\ Heartbeat + 3 * Timeout \in Nat
<1>1. ageIn \in Nat /\ ageBeat \in Nat /\ spent \in Nat
  BY CapFacts DEF TypeOK, AgeType, ControlType
<1>2. Heartbeat + 3 * Timeout \in Nat
  BY DurationsAssumption
<1> QED
  BY <1>1, <1>2, BoundFacts, CapFacts

\* The timers are looked at before the heartbeat timeout, at every step.
LEMMA FreshStep ==
  ASSUME Paced, PingInTime
  PROVE  /\ TypeOK /\ ControlOK /\ SessionOK /\ InOK /\ SoundOK /\ FreshOK
         /\ [Next]_vars
         => FreshOK'
<1> SUFFICES ASSUME TypeOK, ControlOK, SessionOK, InOK, SoundOK, FreshOK, [Next]_vars,
                    state' = "CONNECTED", link' = "up", sound'
             PROVE  Fresh'
  BY DEF FreshOK, Up
<1> DEFINE Bound == Heartbeat + 3 * Timeout
           Due == Max({Heartbeat, Timeout})
<1>n. /\ ageIn \in Nat /\ ageBeat \in Nat /\ spent \in Nat /\ BeatCap \in Nat
      /\ Due \in Nat /\ Bound \in Nat
  BY FreshNumbers
<1>p. Due + Gap <= Bound /\ HandlerTime <= Bound
  BY DEF PingInTime
<1>o. state = "CONNECTED" /\ link = "up" /\ sound => Fresh
  BY DEF FreshOK, Up
<1> HIDE DEF Bound, Due
<1>f. /\ Fresh <=> /\ inbox = <<>> /\ owed = {} => ageIn <= ageBeat \/ ageBeat = BeatCap
                   /\ pc = "timers" => ageIn <= Bound
                   /\ pc = "idle" /\ inbox = <<>> =>
                        ageIn <= IF owed = {} THEN Due + spent ELSE Bound
      /\ Fresh' <=> /\ inbox' = <<>> /\ owed' = {} => ageIn' <= ageBeat' \/ ageBeat' = BeatCap
                    /\ pc' = "timers" => ageIn' <= Bound
                    /\ pc' = "idle" /\ inbox' = <<>> =>
                         ageIn' <= IF owed' = {} THEN Due + spent' ELSE Bound
  BY DEF Fresh, Bound, Due, BeatCap
\* Nothing that Fresh speaks of changes.
<1>a. ASSUME state = "CONNECTED", link = "up", sound,
             UNCHANGED <<inbox, owed, ageIn, ageBeat, pc, spent>>
      PROVE  Fresh'
  BY <1>a, <1>f, <1>o
\* A message has just been read.
<1>b. ASSUME ageIn' = 0, ageBeat' = ageBeat \/ ageBeat' = 0, pc' # "idle"
      PROVE  Fresh'
  <2>1. ageIn' <= Bound /\ ageIn' <= ageBeat'
    BY <1>b, <1>n
  <2> QED
    BY <1>b, <1>f, <2>1
\* run() goes on to its timers, or stays out of sight of them.
<1>c. ASSUME state = "CONNECTED", link = "up", sound,
             UNCHANGED <<inbox, owed, ageIn, ageBeat>>, pc' # "idle",
             pc' = "timers" => ageIn <= Bound
      PROVE  Fresh'
  BY <1>c, <1>f, <1>o
<1> USE DEF wire, ages, control, caller, world
<1>1. CASE SketchSend
  <2>1. sendCmd("HARDWARE") /\ sound /\ UNCHANGED <<pc, spent, ageIn, ageBeat>>
    BY <1>1 DEF SketchSend
  <2>2. UNCHANGED <<link, session, inbox, state>> /\ owed' = owed
    BY <2>1, SoundSends
  <2> QED
    BY <1>a, <2>1, <2>2
<1>2. CASE SketchDisconnect
  BY <1>2 DEF SketchDisconnect
<1>3. CASE SketchConnect
  BY <1>3 DEF SketchConnect
<1>4. CASE ConnectReturns
  BY <1>4, <1>a DEF ConnectReturns
<1>5. CASE Run
  <2>1. /\ pc = "idle" /\ state = "CONNECTED" /\ link = "up" /\ sound
        /\ UNCHANGED <<inbox, owed, ageIn, ageBeat>> /\ pc' # "idle"
        /\ pc' = "timers" => inbox = <<>>
    BY <1>5 DEF Run, At
  <2>2. spent <= Gap
    BY <2>1, LimitFacts DEF ControlOK
  <2>3. inbox = <<>> => ageIn <= Due + spent \/ ageIn <= Bound
    BY <1>f, <1>o, <2>1
  <2>4. inbox = <<>> => ageIn <= Bound
    BY <1>n, <1>p, <2>2, <2>3, DurationsAssumption
  <2> QED
    BY <1>c, <2>1, <2>4
<1>6. CASE InputGone
  BY <1>6 DEF InputGone, ControlOK
<1>7. CASE ReadReady
  BY <1>7, <1>b DEF ReadReady, At
<1>8. CASE ReadRefusal
  BY <1>8 DEF ReadRefusal, Fail, Drop
<1>9. CASE ReadAnswer
  BY <1>9, <1>b DEF ReadAnswer, At
<1>10. CASE ReadGarbled
  BY <1>10, ReadsPlain DEF ReadGarbled, Plain
<1>11. CASE ReadOdd
  BY <1>11 DEF ReadOdd, Drop
<1>12. CASE ReadPing
  BY <1>12, <1>b DEF ReadPing, At
<1>13. CASE ReadRedirect
  BY <1>13 DEF ReadRedirect, Drop
<1>14. CASE ReadHardware
  BY <1>14, <1>b DEF ReadHardware, At
<1>15. CASE ReadingEnds
  BY <1>15 DEF ReadingEnds, Fail, Drop
<1>16. CASE Reopened
  BY <1>16 DEF Reopened, SoundOK
<1>17. CASE Pong
  <2>1. /\ pc = "pong" /\ sound /\ sendCmd("RESPONSE") /\ pc' = "timers"
        /\ UNCHANGED <<ageIn, ageBeat>>
    BY <1>17 DEF Pong, At
  <2>2. UNCHANGED <<link, inbox, state, owed>>
    BY <2>1, SoundSends
  <2>3. ageIn <= spent /\ spent <= 0
    BY <2>1, <2>2, LimitFacts DEF InOK, Live, ControlOK
  <2>4. ageIn <= Bound
    BY <1>n, <2>3
  <2> QED
    BY <1>c, <2>1, <2>2, <2>4
<1>18. CASE SendInfo
  <2>1. /\ sound /\ sendCmd("INFO") /\ pc' = "handler" /\ UNCHANGED <<ageIn, ageBeat>>
    BY <1>18 DEF SendInfo, At
  <2>2. UNCHANGED <<link, inbox, state, owed>>
    BY <2>1, SoundSends
  <2> QED
    BY <1>c, <2>1, <2>2
<1>19. CASE HandlerReturns
  <2>1. /\ pc = "handler" /\ sound /\ pc' = "timers"
        /\ UNCHANGED <<link, inbox, state, owed, ageIn, ageBeat>>
    BY <1>19 DEF HandlerReturns, At
  <2>2. ageIn <= spent /\ spent <= HandlerTime
    BY <2>1, LimitFacts DEF InOK, Live, ControlOK
  <2>3. ageIn <= Bound
    BY <1>n, <1>p, <2>2, DurationsAssumption
  <2> QED
    BY <1>c, <2>1, <2>3
<1>20. CASE LinkGone
  BY <1>20 DEF LinkGone
<1>21. CASE HeartbeatTimeout
  BY <1>21 DEF HeartbeatTimeout
<1>22. CASE Ping
  <2>1. /\ sound /\ state = "CONNECTED" /\ sendCmd("PING") /\ ageIn <= Bound
        /\ ageIn' = ageIn /\ pc' = "idle"
    BY <1>22, <1>n DEF Ping, At, Overdue, Bound
  <2>2. link' = link /\ owed' = owed \cup {"ping"}
    BY <2>1, SoundSends
  <2>3. owed' # {}
    BY <2>2
  <2> QED
    BY <1>f, <2>1, <2>3
<1>23. CASE LoginTimeout
  BY <1>23 DEF LoginTimeout, Drop
<1>24. CASE Reconnect
  BY <1>24 DEF Reconnect, Drop
<1>25. CASE NothingDue
  <2>1. /\ sound /\ state = "CONNECTED" /\ link = "up" /\ ~Overdue /\ ~PingDue
        /\ UNCHANGED <<inbox, owed, ageIn, ageBeat>> /\ pc' = "idle" /\ spent' = 0
    BY <1>25 DEF NothingDue, At
  <2>2. ageIn <= Bound /\ (ageIn <= Heartbeat \/ ageBeat <= Timeout)
    BY <1>n, <2>1, DurationsAssumption DEF Overdue, PingDue, Bound
  <2>3. ageBeat <= Timeout => ageBeat # BeatCap
    BY <1>n, CapFacts, DurationsAssumption
  <2>4. Heartbeat <= Due /\ Timeout <= Due
    BY BoundFacts DEF Due
  <2>5. inbox = <<>> /\ owed = {} => ageIn <= ageBeat \/ ageBeat = BeatCap
    BY <1>f, <1>o, <2>1
  <2>6. inbox = <<>> /\ owed = {} => ageIn <= Due + 0
    BY <1>n, <2>2, <2>3, <2>4, <2>5, DurationsAssumption
  <2> QED
    BY <1>f, <2>1, <2>2, <2>5, <2>6
<1>26. CASE ConnectFails
  BY <1>26 DEF ConnectFails, SoundOK
<1>27. CASE LoginSent
  BY <1>27 DEF LoginSent, ControlOK
<1>28. CASE LoginNotSent
  BY <1>28 DEF LoginNotSent
<1>29. CASE ServerAnswers
  <2>1. PICK m : inbox' = Append(inbox, m)
    BY <1>29 DEF ServerAnswers
  <2>2. inbox \in Seq(Message)
    BY DEF TypeOK, WireType
  <2>3. inbox' # <<>>
    BY <2>1, <2>2
  <2>4. /\ sound /\ state = "CONNECTED" /\ link = "up"
        /\ UNCHANGED <<ageIn, ageBeat, pc, spent>>
    BY <1>29 DEF ServerAnswers
  <2> QED
    BY <1>f, <1>o, <2>3, <2>4
<1>30. CASE ServerSends
  <2>1. PICK m : inbox' = Append(inbox, m)
    BY <1>30 DEF ServerSends
  <2>2. inbox \in Seq(Message)
    BY DEF TypeOK, WireType
  <2>3. inbox' # <<>>
    BY <2>1, <2>2
  <2>4. /\ sound /\ state = "CONNECTED" /\ link = "up"
        /\ UNCHANGED <<ageIn, ageBeat, pc, spent>>
    BY <1>30 DEF ServerSends
  <2> QED
    BY <1>f, <1>o, <2>3, <2>4
<1>31. CASE PeerCloses
  BY <1>31 DEF PeerCloses
<1>32. CASE Heal
  BY <1>32, <1>a DEF Heal
<1>33. CASE Tick
  <2>1. /\ UNCHANGED <<link, inbox, owed, state, pc>> /\ sound /\ spent' = spent + 1
        /\ ageIn' = IF ageIn < InCap THEN ageIn + 1 ELSE ageIn
        /\ ageBeat' = IF ageBeat < BeatCap THEN ageBeat + 1 ELSE ageBeat
    BY <1>33, TickFacts
  <2>2. owed = {} /\ pc # "timers"
    BY <1>33, <1>n, <2>1, LimitFacts DEF Tick, SoundOK
  <2>3. InCap \in Nat /\ ageBeat <= BeatCap
    BY CapFacts DEF TypeOK, AgeType
  <2>4. ageIn <= ageBeat \/ ageBeat = BeatCap => ageIn' <= ageBeat' \/ ageBeat' = BeatCap
    BY <1>n, <2>1, <2>3
  <2>5. ageIn <= Due + spent => ageIn' <= Due + spent'
    BY <1>n, <2>1, <2>3
  <2> QED
    BY <1>f, <1>o, <2>1, <2>2, <2>4, <2>5
<1>34. CASE UNCHANGED vars
  BY <1>34, <1>a DEF vars
<1> QED
  BY <1>1, <1>2, <1>3, <1>4, <1>5, <1>6, <1>7, <1>8, <1>9, <1>10, <1>11,
     <1>12, <1>13, <1>14, <1>15, <1>16, <1>17, <1>18, <1>19, <1>20, <1>21,
     <1>22, <1>23, <1>24, <1>25, <1>26, <1>27, <1>28, <1>29, <1>30, <1>31,
     <1>32, <1>33, <1>34
     DEF Next, Sketch, Client, Input, Timers, Connecting, Server

\* Only the sketch hangs up on a sound connection.
LEMMA StaysStep ==
  ASSUME Paced
  PROVE  TypeOK /\ ControlOK /\ SessionOK /\ SoundOK /\ FreshOK /\ [Next]_vars =>
           (Up /\ sound => Up' \/ SketchDisconnect \/ SketchConnect)
<1> SUFFICES ASSUME TypeOK, ControlOK, SessionOK, SoundOK, [Next]_vars,
                    state = "CONNECTED", link = "up", sound, Fresh,
                    ~SketchDisconnect, ~SketchConnect
             PROVE  state' = "CONNECTED" /\ link' = "up"
  BY DEF Up, FreshOK
<1> USE DEF wire, ages, control, caller, world
<1>1. CASE SketchSend
  BY <1>1, SoundSends DEF SketchSend
<1>2. CASE ConnectReturns \/ Run \/ HandlerReturns
  BY <1>2 DEF ConnectReturns, Run, HandlerReturns
<1>3. CASE InputGone \/ ReadReady \/ ReadAnswer \/ ReadGarbled \/ ReadPing \/ ReadHardware
  BY <1>3 DEF InputGone, ReadReady, ReadAnswer, ReadGarbled, ReadPing, ReadHardware, Pop
<1>4. CASE ReadRefusal
  BY <1>4, ReadsPlain DEF ReadRefusal, Plain
<1>5. CASE ReadOdd
  BY <1>5, ReadsPlain DEF ReadOdd, Plain
<1>6. CASE ReadRedirect
  BY <1>6, ReadsPlain DEF ReadRedirect, Plain
<1>7. CASE ReadingEnds \/ Reopened
  BY <1>7 DEF ReadingEnds, Reopened, SoundOK
<1>8. CASE Pong
  BY <1>8, SoundSends DEF Pong
<1>9. CASE SendInfo
  BY <1>9, SoundSends DEF SendInfo
<1>10. CASE LinkGone
  BY <1>10 DEF LinkGone, ControlOK
<1>11. CASE HeartbeatTimeout
  <2>1. ageIn <= Heartbeat + 3 * Timeout /\ ageIn > Heartbeat + 3 * Timeout
    BY <1>11 DEF HeartbeatTimeout, Overdue, Fresh
  <2> QED
    BY <2>1, FreshNumbers
<1>12. CASE Ping
  BY <1>12, SoundSends DEF Ping
<1>13. CASE LoginTimeout \/ Reconnect \/ NothingDue
  BY <1>13 DEF LoginTimeout, Reconnect, RetryDue, NothingDue
<1>14. CASE Connecting
  BY <1>14 DEF Connecting, ConnectFails, LoginSent, LoginNotSent, ControlOK
<1>15. CASE Server
  BY <1>15 DEF Server, ServerAnswers, ServerSends
<1>16. CASE PeerCloses \/ Heal
  BY <1>16 DEF PeerCloses, Heal, SoundOK
<1>17. CASE Tick
  BY <1>17 DEF Tick
<1>18. CASE UNCHANGED vars
  BY <1>18 DEF vars
<1> QED
  BY <1>1, <1>2, <1>3, <1>4, <1>5, <1>6, <1>7, <1>8, <1>9, <1>10, <1>11,
     <1>12, <1>13, <1>14, <1>15, <1>16, <1>17, <1>18
     DEF Next, Sketch, Client, Input, Timers

\* With a server that answers at once the client never hangs up by itself, if
\* no command comes so fast that the message limit cuts it off (Paced) and the
\* heartbeat timeout covers what PingInTime says.
THEOREM StaysConnectedTheorem == ASSUME Paced, PingInTime PROVE Spec => StaysConnected
<1>1. Init => SoundOK /\ FreshOK
  BY DEF Init, SoundOK, FreshOK
<1>2. IInv /\ SoundOK /\ FreshOK /\ [Next]_vars => SoundOK' /\ FreshOK'
  BY SoundStep, FreshStep DEF IInv
<1>3. IInv /\ SoundOK /\ FreshOK /\ [Next]_vars =>
        [ Up /\ sound => Up' \/ SketchDisconnect \/ SketchConnect ]_vars
  BY StaysStep DEF IInv
<1> QED
  BY <1>1, <1>2, <1>3, Invariance, PTL DEF Spec, StaysConnected
=============================================================================
