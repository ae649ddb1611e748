---------------------------- MODULE RobotLoopProofs ----------------------------
(***************************************************************************)
(* What holds of the trading robot for every number of handlers, loops and *)
(* symbols.  Starts that do not overlap leave one party that may touch the *)
(* position (Exclusive), which is why looking before ordering is enough;   *)
(* starts and stops that do not cross keep the thread pointer in step with *)
(* the object it points to (PointerFits).                                  *)
(***************************************************************************)
EXTENDS RobotLoop, TLAPS, FiniteSetTheorems

-----------------------------------------------------------------------------
(* Type correctness *)

LEMMA NoneYetIsSymbol == NoneYet \in Symbols
BY RobotConstants DEF NoneYet

LEMMA CappedCount ==
  /\ OneMore(0) = 1
  /\ \A n \in 0..Several : OneMore(n) \in 0..Several
BY DEF OneMore, Several

(* A step is a handler's, a loop's or the exchange's.                      *)
LEMMA NextCases ==
  ASSUME [Next]_vars
  PROVE  \/ \E h \in Handlers :
              \/ StartTest(h) \/ StartConfigure(h) \/ StartRaise(h)
              \/ StartSpawn(h) \/ SpawnFails(h) \/ StartDetach(h)
              \/ StopLower(h) \/ StopLook(h) \/ StopWait(h) \/ StopDelete(h)
              \/ StopClear(h)
         \/ \E t \in Loops :
              \/ WhileTest(t) \/ CheckPosition(t) \/ AskSignal(t) \/ Gate(t)
              \/ ReadBalance(t) \/ SetLeverage(t) \/ CreateOrder(t)
              \/ SetTpSl(t) \/ Wake(t)
         \/ \E s \in Symbols : ClosePosition(s)
         \/ UNCHANGED vars
BY DEF Next, HandlerFinishes, LoopStep

LEMMA TypeStep ==
  ASSUME TypeOK, [Next]_vars
  PROVE  TypeOK'
<1> USE DEF TypeOK, HandlerGoes, LoopGoes, Outcome, HandlerPlaces, LoopPlaces,
        ObjectStates, sharedVars, loopVars, exchangeVars, history
<1>1. ASSUME NEW h \in Handlers,
             StartTest(h) \/ StartConfigure(h) \/ StartRaise(h)
      PROVE  TypeOK'
  <2>1. CASE StartTest(h)
    BY <2>1 DEF StartTest
  <2>2. CASE StartConfigure(h)
    BY <2>2 DEF StartConfigure
  <2>3. CASE StartRaise(h)
    BY <2>3 DEF StartRaise, Several
  <2> QED BY <1>1, <2>1, <2>2, <2>3
<1>2. ASSUME NEW h \in Handlers, StartSpawn(h) \/ SpawnFails(h)
      PROVE  TypeOK'
  BY <1>2 DEF StartSpawn, SpawnFails
<1>3. ASSUME NEW h \in Handlers, StartDetach(h)
      PROVE  TypeOK'
  BY <1>3 DEF StartDetach
<1>4. ASSUME NEW h \in Handlers,
             StopLower(h) \/ StopLook(h) \/ StopWait(h) \/ StopClear(h)
      PROVE  TypeOK'
  BY <1>4 DEF StopLower, StopLook, StopWait, StopClear
<1>5. ASSUME NEW h \in Handlers, StopDelete(h)
      PROVE  TypeOK'
  BY <1>5 DEF StopDelete
<1>6. ASSUME NEW t \in Loops,
             WhileTest(t) \/ AskSignal(t) \/ Gate(t) \/ ReadBalance(t)
      PROVE  TypeOK'
  <2>1. CASE WhileTest(t)
    BY <2>1 DEF WhileTest
  <2>2. CASE AskSignal(t) \/ Gate(t)
    BY <2>2 DEF AskSignal, Gate
  <2>3. CASE ReadBalance(t)
    BY <2>3 DEF ReadBalance
  <2> QED BY <1>6, <2>1, <2>2, <2>3
<1>7. ASSUME NEW t \in Loops, CheckPosition(t)
      PROVE  TypeOK'
  BY <1>7 DEF CheckPosition, Configs
<1>8. ASSUME NEW t \in Loops, SetLeverage(t)
      PROVE  TypeOK'
  BY <1>8 DEF SetLeverage
<1>9. ASSUME NEW t \in Loops, CreateOrder(t)
      PROVE  TypeOK'
  BY <1>9, CappedCount DEF CreateOrder, Configs
<1>10. ASSUME NEW t \in Loops, SetTpSl(t)
      PROVE  TypeOK'
  BY <1>10 DEF SetTpSl, Configs
<1>11. ASSUME NEW t \in Loops, Wake(t)
      PROVE  TypeOK'
  BY <1>11, NoneYetIsSymbol DEF Wake
<1>12. ASSUME NEW s \in Symbols, ClosePosition(s)
      PROVE  TypeOK'
  BY <1>12 DEF ClosePosition, Several
<1>13. CASE UNCHANGED vars
  BY <1>13 DEF vars
<1> QED
  BY NextCases, <1>1, <1>2, <1>3, <1>4, <1>5, <1>6, <1>7, <1>8, <1>9, <1>10,
     <1>11, <1>12, <1>13

(* Every variable of the robot keeps its type.                             *)
THEOREM TypeCorrect == Spec => []TypeOK
<1>1. Init => TypeOK
  <2> SUFFICES ASSUME Init PROVE TypeOK
    OBVIOUS
  <2>1. config \in Configs
    BY NoneYetIsSymbol DEF Init, Configs
  <2>2. 0 \in 0..Several
    BY DEF Several
  <2> QED BY <2>1, <2>2, NoneYetIsSymbol
          DEF Init, TypeOK, HandlerPlaces, LoopPlaces, ObjectStates
<1> QED BY <1>1, TypeStep, PTL DEF Spec

-----------------------------------------------------------------------------
(* Orders after a stop *)

\* A loop that ordered after the flag went down is past its order, and the
\* flag is still down.
LateLoopsLeave ==
  \A t \in Loops :
    late[t] # 0 =>
      late[t] = 1 /\ ~robot_running /\ lpc[t] \in {"tpsl", "sleep", "while", "ended"}

LEMMA LateStep ==
  ASSUME TypeOK, LateLoopsLeave, [Next]_vars
  PROVE  LateLoopsLeave'
<1> USE DEF LateLoopsLeave, HandlerGoes, LoopGoes, sharedVars, loopVars, exchangeVars, history
<1>1. ASSUME NEW t \in Loops, NEW to \in LoopPlaces,
             UNCHANGED <<late, robot_running>>, lpc' = [lpc EXCEPT ![t] = to],
             \/ lpc[t] \notin {"tpsl", "sleep", "while", "ended"}
             \/ lpc[t] \in {"tpsl", "sleep"} /\ to \in {"sleep", "while"}
             \/ lpc[t] = "while" /\ (robot_running \/ to = "ended")
      PROVE  LateLoopsLeave'
  BY <1>1 DEF TypeOK
<1>2. ASSUME UNCHANGED <<late, robot_running, lpc>>
      PROVE  LateLoopsLeave'
  BY <1>2
<1>3. ASSUME NEW h \in Handlers,
             \/ StartTest(h) \/ StartConfigure(h) \/ SpawnFails(h) \/ StartDetach(h)
             \/ StopLook(h) \/ StopWait(h) \/ StopDelete(h) \/ StopClear(h)
      PROVE  UNCHANGED <<late, robot_running, lpc>>
  BY <1>3 DEF StartTest, StartConfigure, SpawnFails, StartDetach, StopLook, StopWait,
     StopDelete, StopClear
<1>4. ASSUME NEW h \in Handlers, StartRaise(h)
      PROVE  LateLoopsLeave'
  BY <1>4 DEF StartRaise
<1>5. ASSUME NEW h \in Handlers, StopLower(h)
      PROVE  LateLoopsLeave'
  BY <1>5 DEF StopLower
<1>6. ASSUME NEW h \in Handlers, StartSpawn(h)
      PROVE  LateLoopsLeave'
  BY <1>1, <1>6 DEF StartSpawn, LoopPlaces
<1>7. ASSUME NEW t \in Loops,
             \/ WhileTest(t) \/ CheckPosition(t) \/ AskSignal(t) \/ Gate(t)
             \/ ReadBalance(t) \/ SetLeverage(t) \/ SetTpSl(t) \/ Wake(t)
      PROVE  LateLoopsLeave'
  <2>1. UNCHANGED <<late, robot_running>>
    BY <1>7 DEF WhileTest, CheckPosition, AskSignal, Gate, ReadBalance, SetLeverage,
       SetTpSl, Wake
  <2>2. CASE WhileTest(t)
    BY <1>1, <2>1, <2>2 DEF WhileTest, LoopPlaces
  <2>3. CASE CheckPosition(t) \/ AskSignal(t) \/ Gate(t) \/ ReadBalance(t) \/ SetLeverage(t)
    BY <1>1, <2>1, <2>3 DEF CheckPosition, AskSignal, Gate, ReadBalance, SetLeverage,
       LoopPlaces
  <2>4. CASE SetTpSl(t) \/ Wake(t)
    BY <1>1, <2>1, <2>4 DEF SetTpSl, Wake, LoopPlaces
  <2> QED BY <1>7, <2>2, <2>3, <2>4
<1>8. ASSUME NEW t \in Loops, CreateOrder(t)
      PROVE  LateLoopsLeave'
  <2>1. /\ lpc[t] = "order" /\ UNCHANGED robot_running
        /\ \E to \in {"tpsl", "sleep"} : lpc' = [lpc EXCEPT ![t] = to]
        /\ \/ UNCHANGED late
           \/ ~robot_running /\ late' = [late EXCEPT ![t] = OneMore(late[t])]
    BY <1>8 DEF CreateOrder
  <2>2. late[t] = 0
    BY <2>1
  <2> QED BY <2>1, <2>2, CappedCount DEF TypeOK
<1>9. ASSUME NEW s \in Symbols, ClosePosition(s)
      PROVE  UNCHANGED <<late, robot_running, lpc>>
  BY <1>9 DEF ClosePosition
<1>10. CASE UNCHANGED vars
  BY <1>2, <1>10 DEF vars
<1> QED BY NextCases, <1>2, <1>3, <1>4, <1>5, <1>6, <1>7, <1>8, <1>9, <1>10

(* After a stop, until the next start, a loop sends at most the one order  *)
(* it was about to send; this needs no assumption on requests or replies.  *)
THEOREM LoopsOrderOnceAfterStop == Spec => []OneLateOrder
<1>1. Init => LateLoopsLeave
  BY DEF Init, LateLoopsLeave
<1>2. TypeOK /\ LateLoopsLeave => OneLateOrder
  BY DEF TypeOK, LateLoopsLeave, OneLateOrder, Several
<1> QED BY <1>1, <1>2, LateStep, TypeCorrect, PTL DEF Spec

-----------------------------------------------------------------------------
(* The raw thread pointer *)

(* What failed once stays on record.                                       *)
LEMMA MishapsGrow ==
  ASSUME [Next]_vars
  PROVE  mishaps \subseteq mishaps'
BY DEF Next, HandlerFinishes, LoopStep, StartTest, StartConfigure, StartRaise, StartSpawn,
   SpawnFails, StartDetach, StopLower, StopLook, StopWait, StopDelete, StopClear, WhileTest,
   CheckPosition, AskSignal, Gate, ReadBalance, SetLeverage, CreateOrder, SetTpSl, Wake,
   ClosePosition, Outcome, history, vars

\* What "crossing" records: more than one handler in start() or stop().
\* Until then the pointer is null or leads to a detached object, but for the
\* moment between new and detach, or delete and nullptr.
PointerFits ==
  "crossing" \notin mishaps =>
    /\ ~crashed
    /\ \A g, h \in Busy : g = h
    /\ \A h \in Handlers :
         /\ hpc[h] = "detach" => robot_thread # 0 /\ object[robot_thread] = "joinable"
         /\ hpc[h] \in {"wait", "delete"} =>
              robot_thread # 0 /\ object[robot_thread] = "detached"
    /\ \/ robot_thread = 0 \/ object[robot_thread] = "detached"
       \/ \E h \in Handlers : hpc[h] \in {"detach", "clear"}

LEMMA PointerStep ==
  ASSUME TypeOK, PointerFits, [Next]_vars
  PROVE  PointerFits'
<1> SUFFICES ASSUME "crossing" \notin mishaps'
             PROVE  PointerFits'
  BY DEF PointerFits
<1>1. "crossing" \notin mishaps
  BY MishapsGrow
<1>2. /\ ~crashed
      /\ \A g, h \in Busy : g = h
      /\ \A h \in Handlers :
           /\ hpc[h] = "detach" => robot_thread # 0 /\ object[robot_thread] = "joinable"
           /\ hpc[h] \in {"wait", "delete"} =>
                robot_thread # 0 /\ object[robot_thread] = "detached"
      /\ \/ robot_thread = 0 \/ object[robot_thread] = "detached"
         \/ \E h \in Handlers : hpc[h] \in {"detach", "clear"}
  BY <1>1 DEF PointerFits
<1> USE DEF HandlerGoes, sharedVars, loopVars, exchangeVars, history
<1>3. ASSUME NEW h \in Handlers, StartTest(h)
      PROVE  PointerFits'
  <2>1. \/ UNCHANGED <<hpc, robot_thread, object, crashed>>
        \/ /\ ~robot_running /\ hpc' = [hpc EXCEPT ![h] = "configure"]
           /\ UNCHANGED <<robot_thread, object, crashed>>
    BY <1>3 DEF StartTest, TypeOK
  <2>2. ASSUME ~robot_running PROVE Busy = {}
    BY <1>3, <2>2 DEF StartTest
  <2> QED BY <1>2, <2>1, <2>2 DEF PointerFits, Busy, TypeOK
<1>4. ASSUME NEW h \in Handlers, StopLower(h)
      PROVE  PointerFits'
  <2>1. Busy = {}
    BY <1>4 DEF StopLower
  <2>2. /\ hpc' = [hpc EXCEPT ![h] = "look"]
        /\ UNCHANGED <<robot_thread, object, crashed>>
    BY <1>4 DEF StopLower
  <2> QED BY <1>2, <2>1, <2>2 DEF PointerFits, Busy, TypeOK
<1>5. ASSUME NEW h \in Handlers, hpc[h] # "idle",
             \E to \in HandlerPlaces : hpc' = [hpc EXCEPT ![h] = to]
      PROVE  \A f, g \in Busy' : f = g
  BY <1>2, <1>5 DEF Busy, TypeOK
<1>6. ASSUME NEW h \in Handlers, hpc[h] # "idle"
      PROVE  \A g \in Handlers : g # h => hpc[g] = "idle"
  BY <1>2, <1>6 DEF Busy
<1>7. ASSUME NEW h \in Handlers,
             \/ StartConfigure(h) \/ StartRaise(h) \/ SpawnFails(h)
             \/ StopLook(h) \/ StopWait(h)
      PROVE  PointerFits'
  <2>1. /\ hpc[h] \in {"configure", "raise", "spawn", "look", "wait"}
        /\ \E to \in {"raise", "spawn", "idle", "wait", "delete"} :
              /\ hpc' = [hpc EXCEPT ![h] = to]
              /\ to \in {"wait", "delete"} => robot_thread # 0
        /\ UNCHANGED <<robot_thread, object, crashed>>
    BY <1>2, <1>7 DEF StartConfigure, StartRaise, SpawnFails, StopLook, StopWait
  <2>2. robot_thread = 0 \/ object[robot_thread] = "detached"
    BY <1>2, <1>6, <2>1
  <2>3. \A f, g \in Busy' : f = g
    BY <1>5, <2>1 DEF HandlerPlaces
  <2> QED BY <1>2, <1>6, <2>1, <2>2, <2>3 DEF PointerFits, TypeOK
<1>8. ASSUME NEW h \in Handlers, StartSpawn(h)
      PROVE  PointerFits'
  <2>1. PICK t \in Loops : /\ robot_thread' = t
                           /\ object' = [object EXCEPT ![t] = "joinable"]
    BY <1>8 DEF StartSpawn
  <2>2. /\ hpc[h] = "spawn" /\ hpc' = [hpc EXCEPT ![h] = "detach"]
        /\ UNCHANGED crashed
    BY <1>8 DEF StartSpawn
  <2>3. robot_thread' # 0 /\ object'[robot_thread'] = "joinable"
    BY <2>1 DEF TypeOK, Loops
  <2>4. \A f, g \in Busy' : f = g
    BY <1>5, <2>2 DEF HandlerPlaces
  <2> QED BY <1>2, <1>6, <2>2, <2>3, <2>4 DEF PointerFits, TypeOK
<1>9. ASSUME NEW h \in Handlers, StartDetach(h)
      PROVE  PointerFits'
  <2>1. hpc[h] = "detach" /\ robot_thread # 0 /\ object[robot_thread] = "joinable"
    BY <1>2, <1>9 DEF StartDetach
  <2>2. /\ object' = [object EXCEPT ![robot_thread] = "detached"]
        /\ UNCHANGED <<crashed, robot_thread>> /\ hpc' = [hpc EXCEPT ![h] = "idle"]
    BY <1>9, <2>1 DEF StartDetach
  <2>3. \A f, g \in Busy' : f = g
    BY <1>5, <2>1, <2>2 DEF HandlerPlaces
  <2> QED BY <1>2, <1>6, <2>1, <2>2, <2>3 DEF PointerFits, TypeOK
<1>10. ASSUME NEW h \in Handlers, StopDelete(h)
       PROVE  PointerFits'
  <2>1. hpc[h] = "delete" /\ robot_thread # 0 /\ object[robot_thread] = "detached"
    BY <1>2, <1>10 DEF StopDelete
  <2>2. UNCHANGED crashed /\ hpc' = [hpc EXCEPT ![h] = "clear"]
    BY <1>10, <2>1 DEF StopDelete
  <2>3. \A f, g \in Busy' : f = g
    BY <1>5, <2>1, <2>2 DEF HandlerPlaces
  <2> QED BY <1>2, <1>6, <2>1, <2>2, <2>3 DEF PointerFits, TypeOK
<1>11. ASSUME NEW h \in Handlers, StopClear(h)
       PROVE  PointerFits'
  <2>1. /\ hpc[h] = "clear" /\ hpc' = [hpc EXCEPT ![h] = "idle"] /\ robot_thread' = 0
        /\ UNCHANGED crashed
    BY <1>11 DEF StopClear
  <2>2. \A f, g \in Busy' : f = g
    BY <1>5, <2>1 DEF HandlerPlaces
  <2> QED BY <1>2, <1>6, <2>1, <2>2 DEF PointerFits, TypeOK
<1>12. ASSUME UNCHANGED <<crashed, hpc, robot_thread, object>>
       PROVE  PointerFits'
  BY <1>2, <1>12 DEF PointerFits, Busy
<1>13. ASSUME NEW t \in Loops,
             \/ WhileTest(t) \/ CheckPosition(t) \/ AskSignal(t) \/ Gate(t)
             \/ ReadBalance(t) \/ SetLeverage(t) \/ CreateOrder(t) \/ SetTpSl(t) \/ Wake(t)
      PROVE  UNCHANGED <<crashed, hpc, robot_thread, object>>
  BY <1>13 DEF WhileTest, CheckPosition, AskSignal, Gate, ReadBalance, SetLeverage,
     CreateOrder, SetTpSl, Wake
<1>14. ASSUME NEW s \in Symbols, ClosePosition(s)
      PROVE  UNCHANGED <<crashed, hpc, robot_thread, object>>
  BY <1>14 DEF ClosePosition
<1>15. CASE UNCHANGED vars
  BY <1>12, <1>15 DEF vars
<1> QED BY NextCases, <1>3, <1>4, <1>7, <1>8, <1>9, <1>10, <1>11, <1>12, <1>13,
           <1>14, <1>15

(* For any number of HTTP threads: the thread pointer brings the process   *)
(* down only if some start or stop went ahead in the middle of another.    *)
THEOREM CrashesNeedCrossing == Spec => []CrashNeedsCrossing
<1>1. Init => PointerFits
  BY DEF Init, PointerFits, Busy
<1>2. PointerFits => CrashNeedsCrossing
  BY DEF PointerFits, CrashNeedsCrossing
<1> QED BY <1>1, <1>2, PointerStep, TypeCorrect, PTL DEF Spec

-----------------------------------------------------------------------------
(* Looking before ordering *)

\* What "look" records: a start beside another, or beside a loop.
Apart == "look" \notin mishaps

\* While starts do not overlap there is one start or one loop at a time.
Exclusive ==
  Apart =>
    /\ \A g, h \in Starting : g = h
    /\ \A t, u \in Live : t = u
    /\ Starting = {} \/ Live = {}

\* A loop that looked stays right about what it saw.
LookedFirst ==
  mishaps \subseteq {"order", "crossing"} =>
    \A t \in Loops :
      lpc[t] \in {"signal", "gate", "balance", "leverage", "order"} =>
        checked[t] = config.symbol /\ entries[config.symbol] = 0

SafeEntries == Exclusive /\ LookedFirst /\ NoSecondEntry /\ UnguardedIsPending

LEMMA ExclusiveStep ==
  ASSUME TypeOK, Exclusive, [Next]_vars
  PROVE  Exclusive'
<1> USE DEF HandlerGoes, LoopGoes, sharedVars, loopVars, exchangeVars, history
<1>1. ASSUME Apart' => Apart, Starting' \subseteq Starting, Live' \subseteq Live
      PROVE  Exclusive'
  BY <1>1 DEF Exclusive
<1>2. ASSUME NEW h \in Handlers, StartTest(h)
      PROVE  Exclusive'
  <2>1. Live' = Live
    BY <1>2 DEF StartTest, Live, Alive
  <2>2. CASE robot_running
    <3>1. Starting' \subseteq Starting /\ UNCHANGED mishaps
      BY <1>2, <2>2 DEF StartTest, Starting, TypeOK
    <3> QED BY <1>1, <2>1, <3>1 DEF Apart
  <2>3. CASE ~robot_running /\ Starting \cup Live # {}
    BY <1>2, <2>3 DEF StartTest, Exclusive, Apart
  <2>4. CASE ~robot_running /\ Starting \cup Live = {}
    <3>1. Starting' = {h}
      BY <1>2, <2>4 DEF StartTest, Starting, TypeOK
    <3> QED BY <2>1, <2>4, <3>1 DEF Exclusive
  <2> QED BY <2>2, <2>3, <2>4
<1>3. ASSUME NEW h \in Handlers, StartSpawn(h)
      PROVE  Exclusive'
  <2>1. PICK t \in Loops : lpc[t] = "unborn" /\ lpc' = [lpc EXCEPT ![t] = "while"]
    BY <1>3 DEF StartSpawn
  <2>2. h \in Starting /\ Starting' = Starting \ {h} /\ UNCHANGED mishaps
    BY <1>3 DEF StartSpawn, Starting, TypeOK
  <2>3. Live' = Live \cup {t}
    BY <2>1 DEF Live, Alive, TypeOK
  <2>4. CASE Apart
    BY <2>2, <2>3, <2>4 DEF Exclusive, Apart
  <2>5. CASE ~Apart
    BY <2>2, <2>5 DEF Exclusive, Apart
  <2> QED BY <2>4, <2>5
<1>4. ASSUME NEW h \in Handlers,
             \/ StartConfigure(h) \/ StartRaise(h) \/ SpawnFails(h) \/ StartDetach(h)
             \/ StopLower(h) \/ StopLook(h) \/ StopWait(h) \/ StopDelete(h)
             \/ StopClear(h)
      PROVE  Exclusive'
  <2>1. UNCHANGED lpc /\ (Apart' => Apart)
    BY <1>4, MishapsGrow DEF StartConfigure, StartRaise, SpawnFails, StartDetach, StopLower, StopLook,
       StopWait, StopDelete, StopClear, Apart
  <2>2. Starting' \subseteq Starting
    BY <1>4 DEF StartConfigure, StartRaise, SpawnFails, StartDetach, StopLower, StopLook,
       StopWait, StopDelete, StopClear, Starting, TypeOK
  <2> QED BY <1>1, <2>1, <2>2 DEF Live, Alive, Apart
<1>5. ASSUME NEW t \in Loops,
             \/ WhileTest(t) \/ CheckPosition(t) \/ AskSignal(t) \/ Gate(t)
             \/ ReadBalance(t) \/ SetLeverage(t) \/ CreateOrder(t) \/ SetTpSl(t) \/ Wake(t)
      PROVE  Exclusive'
  <2>1. hpc' = hpc /\ (Apart' => Apart)
    BY <1>5, RobotConstants DEF WhileTest, CheckPosition, AskSignal, Gate, ReadBalance,
       SetLeverage, CreateOrder, SetTpSl, Wake, Outcome, Apart
  <2>2. lpc[t] \notin {"unborn", "ended"} /\ \E to : lpc' = [lpc EXCEPT ![t] = to]
    BY <1>5 DEF WhileTest, CheckPosition, AskSignal, Gate, ReadBalance, SetLeverage,
       CreateOrder, SetTpSl, Wake
  <2>3. Live' \subseteq Live
    BY <2>2 DEF Live, Alive, TypeOK
  <2> QED BY <1>1, <2>1, <2>3 DEF Starting
<1>6. ASSUME UNCHANGED <<hpc, lpc, mishaps>>
      PROVE  Exclusive'
  BY <1>1, <1>6 DEF Starting, Live, Alive, Apart
<1>7. ASSUME NEW s \in Symbols, ClosePosition(s)
      PROVE  Exclusive'
  BY <1>6, <1>7 DEF ClosePosition
<1>8. CASE UNCHANGED vars
  BY <1>6, <1>8 DEF vars
<1> QED BY NextCases, <1>2, <1>3, <1>4, <1>5, <1>7, <1>8

Looked == {"signal", "gate", "balance", "leverage", "order"}

LEMMA LookedStep ==
  ASSUME TypeOK, Exclusive, LookedFirst, [Next]_vars
  PROVE  LookedFirst'
<1> SUFFICES ASSUME mishaps' \subseteq {"order", "crossing"}, NEW u \in Loops, lpc'[u] \in Looked
             PROVE  checked'[u] = config'.symbol /\ entries'[config'.symbol] = 0
  BY DEF LookedFirst, Looked
<1> USE DEF HandlerGoes, LoopGoes, sharedVars, loopVars, exchangeVars, history
<1>1. mishaps \subseteq {"order", "crossing"} /\ Apart
  BY MishapsGrow DEF Apart
<1>2. ASSUME lpc[u] \in Looked, UNCHANGED <<config, checked>>,
             entries'[config.symbol] = entries[config.symbol] \/ entries'[config.symbol] = 0
      PROVE  checked'[u] = config'.symbol /\ entries'[config'.symbol] = 0
  BY <1>1, <1>2 DEF LookedFirst, Looked
<1>3. ASSUME UNCHANGED <<config, checked, entries, lpc>>
      PROVE  checked'[u] = config'.symbol /\ entries'[config'.symbol] = 0
  BY <1>2, <1>3
<1>4. ASSUME NEW h \in Handlers, StartConfigure(h)
      PROVE  FALSE
  <2>1. h \in Starting /\ lpc' = lpc
    BY <1>4 DEF StartConfigure, Starting
  <2>2. u \in Live
    BY <2>1 DEF Live, Alive, Looked
  <2> QED BY <1>1, <2>1, <2>2 DEF Exclusive
<1>5. ASSUME NEW h \in Handlers, StartSpawn(h)
      PROVE  checked'[u] = config'.symbol /\ entries'[config'.symbol] = 0
  <2>1. PICK t \in Loops : lpc' = [lpc EXCEPT ![t] = "while"]
    BY <1>5 DEF StartSpawn
  <2>2. lpc[u] \in Looked
    BY <2>1 DEF TypeOK, Looked
  <2> QED BY <1>2, <1>5, <2>2 DEF StartSpawn
<1>6. ASSUME NEW h \in Handlers,
             \/ StartTest(h) \/ StartRaise(h) \/ SpawnFails(h) \/ StartDetach(h)
             \/ StopLower(h) \/ StopLook(h) \/ StopWait(h) \/ StopDelete(h)
             \/ StopClear(h)
      PROVE  UNCHANGED <<config, checked, entries, lpc>>
  BY <1>6 DEF StartTest, StartRaise, SpawnFails, StartDetach, StopLower, StopLook,
       StopWait, StopDelete, StopClear
<1>7. ASSUME NEW t \in Loops, lpc[t] \notin {"unborn", "ended"}, u # t,
             \E to : lpc' = [lpc EXCEPT ![t] = to]
      PROVE  FALSE
  <2>1. t \in Live /\ u \in Live
    BY <1>7 DEF Live, Alive, TypeOK, Looked
  <2> QED BY <1>1, <1>7, <2>1 DEF Exclusive
<1>8. ASSUME NEW t \in Loops,
             \/ WhileTest(t) \/ AskSignal(t) \/ Gate(t) \/ ReadBalance(t) \/ SetLeverage(t)
      PROVE  checked'[u] = config'.symbol /\ entries'[config'.symbol] = 0
  <2>1. u = t
    BY <1>7, <1>8 DEF WhileTest, AskSignal, Gate, ReadBalance, SetLeverage
  <2>2. lpc[t] \in Looked
    BY <1>8, <2>1 DEF WhileTest, AskSignal, Gate, ReadBalance, SetLeverage, Looked, TypeOK
  <2> QED BY <1>2, <1>8, <2>1, <2>2
          DEF WhileTest, AskSignal, Gate, ReadBalance, SetLeverage
<1>9. ASSUME NEW t \in Loops, CheckPosition(t)
      PROVE  checked'[u] = config'.symbol /\ entries'[config'.symbol] = 0
  <2>1. u = t
    BY <1>7, <1>9 DEF CheckPosition
  <2>2. checked' = [checked EXCEPT ![t] = config.symbol] /\ UNCHANGED <<config, entries>>
    BY <1>9 DEF CheckPosition
  <2>3. PICK answered \in BOOLEAN :
          /\ Outcome("look", answered)
          /\ LoopGoes(t, "position",
               IF answered /\ entries[config.symbol] > 0 THEN "sleep" ELSE "signal")
    BY <1>9 DEF CheckPosition
  <2>4. answered
    BY <1>1, <2>3 DEF Outcome
  <2>5. ~(entries[config.symbol] > 0)
    BY <2>1, <2>3, <2>4 DEF TypeOK, Looked
  <2>6. entries[config.symbol] \in 0..Several
    BY DEF TypeOK, Configs
  <2>7. entries[config.symbol] = 0
    BY <2>5, <2>6 DEF Several
  <2> QED BY <2>1, <2>2, <2>7 DEF TypeOK
<1>10. ASSUME NEW t \in Loops, CreateOrder(t) \/ SetTpSl(t) \/ Wake(t)
       PROVE  FALSE
  <2>1. u = t
    BY <1>7, <1>10 DEF CreateOrder, SetTpSl, Wake
  <2>2. \E to \in {"tpsl", "sleep", "while"} : lpc' = [lpc EXCEPT ![t] = to]
    BY <1>10 DEF CreateOrder, SetTpSl, Wake
  <2> QED BY <2>1, <2>2 DEF TypeOK, Looked
<1>11. ASSUME NEW s \in Symbols, ClosePosition(s)
       PROVE  checked'[u] = config'.symbol /\ entries'[config'.symbol] = 0
  <2>1. /\ UNCHANGED <<config, checked, lpc>> /\ entries' = [entries EXCEPT ![s] = 0]
    BY <1>11 DEF ClosePosition
  <2> QED BY <1>2, <2>1 DEF TypeOK, Configs
<1>12. CASE UNCHANGED vars
  BY <1>3, <1>12 DEF vars
<1> QED BY NextCases, <1>3, <1>4, <1>5, <1>6, <1>8, <1>9, <1>10, <1>11, <1>12

(* Only CreateOrder adds to a position, out of a flat one.                 *)
LEMMA SecondEntryStep ==
  ASSUME TypeOK, Exclusive, LookedFirst, NoSecondEntry, [Next]_vars
  PROVE  NoSecondEntry'
<1> SUFFICES ASSUME mishaps' \subseteq {"order", "crossing"}
             PROVE  ~astray' /\ \A s \in Symbols : entries'[s] < Several
  BY DEF NoSecondEntry
<1> USE DEF HandlerGoes, LoopGoes, sharedVars, loopVars, exchangeVars, history
<1>1. mishaps \subseteq {"order", "crossing"}
  BY MishapsGrow
<1>2. ~astray /\ \A s \in Symbols : entries[s] < Several
  BY <1>1 DEF NoSecondEntry
<1>3. ASSUME NEW h \in Handlers,
             \/ StartTest(h) \/ StartConfigure(h) \/ StartRaise(h)
             \/ StartSpawn(h) \/ SpawnFails(h) \/ StartDetach(h)
             \/ StopLower(h) \/ StopLook(h) \/ StopWait(h) \/ StopDelete(h)
             \/ StopClear(h)
      PROVE  UNCHANGED <<entries, astray>>
  BY <1>3 DEF StartTest, StartConfigure, StartRaise, StartSpawn, SpawnFails, StartDetach,
     StopLower, StopLook, StopWait, StopDelete, StopClear
<1>4. ASSUME NEW t \in Loops,
             \/ WhileTest(t) \/ CheckPosition(t) \/ AskSignal(t) \/ Gate(t)
             \/ ReadBalance(t) \/ SetLeverage(t) \/ SetTpSl(t) \/ Wake(t)
      PROVE  UNCHANGED <<entries, astray>>
  BY <1>4 DEF WhileTest, CheckPosition, AskSignal, Gate, ReadBalance, SetLeverage,
     SetTpSl, Wake
<1>5. ASSUME NEW t \in Loops, CreateOrder(t)
      PROVE  ~astray' /\ \A s \in Symbols : entries'[s] < Several
  <2>1. lpc[t] = "order"
    BY <1>5 DEF CreateOrder
  <2>2. checked[t] = config.symbol /\ entries[config.symbol] = 0
    BY <1>1, <2>1 DEF LookedFirst
  <2>3. \/ UNCHANGED <<entries, astray>>
        \/ /\ entries' = [entries EXCEPT ![config.symbol] = OneMore(entries[config.symbol])]
           /\ astray' = (astray \/ checked[t] # config.symbol)
    BY <1>5 DEF CreateOrder
  <2> QED BY <1>2, <2>2, <2>3, CappedCount DEF TypeOK, Several
<1>6. ASSUME NEW s \in Symbols, ClosePosition(s)
      PROVE  ~astray' /\ \A k \in Symbols : entries'[k] < Several
  BY <1>2, <1>6 DEF ClosePosition, TypeOK, Several
<1>7. CASE UNCHANGED vars
  BY <1>2, <1>7 DEF vars
<1> QED BY NextCases, <1>2, <1>3, <1>4, <1>5, <1>6, <1>7

(* An acknowledged order is followed by its limits; nothing else leaves a  *)
(* position bare.                                                          *)
LEMMA UnguardedStep ==
  ASSUME TypeOK, Exclusive, UnguardedIsPending, [Next]_vars
  PROVE  UnguardedIsPending'
<1> SUFFICES ASSUME mishaps' \subseteq {"crossing"}, NEW s \in Symbols, entries'[s] > 0, ~guarded'[s]
             PROVE  config'.symbol = s /\ \E t \in Loops : lpc'[t] = "tpsl"
  BY DEF UnguardedIsPending
<1> USE DEF HandlerGoes, LoopGoes, sharedVars, loopVars, exchangeVars, history
<1>1. mishaps \subseteq {"crossing"} /\ Apart
  BY MishapsGrow DEF Apart
<1>2. ASSUME entries[s] > 0, ~guarded[s]
      PROVE  config.symbol = s /\ \E t \in Loops : lpc[t] = "tpsl"
  BY <1>1, <1>2 DEF UnguardedIsPending
<1>3. ASSUME UNCHANGED <<entries, guarded, config>>,
             \A t \in Loops : lpc[t] = "tpsl" => lpc'[t] = "tpsl"
      PROVE  config'.symbol = s /\ \E t \in Loops : lpc'[t] = "tpsl"
  BY <1>2, <1>3
<1>4. ASSUME NEW h \in Handlers, StartConfigure(h)
      PROVE  config'.symbol = s /\ \E t \in Loops : lpc'[t] = "tpsl"
  <2>1. h \in Starting /\ UNCHANGED <<entries, guarded>>
    BY <1>4 DEF StartConfigure, Starting
  <2>2. PICK t \in Loops : lpc[t] = "tpsl"
    BY <1>2, <2>1
  <2>3. t \in Live
    BY <2>2 DEF Live, Alive
  <2> QED BY <1>1, <2>1, <2>3 DEF Exclusive
<1>5. ASSUME NEW h \in Handlers,
             \/ StartTest(h) \/ StartRaise(h) \/ SpawnFails(h) \/ StartDetach(h)
             \/ StopLower(h) \/ StopLook(h) \/ StopWait(h) \/ StopDelete(h)
             \/ StopClear(h)
      PROVE  UNCHANGED <<entries, guarded, config, lpc>>
  BY <1>5 DEF StartTest, StartRaise, SpawnFails, StartDetach, StopLower, StopLook, StopWait,
     StopDelete, StopClear
<1>6. ASSUME NEW h \in Handlers, StartSpawn(h)
      PROVE  config'.symbol = s /\ \E t \in Loops : lpc'[t] = "tpsl"
  BY <1>3, <1>6 DEF StartSpawn, TypeOK
<1>7. ASSUME NEW t \in Loops,
             \/ WhileTest(t) \/ CheckPosition(t) \/ AskSignal(t) \/ Gate(t)
             \/ ReadBalance(t) \/ SetLeverage(t) \/ Wake(t)
      PROVE  config'.symbol = s /\ \E u \in Loops : lpc'[u] = "tpsl"
  <2>1. UNCHANGED <<entries, guarded, config>>
    BY <1>7 DEF WhileTest, CheckPosition, AskSignal, Gate, ReadBalance, SetLeverage, Wake
  <2>2. lpc[t] # "tpsl" /\ \E to : lpc' = [lpc EXCEPT ![t] = to]
    BY <1>7 DEF WhileTest, CheckPosition, AskSignal, Gate, ReadBalance, SetLeverage, Wake
  <2> QED BY <1>3, <2>1, <2>2 DEF TypeOK
<1>8. ASSUME NEW t \in Loops, CreateOrder(t)
      PROVE  config'.symbol = s /\ \E u \in Loops : lpc'[u] = "tpsl"
  <2>1. PICK executed \in BOOLEAN, acknowledged \in BOOLEAN :
          /\ acknowledged => executed
          /\ Outcome("order", acknowledged)
          /\ LoopGoes(t, "order", IF acknowledged THEN "tpsl" ELSE "sleep")
          /\ executed => entries' = [entries EXCEPT ![config.symbol] = OneMore(@)]
          /\ UNCHANGED <<guarded, config>>
    BY <1>8 DEF CreateOrder
  <2>2. acknowledged
    BY <1>1, <2>1 DEF Outcome
  <2>3. lpc'[t] = "tpsl"
    BY <2>1, <2>2 DEF TypeOK
  <2>4. config'.symbol = s
    <3>1. CASE config.symbol = s
      BY <2>1, <3>1
    <3>2. CASE config.symbol # s
      <4>1. entries'[s] = entries[s]
        BY <2>1, <2>2, <3>2 DEF TypeOK
      <4> QED BY <1>2, <2>1, <3>2, <4>1
    <3> QED BY <3>1, <3>2
  <2> QED BY <2>3, <2>4
<1>9. ASSUME NEW t \in Loops, SetTpSl(t)
      PROVE  config'.symbol = s /\ \E u \in Loops : lpc'[u] = "tpsl"
  <2>1. PICK applied \in BOOLEAN :
          /\ Outcome("order", applied)
          /\ guarded' = [guarded EXCEPT ![config.symbol] =
                            @ \/ (applied /\ entries[config.symbol] > 0)]
          /\ UNCHANGED <<entries, config>>
    BY <1>9 DEF SetTpSl
  <2>2. applied
    BY <1>1, <2>1 DEF Outcome
  <2>3. config.symbol \in Symbols
    BY DEF TypeOK, Configs
  <2>4. s # config.symbol
    BY <2>1, <2>2, <2>3 DEF TypeOK
  <2>5. guarded'[s] = guarded[s]
    BY <2>1, <2>3, <2>4 DEF TypeOK
  <2> QED BY <1>2, <2>1, <2>4, <2>5
<1>10. ASSUME NEW k \in Symbols, ClosePosition(k)
       PROVE  config'.symbol = s /\ \E t \in Loops : lpc'[t] = "tpsl"
  <2>1. /\ entries' = [entries EXCEPT ![k] = 0] /\ guarded' = [guarded EXCEPT ![k] = FALSE]
        /\ UNCHANGED <<config, lpc>>
    BY <1>10 DEF ClosePosition
  <2>2. s # k
    BY <2>1 DEF TypeOK
  <2> QED BY <1>2, <2>1, <2>2 DEF TypeOK
<1>11. CASE UNCHANGED vars
  BY <1>3, <1>11 DEF vars
<1> QED BY NextCases, <1>3, <1>4, <1>5, <1>6, <1>7, <1>8, <1>9, <1>10, <1>11

LEMMA SafeEntriesHold == Spec => []SafeEntries
<1>1. Init => SafeEntries
  BY DEF Init, SafeEntries, Exclusive, LookedFirst, NoSecondEntry, UnguardedIsPending,
     Starting, Live, Alive, Several
<1>2. TypeOK /\ SafeEntries /\ [Next]_vars => SafeEntries'
  BY ExclusiveStep, LookedStep, SecondEntryStep, UnguardedStep DEF SafeEntries
<1> QED BY <1>1, <1>2, TypeCorrect, PTL DEF Spec

(* For any number of handlers: while starts do not overlap and position    *)
(* queries are answered, no position is entered twice or for a symbol that *)
(* was not looked at, whatever becomes of orders and their replies; while  *)
(* nothing fails, an open position has its limits or a loop that sets them.*)
THEOREM PositionsAreSafe == Spec => []EntriesAreSafe
<1>1. SafeEntries => EntriesAreSafe
  BY DEF SafeEntries, EntriesAreSafe
<1> QED BY <1>1, SafeEntriesHold, PTL

==============================================================================
