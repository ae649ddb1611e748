------------------------------ MODULE RobotLoop ------------------------------
(***************************************************************************)
(* The trading robot: start(), stop() and trading_loop() of                *)
(* src/src/robot/robot_loop.cpp with the exchange calls of                 *)
(* src/src/robot/bybit_helpers.cpp.  HTTP threads (Handlers) start and     *)
(* stop the robot through two unprotected globals; every successful start  *)
(* spawns a detached loop thread, which reads the global config anew at    *)
(* every use (open_trade takes config.symbol by reference).  Each action   *)
(* of a loop is one exchange request, or the code between two of them.     *)
(***************************************************************************)
EXTENDS Naturals, FiniteSets

CONSTANTS
  Handlers,        (* HTTP threads that call /api/robot/start and /stop    *)
  Symbols,         (* instruments a config may name                        *)
  MaxStarts,       (* bound: loop threads spawned before starts cease      *)
  Faults           (* what may fail: a "look" at the position, an "order"  *)
                   (* and all else that open_trade sends (replies may get  *)
                   (* lost, too), the birth of a "thread"                  *)

ASSUME RobotConstants ==
  /\ Symbols # {}
  /\ MaxStarts \in Nat
  /\ Faults \subseteq {"look", "order", "thread"}

Loops   == 1..MaxStarts
Configs == [symbol : Symbols, auto_trade : BOOLEAN]

VARIABLES
  robot_running,   (* the atomic flag                                      *)
  robot_thread,    (* the raw pointer: a thread object, or 0 for nullptr   *)
  config,          (* the global RobotConfig                               *)
  object,          (* every std::thread object: unborn, joinable, ...      *)
  hpc,             (* a handler's place                                    *)
  lpc,             (* a loop's place                                       *)
  checked,         (* the symbol whose position a loop asked for last      *)
  crashed,         (* std::terminate was called, or memory was misused     *)
  entries,         (* exchange: orders that make up the open position      *)
  guarded,         (* exchange: the position has take-profit and stop-loss *)
  astray,          (* history: an order named a symbol it had not checked  *)
  late,            (* history: orders of each loop since the last stop     *)
  mishaps          (* history: "look": the position was not told, or a     *)
                   (* start went ahead beside another or beside a loop, so *)
                   (* that what one sees the other may change; "order": a  *)
                   (* request of open_trade failed; "crossing": a start or *)
                   (* stop went ahead in the middle of another             *)

loopVars     == <<lpc, checked>>
exchangeVars == <<entries, guarded>>
sharedVars   == <<robot_running, robot_thread, config, object>>
history      == <<astray, late, mishaps>>
vars == <<sharedVars, hpc, loopVars, exchangeVars, history, crashed>>

HandlerPlaces == {"idle", "configure", "raise", "spawn", "detach",
                  "look", "wait", "delete", "clear"}
LoopPlaces == {"unborn", "while", "position", "signal", "gate", "balance",
               "leverage", "order", "tpsl", "sleep", "ended"}
ObjectStates == {"unborn", "joinable", "detached", "deleted"}

\* `checked' between two iterations, and the default of config: any symbol.
NoneYet == CHOOSE s \in Symbols : TRUE

\* The position of a symbol, as the number of orders in it: none, one, more.
Several == 2
OneMore(n) == IF n = Several THEN Several ELSE n + 1

Init ==
  /\ robot_running = FALSE /\ robot_thread = 0
  /\ config = [symbol |-> NoneYet, auto_trade |-> FALSE]
  /\ object  = [t \in Loops |-> "unborn"]
  /\ hpc     = [h \in Handlers |-> "idle"]
  /\ lpc     = [t \in Loops |-> "unborn"]
  /\ checked = [t \in Loops |-> NoneYet]
  /\ crashed = FALSE
  /\ entries = [s \in Symbols |-> 0]
  /\ guarded = [s \in Symbols |-> FALSE]
  /\ astray  = FALSE
  /\ late    = [t \in Loops |-> 0]
  /\ mishaps = {}

HandlerGoes(h, from, to) ==
  ~crashed /\ hpc[h] = from /\ hpc' = [hpc EXCEPT ![h] = to]
LoopGoes(t, from, to) ==
  ~crashed /\ lpc[t] = from /\ lpc' = [lpc EXCEPT ![t] = to]

\* A request of that kind goes well or, if it may, fails.
Outcome(kind, well) ==
  /\ well \/ kind \in Faults
  /\ mishaps' = IF well THEN mishaps ELSE mishaps \cup {kind}

Alive(t) == lpc[t] \notin {"unborn", "ended"}
Live == {t \in Loops : Alive(t)}

-----------------------------------------------------------------------------
(* start()                                                                 *)

\* Handlers in start() or stop(), and those on their way to a new loop.
Busy == {h \in Handlers : hpc[h] # "idle"}
Starting == {h \in Handlers : hpc[h] \in {"configure", "raise", "spawn"}}

\* The bound: no start begins that could not get a loop.
StartsLeft == Cardinality(Starting) < Cardinality({t \in Loops : lpc[t] = "unborn"})

\* "Already running" sends the caller home; the test is not atomic with
\* what follows it.
StartTest(h) ==
  /\ StartsLeft
  /\ HandlerGoes(h, "idle", IF robot_running THEN "idle" ELSE "configure")
  /\ mishaps' = mishaps \cup
       {k \in {"look", "crossing"} :
          /\ ~robot_running
          /\ k = "look" => Starting \cup Live # {}
          /\ k = "crossing" => Busy # {}}
  /\ UNCHANGED <<sharedVars, loopVars, exchangeVars, astray, late, crashed>>

\* Mutant: no default for a symbol that the config file lacks.
StartBlank(h) ==
  /\ HandlerGoes(h, "configure", "raise")
  /\ config' \in Configs \cup [symbol : {"blank"}, auto_trade : BOOLEAN]
  /\ UNCHANGED <<robot_running, robot_thread, object, loopVars,
                 exchangeVars, history, crashed>>

\* The config file holds whatever POST /api/robot/config last put there.
StartConfigure(h) ==
  /\ HandlerGoes(h, "configure", "raise")
  /\ config' \in Configs
  /\ UNCHANGED <<robot_running, robot_thread, object, loopVars,
                 exchangeVars, history, crashed>>

StartRaise(h) ==
  /\ HandlerGoes(h, "raise", "spawn")
  /\ robot_running' = TRUE
  /\ late' = [t \in Loops |-> 0]
  /\ UNCHANGED <<robot_thread, config, object, loopVars, exchangeVars,
                 astray, mishaps, crashed>>

\* new std::thread: a joinable object and a running loop.
StartSpawn(h) ==
  /\ HandlerGoes(h, "spawn", "detach")
  /\ \E t \in Loops :
       /\ lpc[t] = "unborn"
       /\ \A u \in Loops : lpc[u] = "unborn" => t <= u
       /\ lpc' = [lpc EXCEPT ![t] = "while"]
       /\ object' = [object EXCEPT ![t] = "joinable"]
       /\ robot_thread' = t
  /\ UNCHANGED <<robot_running, config, checked, exchangeVars,
                 history, crashed>>

\* new std::thread throws: answered 500 by the HTTP library, the flag stays
\* up without a loop.
SpawnFails(h) ==
  /\ "thread" \in Faults
  /\ HandlerGoes(h, "spawn", "idle")
  /\ UNCHANGED <<sharedVars, loopVars, exchangeVars, history, crashed>>

\* detach() through the global pointer.  On an object that is not joinable
\* it throws, and the HTTP library answers 500.
StartDetach(h) ==
  /\ HandlerGoes(h, "detach", "idle")
  /\ IF robot_thread # 0 /\ object[robot_thread] \in {"joinable", "detached"}
     THEN /\ object' = [object EXCEPT ![robot_thread] = "detached"]
          /\ UNCHANGED crashed
     ELSE /\ crashed' = TRUE
          /\ UNCHANGED object
  /\ UNCHANGED <<robot_running, robot_thread, config, loopVars,
                 exchangeVars, history>>

-----------------------------------------------------------------------------
(* stop()                                                                  *)

StopLower(h) ==
  /\ HandlerGoes(h, "idle", "look")
  /\ robot_running' = FALSE
  /\ mishaps' = IF Busy = {} THEN mishaps ELSE mishaps \cup {"crossing"}
  /\ UNCHANGED <<robot_thread, config, object, loopVars, exchangeVars,
                 astray, late, crashed>>

StopLook(h) ==
  /\ HandlerGoes(h, "look", IF robot_thread = 0 THEN "idle" ELSE "wait")
  /\ UNCHANGED <<sharedVars, loopVars, exchangeVars, history, crashed>>

\* for (i = 0; i < 50 && robot_running; ...): over at once when the flag is
\* down, after five seconds when another handler raised it again; it waits
\* for no loop.
StopWait(h) ==
  /\ HandlerGoes(h, "wait", "delete")
  /\ UNCHANGED <<sharedVars, loopVars, exchangeVars, history, crashed>>

\* delete: harmless on nullptr and on a detached thread, std::terminate on
\* a joinable one, undefined on an object that is gone.
StopDelete(h) ==
  /\ HandlerGoes(h, "delete", "clear")
  /\ CASE robot_thread = 0 -> UNCHANGED <<object, crashed>>
       [] robot_thread # 0 /\ object[robot_thread] = "detached" ->
            /\ object' = [object EXCEPT ![robot_thread] = "deleted"]
            /\ UNCHANGED crashed
       [] OTHER -> crashed' = TRUE /\ UNCHANGED object
  /\ UNCHANGED <<robot_running, robot_thread, config, loopVars,
                 exchangeVars, history>>

\* Mutant: the pointer is not cleared.
StopKeeps(h) ==
  /\ HandlerGoes(h, "clear", "idle")
  /\ UNCHANGED <<sharedVars, loopVars, exchangeVars, history, crashed>>

StopClear(h) ==
  /\ HandlerGoes(h, "clear", "idle")
  /\ robot_thread' = 0
  /\ UNCHANGED <<robot_running, config, object, loopVars,
                 exchangeVars, history, crashed>>

-----------------------------------------------------------------------------
(* trading_loop() and open_trade()                                         *)

\* Mutant: while (true).
WhileTrue(t) ==
  /\ LoopGoes(t, "while", "position")
  /\ UNCHANGED <<sharedVars, hpc, checked, exchangeVars, history, crashed>>

WhileTest(t) ==
  /\ LoopGoes(t, "while", IF robot_running THEN "position" ELSE "ended")
  /\ UNCHANGED <<sharedVars, hpc, checked, exchangeVars, history, crashed>>

\* Mutant: goes on when there is a position.
CheckNothing(t) ==
  /\ LoopGoes(t, "position", "signal")
  /\ checked' = [checked EXCEPT ![t] = config.symbol]
  /\ UNCHANGED <<sharedVars, hpc, exchangeVars, history, crashed>>

\* get_position answers null both for "flat" and for "no answer".
CheckPosition(t) ==
  /\ \E answered \in BOOLEAN :
       /\ Outcome("look", answered)
       /\ LoopGoes(t, "position",
                   IF answered /\ entries[config.symbol] > 0 THEN "sleep" ELSE "signal")
  /\ checked' = [checked EXCEPT ![t] = config.symbol]
  /\ UNCHANGED <<sharedVars, hpc, exchangeVars, astray, late, crashed>>

\* Missing, NEUTRAL, weak or priceless signals send the loop to sleep.
AskSignal(t) ==
  /\ \E next \in {"gate", "sleep"} : LoopGoes(t, "signal", next)
  /\ UNCHANGED <<sharedVars, hpc, checked, exchangeVars, history, crashed>>

Gate(t) ==
  /\ LoopGoes(t, "gate", IF config.auto_trade THEN "balance" ELSE "sleep")
  /\ UNCHANGED <<sharedVars, hpc, checked, exchangeVars, history, crashed>>

\* A failed query reads as balance 0; too small a quantity and missing
\* TP/SL prices end the iteration as well.
ReadBalance(t) ==
  /\ \E next \in {"leverage", "sleep"} : LoopGoes(t, "balance", next)
  /\ UNCHANGED <<sharedVars, hpc, checked, exchangeVars, history, crashed>>

SetLeverage(t) ==
  /\ \E accepted \in BOOLEAN :
       /\ Outcome("order", accepted)
       /\ LoopGoes(t, "leverage", IF accepted THEN "order" ELSE "sleep")
  /\ UNCHANGED <<sharedVars, hpc, checked, exchangeVars, astray, late, crashed>>

\* The order is carried out, or not; an order that was carried out may
\* still look failed (reply lost, unreadable, or without orderId).
CreateOrder(t) ==
  LET s == config.symbol IN
  \E executed, acknowledged \in BOOLEAN :
    /\ acknowledged => executed
    /\ Outcome("order", acknowledged)
    /\ LoopGoes(t, "order", IF acknowledged THEN "tpsl" ELSE "sleep")
    /\ IF executed
       THEN /\ entries' = [entries EXCEPT ![s] = OneMore(@)]
            /\ astray' = (astray \/ checked[t] # s)
            /\ late' = IF robot_running THEN late ELSE [late EXCEPT ![t] = OneMore(@)]
       ELSE UNCHANGED <<entries, astray, late>>
    /\ UNCHANGED <<sharedVars, hpc, checked, guarded, crashed>>

\* Mutant: open_trade returns before the TP/SL request.
SkipTpSl(t) ==
  /\ LoopGoes(t, "tpsl", "sleep")
  /\ UNCHANGED <<sharedVars, hpc, checked, exchangeVars, history, crashed>>

\* trading-stop; open_trade returns true whatever comes of it.
SetTpSl(t) ==
  /\ LoopGoes(t, "tpsl", "sleep")
  /\ \E applied \in BOOLEAN :
       /\ Outcome("order", applied)
       /\ guarded' = [guarded EXCEPT ![config.symbol] =
                        @ \/ (applied /\ entries[config.symbol] > 0)]
  /\ UNCHANGED <<sharedVars, hpc, checked, entries, astray, late, crashed>>

Wake(t) ==
  /\ LoopGoes(t, "sleep", "while")
  /\ checked' = [checked EXCEPT ![t] = NoneYet]
  /\ UNCHANGED <<sharedVars, hpc, exchangeVars, history, crashed>>

\* The exchange closes a position: take-profit, stop-loss or the user.
ClosePosition(s) ==
  /\ ~crashed
  /\ entries[s] > 0
  /\ entries' = [entries EXCEPT ![s] = 0]
  /\ guarded' = [guarded EXCEPT ![s] = FALSE]
  /\ UNCHANGED <<sharedVars, hpc, loopVars, history, crashed>>

-----------------------------------------------------------------------------
HandlerFinishes(h) ==
  \/ StartConfigure(h) \/ StartRaise(h) \/ StartSpawn(h) \/ SpawnFails(h)
  \/ StartDetach(h) \/ StopLook(h) \/ StopWait(h) \/ StopDelete(h) \/ StopClear(h)

LoopStep(t) ==
  \/ WhileTest(t) \/ CheckPosition(t) \/ AskSignal(t) \/ Gate(t)
  \/ ReadBalance(t) \/ SetLeverage(t) \/ CreateOrder(t) \/ SetTpSl(t) \/ Wake(t)

Next ==
  \/ \E h \in Handlers : StartTest(h) \/ StopLower(h) \/ HandlerFinishes(h)
  \/ \E t \in Loops : LoopStep(t)
  \/ \E s \in Symbols : ClosePosition(s)

Spec == Init /\ [][Next]_vars

\* Every request has a timeout and every sleep an end, so loops and
\* handlers go on; nobody has to start, stop or close anything.
LiveSpec ==
  /\ Spec
  /\ \A h \in Handlers : WF_vars(HandlerFinishes(h))
  /\ \A t \in Loops : WF_vars(LoopStep(t))

-----------------------------------------------------------------------------
(* Properties *)

TypeOK ==
  /\ robot_running \in BOOLEAN
  /\ robot_thread \in Loops \cup {0}
  /\ config \in Configs
  /\ object \in [Loops -> ObjectStates]
  /\ hpc \in [Handlers -> HandlerPlaces]
  /\ lpc \in [Loops -> LoopPlaces]
  /\ checked \in [Loops -> Symbols]
  /\ crashed \in BOOLEAN
  /\ entries \in [Symbols -> 0..Several]
  /\ guarded \in [Symbols -> BOOLEAN]
  /\ astray \in BOOLEAN
  /\ late \in [Loops -> 0..Several]
  /\ mishaps \subseteq {"look", "order", "crossing"}

(* start() and stop() never bring the process down: no thread object is    *)
(* deleted while joinable, deleted twice, or detached after its deletion.  *)
NoCrash == ~crashed

(* Only starts and stops that cross bring the process down: however often  *)
(* the robot is restarted, whatever fails and whatever its loops are doing,*)
(* one start or stop after another leaves the thread pointer null or with  *)
(* an object that may be deleted.                                          *)
CrashNeedsCrossing == crashed => "crossing" \in mishaps

(* While position queries are answered and starts do not overlap, whatever *)
(* becomes of orders and replies, the robot opens a position only out of a *)
(* flat one and only for the symbol it looked at: "1. check whether there  *)
(* is a position" comes before every order.                                *)
NoSecondEntry ==
  mishaps \subseteq {"order", "crossing"} =>
    ~astray /\ \A s \in Symbols : entries[s] < Several

(* When no order fails either, an open position without take-profit and    *)
(* stop-loss has a loop on its way to set them.                            *)
UnguardedIsPending ==
  mishaps \subseteq {"crossing"} =>
    \A s \in Symbols :
      entries[s] > 0 /\ ~guarded[s] =>
        config.symbol = s /\ \E t \in Loops : lpc[t] = "tpsl"

(* What may become of a position: it is entered once and out of a flat     *)
(* one, and it is not left without its limits.                             *)
EntriesAreSafe == NoSecondEntry /\ UnguardedIsPending

(* Between a stop and the next start a loop sends at most the one order    *)
(* of the iteration it was in when the flag went down.                     *)
OneLateOrder == \A t \in Loops : late[t] < Several

(* "Already running": there is never more than one trading loop.           *)
OneLoop == Cardinality(Live) <= 1

(* A robot that stays stopped has no loop left in the end: they all end,   *)
(* or the process does.                                                    *)
StoppedLoopsEnd == <>[](~robot_running) => <>[](Live = {} \/ crashed)

==============================================================================
