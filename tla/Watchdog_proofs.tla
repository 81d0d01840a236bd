-------------------------- MODULE Watchdog_proofs --------------------------
(***************************************************************************)
(* What Watchdog promises for every keep_alive, HTTP timeout and           *)
(* WatchdogSec, proved from one inductive invariant: how long systemd has  *)
(* not been notified follows from where the thread is (Pace), and how long *)
(* the service has been down is bounded by the failures that were forgiven *)
(* (Budget).                                                               *)
(***************************************************************************)
EXTENDS Watchdog, TLAPS

Period == Interval - 1 + HttpTimeout

Pace ==
  /\ pc = "waiting" => /\ quiet + wait = Interval - 1 /\ tested = 0
                       /\ failures <= MaxFailures
  /\ pc = "testing" => quiet = Interval - 1 + tested /\ failures <= MaxFailures
  /\ pc = "stopped" => failures > MaxFailures \/ app = "dead"
  /\ killed => quiet >= WatchdogSec

Budget ==
  /\ failures = 0 => down <= Interval + quiet
  /\ failures = 1 => down <= Interval + Period + quiet
  /\ failures = 2 => down <= Interval + 2 * Period + quiet
  /\ failures > 2 => down <= Interval + 3 * Period + quiet

(* No request was answered since the service went down. *)
Events ==
  /\ app = "serving" => down = 0
  /\ age \in 0 .. Interval => down <= age

IInv == TypeOK /\ Pace /\ Budget /\ Events

LEMMA Constants ==
  /\ Interval \in Nat /\ Interval > 1
  /\ HttpTimeout \in Nat
  /\ WatchdogSec \in Nat /\ WatchdogSec > 0
  /\ Period \in Nat
  BY WatchdogAssumption DEF Period

-----------------------------------------------------------------------------
LEMMA InitOK == Init => IInv
<1> SUFFICES ASSUME Init PROVE IInv
  OBVIOUS
<1> USE Constants DEF Init
<1>1. TypeOK
  <2>1. age \in -1 .. Interval + 1
    OBVIOUS
  <2>2. wait \in 0 .. Interval - 1
    OBVIOUS
  <2>3. tested \in 0 .. HttpTimeout /\ failures \in 0 .. MaxFailures + 1
    BY DEF MaxFailures
  <2>4. quiet \in 0 .. WatchdogSec /\ down \in Nat
    OBVIOUS
  <2> QED
    BY <2>1, <2>2, <2>3, <2>4 DEF TypeOK
<1>2. Pace
  BY DEF Pace, MaxFailures
<1>3. Budget
  BY DEF Budget
<1>4. Events
  BY DEF Events
<1> QED
  BY <1>1, <1>2, <1>3, <1>4 DEF IInv

LEMMA RestartStep == Restart => IInv'
<1> SUFFICES ASSUME Restart PROVE IInv'
  OBVIOUS
<1> USE Constants DEF Restart
<1>1. TypeOK'
  <2>1. age' \in -1 .. Interval + 1
    OBVIOUS
  <2>2. wait' \in 0 .. Interval - 1
    OBVIOUS
  <2>3. tested' \in 0 .. HttpTimeout /\ failures' \in 0 .. MaxFailures + 1
    BY DEF MaxFailures
  <2>4. quiet' \in 0 .. WatchdogSec /\ down' \in Nat
    OBVIOUS
  <2> QED
    BY <2>1, <2>2, <2>3, <2>4 DEF TypeOK
<1>2. Pace'
  BY DEF Pace, MaxFailures
<1>3. Budget'
  BY DEF Budget
<1>4. Events'
  BY DEF Events
<1> QED
  BY <1>1, <1>2, <1>3, <1>4 DEF IInv

(* A failed test: the notification, if there is one, comes at most Period  *)
(* after the one before.                                                   *)
LEMMA TestFailsStep == IInv /\ TestFails => IInv'
<1> SUFFICES ASSUME IInv, TestFails PROVE IInv'
  OBVIOUS
<1> USE Constants
<1>1. TypeOK' /\ Pace' /\ Events'
  BY DEF IInv, TypeOK, Pace, Events, TestFails, Unhealthy, WaitAgain, Stop,
         NotifyRaises, MaxFailures
<1>2. quiet \in Nat /\ quiet <= Period /\ down \in Nat /\ down' = down
  BY DEF IInv, TypeOK, Pace, TestFails, Period
<1>3. CASE failures < MaxFailures
  <2>1. failures' = failures + 1 /\ failures \in 0 .. 2
    BY <1>3 DEF IInv, TypeOK, TestFails, Unhealthy, MaxFailures
  <2>2. quiet' \in {0, quiet}
    BY <1>3 DEF TestFails, Unhealthy, WaitAgain, NotifyRaises
  <2>3. ASSUME NEW q \in Nat, quiet' = q PROVE Budget'
    BY <1>2, <2>1, <2>3 DEF IInv, Budget
  <2>4. Budget'
    BY <1>2, <2>2, <2>3
  <2> QED
    BY <1>1, <2>4 DEF IInv
<1>4. CASE ~(failures < MaxFailures)
  <2>1. failures = 3 /\ failures' = 4 /\ quiet' = quiet
    BY <1>4 DEF IInv, TypeOK, Pace, TestFails, Unhealthy, MaxFailures
  <2> QED
    BY <1>1, <1>2, <2>1 DEF IInv, Budget
<1> QED
  BY <1>3, <1>4

LEMMA TickStep == IInv /\ Tick => IInv'
<1> SUFFICES ASSUME IInv, Tick PROVE IInv'
  OBVIOUS
<1> USE Constants
<1> DEFINE longer == Longer(down)
<1>0. longer \in {down, down + 1} /\ down' = (IF app = "serving" THEN 0 ELSE longer)
  BY DEF Tick, Longer
<1> HIDE DEF longer
<1>1. TypeOK'
  BY <1>0 DEF IInv, TypeOK, Tick, Older
<1>2. Pace'
  BY DEF IInv, TypeOK, Pace, Tick
<1>3. Budget'
  BY <1>0 DEF IInv, TypeOK, Budget, Tick
<1>4. Events'
  BY <1>0 DEF IInv, TypeOK, Events, Tick, Older
<1> QED
  BY <1>1, <1>2, <1>3, <1>4 DEF IInv

LEMMA NextStep == IInv /\ [Next]_vars => IInv'
<1> SUFFICES ASSUME IInv, [Next]_vars PROVE IInv'
  OBVIOUS
<1> USE Constants
<1>1. CASE MainThreadDead
  BY <1>1 DEF IInv, TypeOK, Pace, Budget, Events, MainThreadDead, Stop
<1>2. CASE RecentEvent
  <2>1. TypeOK' /\ Pace' /\ Events'
    BY <1>2 DEF IInv, TypeOK, Pace, Events, RecentEvent, Healthy, WaitAgain,
              NotifyRaises, MaxFailures
  <2>2. ASSUME failures' = 0, quiet' = 0 PROVE Budget'
    <3>1. down' = down /\ down <= Interval /\ down \in Nat
      BY <1>2 DEF IInv, TypeOK, Events, RecentEvent
    <3> QED
      BY <2>2, <3>1 DEF Budget
  <2>3. ASSUME UNCHANGED <<failures, quiet, down>> PROVE Budget'
    BY <2>3 DEF IInv, Budget
  <2>4. Budget'
    BY <1>2, <2>2, <2>3 DEF RecentEvent, Healthy, WaitAgain, NotifyRaises
  <2> QED
    BY <2>1, <2>4 DEF IInv
<1>3. CASE BeginTest
  BY <1>3 DEF IInv, TypeOK, Pace, Budget, Events, BeginTest, MaxFailures
<1>4. CASE TestPasses
  <2>1. TypeOK' /\ Pace' /\ Events'
    BY <1>4 DEF IInv, TypeOK, Pace, Events, TestPasses, Healthy, WaitAgain,
              NotifyRaises, MaxFailures
  <2>2. down' = 0
    BY <1>4 DEF IInv, Events, TestPasses
  <2>3. ASSUME NEW q \in Nat, quiet' = q PROVE Budget'
    BY <2>2, <2>3 DEF Budget
  <2>4. quiet' \in Nat
    BY <1>4 DEF IInv, TypeOK, TestPasses, Healthy, NotifyRaises
  <2>5. Budget'
    BY <2>3, <2>4
  <2> QED
    BY <2>1, <2>5 DEF IInv
<1>5. CASE TestFails
  BY <1>5, TestFailsStep
<1>6. CASE Request
  BY <1>6 DEF IInv, TypeOK, Pace, Budget, Events, Request, threadVars
<1>7. CASE AppChanges
  BY <1>7 DEF IInv, TypeOK, Pace, Budget, Events, AppChanges, threadVars
<1>8. CASE Kill
  BY <1>8 DEF IInv, TypeOK, Pace, Budget, Events, Kill, threadVars
<1>9. CASE Restart
  BY <1>9, RestartStep
<1>10. CASE Tick
  BY <1>10, TickStep
<1>11. CASE UNCHANGED vars
  BY <1>11 DEF IInv, TypeOK, Pace, Budget, Events, vars, threadVars
<1> QED
  BY <1>1, <1>2, <1>3, <1>4, <1>5, <1>6, <1>7, <1>8, <1>9, <1>10, <1>11 DEF Next, Thread

LEMMA Inductive == Spec => []IInv
<1>1. Init => IInv
  BY InitOK
<1>2. IInv /\ [Next]_vars => IInv'
  BY NextStep
<1> QED
  BY <1>1, <1>2, PTL DEF Spec

-----------------------------------------------------------------------------
(* The variables stay in their types; the failure count stops at four.     *)
THEOREM TypeCorrect == Spec => []TypeOK
<1>1. IInv => TypeOK
  BY DEF IInv
<1> QED
  BY <1>1, Inductive, PTL

(* A service is killed for its failed tests or its dead main thread only,  *)
(* if WatchdogSec leaves room for the wait and the longest test.           *)
THEOREM NoEarlyKill == Spec => []KilledForFailures
<1>1. IInv => KilledForFailures
  BY Constants DEF IInv, TypeOK, Pace, KilledForFailures
<1> QED
  BY <1>1, Inductive, PTL

(* A service that stopped serving is killed within DetectionTime.          *)
THEOREM Detection == Spec => []DetectedInTime
<1>1. ASSUME IInv PROVE DetectedInTime
  <2>1. failures \in 0 .. 4 /\ down \in Nat /\ quiet \in Nat /\ quiet <= WatchdogSec
    BY <1>1, Constants DEF IInv, TypeOK, MaxFailures
  <2>2. down <= Interval + 3 * Period + quiet
    BY <1>1, <2>1, Constants DEF IInv, Budget
  <2>3. down <= Interval + 3 * Period + WatchdogSec
    BY <2>1, <2>2, Constants
  <2> QED
    BY <2>3 DEF DetectedInTime, DetectionTime, MaxFailures, Period
<1> QED
  BY <1>1, Inductive, PTL
=============================================================================
