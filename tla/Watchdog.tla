------------------------------ MODULE Watchdog ------------------------------
(***************************************************************************)
(* The systemd watchdog of a service process (src/envoxy/utils/watchdog.py *)
(* and the heartbeat in vendors/envoxyd/run.py).                           *)
(*                                                                         *)
(* The watchdog thread waits interval - 1 seconds, looks at the time of    *)
(* the last request, tests GET /_health if that was too long ago, and      *)
(* notifies systemd, which kills and restarts a service it has not heard   *)
(* from for WatchdogSec seconds.  Time passes in steps of a second.        *)
(***************************************************************************)
EXTENDS Integers

CONSTANTS
  Interval,     (* keep_alive: the interval of the Watchdog                 *)
  HttpTimeout,  (* the longest a test of /_health takes (timeout=5 bounds   *)
                (* the connection and each read)                            *)
  WatchdogSec,  (* WatchdogSec of the service unit                          *)
  HttpBind      (* whether the boot configuration has an http bind          *)

(* An interval of 1 waits 0 seconds: its loop never rests, which a clock    *)
(* of seconds does not show.                                               *)
ASSUME WatchdogAssumption ==
  /\ Interval \in Nat \ {0, 1}
  /\ HttpTimeout \in Nat
  /\ WatchdogSec \in Nat \ {0}
  /\ HttpBind \in BOOLEAN

VARIABLES
  pc,       (* the watchdog thread                                          *)
  wait,     (* what is left of event.wait(self.interval - 1)                *)
  tested,   (* how long the HTTP test has taken                             *)
  failures, (* _failure_count                                               *)
  age,      (* seconds since uwsgi.opt["last_event_ms"], -1 without one     *)
  app,      (* the service: it serves, refuses, hangs, or its main thread   *)
            (* has ended                                                    *)
  quiet,    (* seconds since systemd was notified                           *)
  killed,   (* systemd has killed the service                               *)
  down      (* history: seconds the service has not been serving            *)

threadVars == <<pc, wait, tested, failures>>
vars == <<threadVars, age, app, quiet, killed, down>>

MaxFailures == 3

(* The last request, three failures that are forgiven, and systemd's       *)
(* patience.                                                               *)
DetectionTime ==
  Interval + MaxFailures * (Interval - 1 + HttpTimeout) + WatchdogSec

(* The history counts to one beyond it. *)
Longer(n) == IF n > DetectionTime THEN n ELSE n + 1

(* Ages beyond the interval are all alike. *)
Older(a) == IF a = -1 \/ a > Interval THEN a ELSE a + 1

-----------------------------------------------------------------------------
(* start() creates the thread and notifies at once. *)
Init ==
  /\ pc = "waiting" /\ wait = Interval - 1 /\ tested = 0 /\ failures = 0
  /\ age = -1
  /\ app = "serving"
  /\ quiet = 0 /\ killed = FALSE /\ down = 0

(* The next round of the loop. *)
WaitAgain ==
  /\ pc' = "waiting"
  /\ wait' = Interval - 1
  /\ tested' = 0

Stop ==
  /\ pc' = "stopped"
  /\ UNCHANGED <<wait, tested>>

(* notify raised: send_notification logs the exception and the thread ends. *)
NotifyRaises ==
  /\ pc' = "raised"
  /\ UNCHANGED <<wait, tested, quiet>>

Healthy ==
  \/ WaitAgain /\ failures' = 0 /\ quiet' = 0
  \/ NotifyRaises /\ UNCHANGED failures

(* Fault: the first failures are counted and not notified. *)
UnhealthySilent ==
  /\ failures' = failures + 1
  /\ IF failures < MaxFailures THEN WaitAgain ELSE Stop
  /\ UNCHANGED quiet

(* Fault: the fourth failure does not end the thread either. *)
UnhealthyFourth ==
  /\ failures' = failures + 1
  /\ IF failures <= MaxFailures
     THEN (WaitAgain /\ quiet' = 0) \/ NotifyRaises
     ELSE Stop /\ UNCHANGED quiet

(* Three failures in a row are still notified, the fourth ends the thread. *)
Unhealthy ==
  /\ failures' = failures + 1
  /\ IF failures < MaxFailures
     THEN (WaitAgain /\ quiet' = 0) \/ NotifyRaises
     ELSE Stop /\ UNCHANGED quiet

-----------------------------------------------------------------------------
(* send_notification *)

MainThreadDead ==
  /\ pc = "waiting" /\ wait = 0 /\ ~killed
  /\ app = "dead"
  /\ Stop
  /\ UNCHANGED <<failures, age, app, quiet, killed, down>>

RecentEvent ==
  /\ pc = "waiting" /\ wait = 0 /\ ~killed
  /\ app # "dead"
  /\ age \in 0..Interval
  /\ Healthy
  /\ UNCHANGED <<age, app, killed, down>>

BeginTest ==
  /\ pc = "waiting" /\ wait = 0 /\ ~killed
  /\ app # "dead"
  /\ age \notin 0..Interval
  /\ pc' = "testing"
  /\ UNCHANGED <<wait, tested, failures, age, app, quiet, killed, down>>

(* Status 200 in time. *)
TestPasses ==
  /\ pc = "testing" /\ ~killed
  /\ HttpBind /\ app = "serving"
  /\ age' = 0
  /\ Healthy
  /\ UNCHANGED <<app, killed, down>>

(* Fault: the time of the event is set before the status is looked at. *)
TestFailsFresh ==
  /\ pc = "testing" /\ ~killed
  /\ \/ ~HttpBind
     \/ app \in {"refusing", "dead"}
     \/ app = "hanging" /\ tested = HttpTimeout
  /\ age' = 0
  /\ Unhealthy
  /\ UNCHANGED <<app, killed, down>>

(* Another status or no connection, the request times out, or there is no  *)
(* address to test.                                                        *)
TestFails ==
  /\ pc = "testing" /\ ~killed
  /\ \/ ~HttpBind
     \/ app \in {"refusing", "dead"}
     \/ app = "hanging" /\ tested = HttpTimeout
  /\ Unhealthy
  /\ UNCHANGED <<age, app, killed, down>>

-----------------------------------------------------------------------------
(* The service: a request that is answered sets the time of the event. *)

Request ==
  /\ app = "serving" /\ ~killed
  /\ age' = 0
  /\ UNCHANGED <<threadVars, app, quiet, killed, down>>

(* A service that has stopped may come back, a main thread may not. *)
AppChanges ==
  /\ app # "dead" /\ ~killed
  /\ app' \in {"serving", "refusing", "hanging", "dead"} \ {app}
  /\ down' = IF app' = "serving" THEN 0 ELSE down
  /\ UNCHANGED <<threadVars, age, quiet, killed>>

(* systemd *)

Kill ==
  /\ ~killed
  /\ quiet >= WatchdogSec
  /\ killed' = TRUE
  /\ UNCHANGED <<threadVars, age, app, quiet, down>>

Restart ==
  /\ killed
  /\ pc' = "waiting" /\ wait' = Interval - 1 /\ tested' = 0 /\ failures' = 0
  /\ age' = -1
  /\ app' = "serving"
  /\ quiet' = 0 /\ killed' = FALSE /\ down' = 0

(* A second passes: the thread and systemd do at once what is due. *)
Tick ==
  /\ ~killed /\ quiet < WatchdogSec
  /\ pc = "waiting" => wait > 0
  /\ pc = "testing" => tested < HttpTimeout
  /\ wait' = IF pc = "waiting" THEN wait - 1 ELSE wait
  /\ tested' = IF pc = "testing" THEN tested + 1 ELSE tested
  /\ age' = Older(age)
  /\ quiet' = quiet + 1
  /\ down' = IF app = "serving" THEN 0 ELSE Longer(down)
  /\ UNCHANGED <<pc, failures, app, killed>>

Thread == MainThreadDead \/ RecentEvent \/ BeginTest \/ TestPasses \/ TestFails

Next == Thread \/ Request \/ AppChanges \/ Kill \/ Restart \/ Tick

Spec == Init /\ [][Next]_vars

(* Time passes, and the thread and systemd run. *)
FairSpec == Spec /\ WF_vars(Tick) /\ WF_vars(Thread) /\ WF_vars(Kill)

-----------------------------------------------------------------------------
(* Properties. *)

TypeOK ==
  /\ pc \in {"waiting", "testing", "stopped", "raised"}
  /\ wait \in 0 .. Interval - 1
  /\ tested \in 0 .. HttpTimeout
  /\ failures \in 0 .. MaxFailures + 1
  /\ age \in -1 .. Interval + 1
  /\ app \in {"serving", "refusing", "hanging", "dead"}
  /\ quiet \in 0 .. WatchdogSec
  /\ killed \in BOOLEAN
  /\ down \in Nat

(* watchdog.py:220-244: systemd restarts a service only after a fourth     *)
(* failed test in a row, the end of its main thread or a notification      *)
(* that cannot be sent.  This needs a WatchdogSec beyond the wait and the  *)
(* longest test together: with WatchdogSec = keep_alive a single test that *)
(* hangs is enough.                                                        *)
KilledForFailures ==
  WatchdogSec >= Interval + HttpTimeout =>
    (killed => failures > MaxFailures \/ app = "dead" \/ pc = "raised")

(* A service that stops serving, however it stops, is killed within a      *)
(* fixed time: no request, test or forgiven failure keeps it longer.       *)
DetectedInTime == killed \/ down <= DetectionTime

(* And that time does pass. *)
DownServiceKilled == (app # "serving") ~> (killed \/ app = "serving")
=============================================================================
