-------------------------------- MODULE Scan --------------------------------
(***************************************************************************)
(* Site surveys in r92su: cfg80211's scan requests and the scan a connect  *)
(* makes first (r92su/main.c), the firmware's survey-done event            *)
(* (r92su/event.c), the delayed work that ends a survey, and how opening,  *)
(* stopping and the death of the device meet them.                         *)
(*                                                                         *)
(* The callers from user space hold the RTNL, so there is one of them at a *)
(* time (upc).  r92su->lock is held from the first to the last step of a   *)
(* critical section that has several steps; a section that reads the state *)
(* once is one step.  The death of the device comes without any lock.      *)
(* OPEN stands for OPEN and CONNECTED, which no step here tells apart.     *)
(***************************************************************************)
EXTENDS Naturals, FiniteSets

CONSTANT MaxSurvey   \* bound: surveys started

ASSUME ScanAssumption == MaxSurvey \in Nat \ {0}

Survey == 1 .. MaxSurvey
NoRequest == 0

VARIABLES
    state,         \* r92su->state
    netdev,        \* IFF_UP: ndo_open succeeded and ndo_stop did not return
    upc,           \* statement of the caller that holds the RTNL
    cpc,           \* statement of a connect or disconnect that sets the state
    tpc,           \* statement of c2h_survey_done_event in the rx tasklet
    wpc,           \* statement of survey_done_work
    work,          \* survey_done_work as a work item
    service,       \* service_work as a work item
    scan_request,  \* the request, named by its survey, or NoRequest
    scanned,
    scan_done,     \* the completion's counter
    surveys,       \* surveys started so far
    fw,            \* surveys the firmware has not reported done
    accepted,      \* surveys that are cfg80211 requests (history)
    answered       \* [Survey -> calls of cfg80211_scan_done] (history)

pcs   == <<upc, cpc, tpc, wpc>>
works == <<work, service>>
reqs  == <<scan_request, accepted, answered>>
vars  == <<state, netdev, pcs, works, reqs, scanned, scan_done, surveys, fw>>

State  == {"DEAD", "STOP", "OPEN"}
UserPC == {"idle", "open_init", "open_set", "stop_set", "stop_answer",
           "stop_survey", "stop_service", "scan_lock", "scan_queue", "scan_wait"}

IsOpen   == state = "OPEN"

\* Mutant: r92su_stop cancels the works before it releases the lock.
MutLockHeldByCancel ==
    /\ upc \notin {"open_init", "open_set", "stop_set", "stop_answer", "stop_survey"}
    /\ cpc = "idle"

LockFree == upc \notin {"open_init", "open_set", "stop_set", "stop_answer"} /\ cpc = "idle"

Init ==
    /\ state = "STOP" /\ netdev = "down"
    /\ upc = "idle" /\ cpc = "idle" /\ tpc = "idle" /\ wpc = "idle"
    /\ work = "none" /\ service = "none"
    /\ scan_request = NoRequest /\ accepted = {} /\ answered = [n \in Survey |-> 0]
    /\ scanned = FALSE
    /\ scan_done = 0
    /\ surveys = 0
    /\ fw = {}

\* queue_delayed_work leaves an item alone that is pending already; without a
\* delay the item is queued at once.
queue_survey_done(delay) ==
    work' = IF work # "none" THEN work ELSE IF delay THEN "timer" ELSE "queued"

\* cfg80211_scan_done for the request, if there is one.
Answer ==
    /\ answered' = IF scan_request = NoRequest THEN answered
                   ELSE [answered EXCEPT ![scan_request] = @ + 1]
    /\ scan_request' = NoRequest
    /\ UNCHANGED accepted

\* r92su_h2c_survey succeeded.  When it fails, nothing is left changed.
h2c_survey ==
    /\ surveys < MaxSurvey
    /\ surveys' = surveys + 1
    /\ fw' = fw \cup {surveys + 1}

----------------------------------------------------------------------------
(* r92su_open *)

open ==
    /\ upc = "idle" /\ netdev = "down"
    /\ LockFree
    /\ state = "STOP"
    /\ upc' = "open_init"
    /\ UNCHANGED <<state, netdev, cpc, tpc, wpc, works, reqs, scanned, scan_done, surveys, fw>>

\* The set-up of the MAC and the firmware may fail; then the state is checked
\* again, ...
open_init ==
    /\ upc = "open_init"
    /\ \/ upc' = "idle"
       \/ state = "STOP" /\ upc' = "open_set"
    /\ UNCHANGED <<state, netdev, cpc, tpc, wpc, works, reqs, scanned, scan_done, surveys, fw>>

\* ... and set, whatever it has become.
open_set ==
    /\ upc = "open_set"
    /\ state' = "OPEN"
    /\ service' = "pending"
    /\ netdev' = "up"
    /\ upc' = "idle"
    /\ UNCHANGED <<cpc, tpc, wpc, work, reqs, scanned, scan_done, surveys, fw>>

----------------------------------------------------------------------------
(* r92su_stop *)

stop ==
    /\ upc = "idle" /\ netdev = "up"
    /\ LockFree
    /\ upc' = IF IsOpen THEN "stop_set" ELSE "stop_answer"
    /\ UNCHANGED <<state, netdev, cpc, tpc, wpc, works, reqs, scanned, scan_done, surveys, fw>>

stop_set ==
    /\ upc = "stop_set"
    /\ state' = "STOP"
    /\ upc' = "stop_answer"
    /\ UNCHANGED <<netdev, cpc, tpc, wpc, works, reqs, scanned, scan_done, surveys, fw>>

\* The request is answered as aborted, and the lock released.
stop_answer ==
    /\ upc = "stop_answer"
    /\ Answer
    /\ upc' = "stop_survey"
    /\ UNCHANGED <<state, netdev, cpc, tpc, wpc, works, scanned, scan_done, surveys, fw>>

\* cancel_delayed_work_sync(&survey_done_work) waits for a running instance.
stop_survey ==
    /\ upc = "stop_survey"
    /\ wpc = "idle"
    /\ work' = "none"
    /\ upc' = "stop_service"
    /\ UNCHANGED <<state, netdev, cpc, tpc, wpc, service, reqs, scanned, scan_done, surveys, fw>>

\* cancel_delayed_work_sync(&service_work), then the other works.
stop_service ==
    /\ upc = "stop_service"
    /\ service' = "none"
    /\ netdev' = "down"
    /\ upc' = "idle"
    /\ UNCHANGED <<state, cpc, tpc, wpc, work, reqs, scanned, scan_done, surveys, fw>>

----------------------------------------------------------------------------
(* r92su_scan, r92su_internal_scan *)

\* Mutant: the survey has no timeout.
MutScanNoTimeout ==
    /\ upc = "idle" /\ netdev = "up"
    /\ LockFree
    /\ IsOpen
    /\ scan_request = NoRequest
    /\ h2c_survey
    /\ scan_request' = surveys + 1
    /\ accepted' = accepted \cup {surveys + 1}
    /\ UNCHANGED <<state, netdev, pcs, works, answered, scanned, scan_done>>

\* A request of cfg80211, which calls only while the interface is up.
scan ==
    /\ upc = "idle" /\ netdev = "up"
    /\ LockFree
    /\ IsOpen
    /\ scan_request = NoRequest
    /\ h2c_survey
    /\ scan_request' = surveys + 1
    /\ accepted' = accepted \cup {surveys + 1}
    /\ queue_survey_done(TRUE)
    /\ UNCHANGED <<state, netdev, pcs, service, answered, scanned, scan_done>>

\* A connect looks for its bss first, unless a survey ended lately: it reads
\* scanned without the lock, ...
internal_scan ==
    /\ upc = "idle" /\ netdev = "up"
    /\ ~scanned
    /\ upc' = "scan_lock"
    /\ UNCHANGED <<state, netdev, cpc, tpc, wpc, works, reqs, scanned, scan_done, surveys, fw>>

\* ... starts a survey, or gives up with an error ...
internal_scan_survey ==
    /\ upc = "scan_lock"
    /\ LockFree
    /\ \/ /\ IsOpen
          /\ h2c_survey
          /\ upc' = "scan_queue"
       \/ /\ upc' = "idle"
          /\ UNCHANGED <<surveys, fw>>
    /\ UNCHANGED <<state, netdev, cpc, tpc, wpc, works, reqs, scanned, scan_done>>

\* ... it queues the work after it gave the lock back ...
internal_scan_queue ==
    /\ upc = "scan_queue"
    /\ queue_survey_done(TRUE)
    /\ upc' = "scan_wait"
    /\ UNCHANGED <<state, netdev, cpc, tpc, wpc, service, reqs, scanned, scan_done, surveys, fw>>

\* ... and waits for the completion.
internal_scan_wait ==
    /\ upc = "scan_wait"
    /\ scan_done > 0
    /\ scan_done' = scan_done - 1
    /\ upc' = "idle"
    /\ UNCHANGED <<state, netdev, cpc, tpc, wpc, works, reqs, scanned, surveys, fw>>

----------------------------------------------------------------------------
(* c2h_survey_done_event, in the rx tasklet *)

\* The firmware reports a survey done; the state is read once ...
survey_done_event(n) ==
    /\ tpc = "idle"
    /\ n \in fw
    /\ fw' = fw \ {n}
    /\ tpc' = IF IsOpen THEN "cancel" ELSE "idle"
    /\ UNCHANGED <<state, netdev, upc, cpc, wpc, works, reqs, scanned, scan_done, surveys>>

\* ... a pending work item is taken back, ...
survey_done_cancel ==
    /\ tpc = "cancel"
    /\ work' = "none"
    /\ tpc' = IF work # "none" THEN "queue" ELSE "idle"
    /\ UNCHANGED <<state, netdev, upc, cpc, wpc, service, reqs, scanned, scan_done, surveys, fw>>

\* Mutant: the work is queued only if the device is still open.
MutQueueIfOpen ==
    /\ tpc = "queue"
    /\ IF IsOpen /\ upc = "idle" THEN queue_survey_done(FALSE) ELSE UNCHANGED work
    /\ tpc' = "idle"
    /\ UNCHANGED <<state, netdev, upc, cpc, wpc, service, reqs, scanned, scan_done, surveys, fw>>

\* ... and queued without delay.
survey_done_queue ==
    /\ tpc = "queue"
    /\ queue_survey_done(FALSE)
    /\ tpc' = "idle"
    /\ UNCHANGED <<state, netdev, upc, cpc, wpc, service, reqs, scanned, scan_done, surveys, fw>>

----------------------------------------------------------------------------
(* Works *)

\* R92SU_SCAN_TIMEOUT is over.
survey_timeout ==
    /\ work = "timer"
    /\ work' = "queued"
    /\ UNCHANGED <<state, netdev, pcs, service, reqs, scanned, scan_done, surveys, fw>>

\* The workqueue takes the item up: from here it can be queued again.
survey_done_start ==
    /\ work = "queued" /\ wpc = "idle"
    /\ work' = "none"
    /\ wpc' = "lock"
    /\ UNCHANGED <<state, netdev, upc, cpc, tpc, service, reqs, scanned, scan_done, surveys, fw>>

\* Mutants: the request is not forgotten once it is answered; the completion is
\* signalled only for requests of cfg80211.
MutWorkKeepsRequest ==
    /\ wpc = "lock"
    /\ LockFree
    /\ IF IsOpen
       THEN /\ answered' = IF scan_request = NoRequest THEN answered
                           ELSE [answered EXCEPT ![scan_request] = @ + 1]
            /\ scanned' = TRUE /\ scan_done' = scan_done + 1
       ELSE UNCHANGED <<answered, scanned, scan_done>>
    /\ wpc' = "idle"
    /\ UNCHANGED <<state, netdev, upc, cpc, tpc, works, scan_request, accepted, surveys, fw>>
MutWorkCompletesRequests ==
    /\ wpc = "lock"
    /\ LockFree
    /\ IF IsOpen
       THEN /\ Answer /\ scanned' = TRUE
            /\ scan_done' = IF scan_request = NoRequest THEN scan_done ELSE scan_done + 1
       ELSE UNCHANGED <<reqs, scanned, scan_done>>
    /\ wpc' = "idle"
    /\ UNCHANGED <<state, netdev, upc, cpc, tpc, works, surveys, fw>>

\* r92su_survey_done_work
survey_done_work ==
    /\ wpc = "lock"
    /\ LockFree
    /\ \/ /\ IsOpen
          /\ Answer
          /\ scanned' = TRUE
          /\ scan_done' = scan_done + 1
       \/ /\ ~IsOpen
          /\ UNCHANGED <<reqs, scanned, scan_done>>
    /\ wpc' = "idle"
    /\ UNCHANGED <<state, netdev, upc, cpc, tpc, works, surveys, fw>>

\* r92su_hw_service_work queues itself again while the device works.
service_work ==
    /\ service = "pending"
    /\ LockFree
    /\ \/ /\ IsOpen
          /\ scanned' = FALSE
          /\ UNCHANGED service
       \/ /\ ~IsOpen
          /\ service' = "none"
          /\ UNCHANGED scanned
    /\ UNCHANGED <<state, netdev, pcs, work, reqs, scan_done, surveys, fw>>

----------------------------------------------------------------------------
(* Elsewhere in the driver *)

\* r92su_mark_dead, from an URB callback or a bad event.
mark_dead ==
    /\ state # "DEAD"
    /\ state' = "DEAD"
    /\ UNCHANGED <<netdev, pcs, works, reqs, scanned, scan_done, surveys, fw>>

\* connect_bss_work and the disconnects look at the state ...
connection_check ==
    /\ LockFree
    /\ IsOpen
    /\ cpc' = "set"
    /\ UNCHANGED <<state, netdev, upc, tpc, wpc, works, reqs, scanned, scan_done, surveys, fw>>

\* ... and set it to OPEN or CONNECTED later in the critical section.
connection_set ==
    /\ cpc = "set"
    /\ state' = "OPEN"
    /\ cpc' = "idle"
    /\ UNCHANGED <<netdev, upc, tpc, wpc, works, reqs, scanned, scan_done, surveys, fw>>

----------------------------------------------------------------------------

User ==
    \/ open \/ open_init \/ open_set
    \/ stop \/ stop_set \/ stop_answer \/ stop_survey \/ stop_service
    \/ scan
    \/ internal_scan \/ internal_scan_survey \/ internal_scan_queue \/ internal_scan_wait

Tasklet == survey_done_cancel \/ survey_done_queue

Next ==
    \/ User
    \/ \E n \in Survey : survey_done_event(n)
    \/ Tasklet
    \/ survey_timeout \/ survey_done_start \/ survey_done_work
    \/ service_work
    \/ mark_dead
    \/ connection_check \/ connection_set
    \/ state = "DEAD" /\ UNCHANGED vars   \* a dead device may be left alone

Spec == Init /\ [][Next]_vars

\* Callers finish what they began, softirqs, timers and works run, and the
\* mutex lets its waiters through.  Nobody must open, stop or scan, and the
\* firmware need not report a survey.
Fairness ==
    /\ WF_vars(open_init) /\ WF_vars(open_set)
    /\ WF_vars(stop_set) /\ WF_vars(stop_answer)
    /\ WF_vars(stop_survey) /\ WF_vars(stop_service)
    /\ SF_vars(internal_scan_survey) /\ WF_vars(internal_scan_queue) /\ WF_vars(internal_scan_wait)
    /\ WF_vars(Tasklet)
    /\ WF_vars(survey_timeout) /\ WF_vars(survey_done_start)
    /\ SF_vars(survey_done_work)
    /\ WF_vars(connection_set)

FairSpec == Spec /\ Fairness

----------------------------------------------------------------------------
(* Properties *)

\* Statements, work items and counters of the survey code keep their types.
TypeOK ==
    /\ state \in State /\ netdev \in {"down", "up"}
    /\ upc \in UserPC /\ cpc \in {"idle", "set"}
    /\ tpc \in {"idle", "cancel", "queue"} /\ wpc \in {"idle", "lock"}
    /\ work \in {"none", "timer", "queued"} /\ service \in {"none", "pending"}
    /\ scan_request \in Survey \cup {NoRequest} /\ scanned \in BOOLEAN
    /\ scan_done \in Nat /\ surveys \in 0 .. MaxSurvey /\ fw \subseteq Survey
    /\ accepted \subseteq Survey /\ answered \in [Survey -> Nat]

\* Every request that r92su_scan accepted is answered at most once, by the work
\* or by r92su_stop, and while it is not answered the driver still knows it.
AnsweredOnce ==
    /\ TypeOK
    /\ \A n \in Survey :
          /\ answered[n] <= 1
          /\ n \in accepted /\ answered[n] = 0 <=> scan_request = n

\* While the device works, something is on its way to end the survey of a
\* pending request: whatever tasklet, stop and work do to the one work item
\* they share, it is not lost between cancel_delayed_work and its requeueing.
SurveyWatched ==
    scan_request # NoRequest /\ IsOpen =>
        work # "none" \/ wpc = "lock" \/ tpc = "queue"

\* A request is answered in the end, also when the firmware never reports the
\* survey done, unless the device dies.
RequestAnswered ==
    \A n \in Survey : n \in accepted ~> (answered[n] > 0 \/ state = "DEAD")

\* A connect does not wait forever for its survey, unless the device dies.
ConnectGoesOn == upc = "scan_wait" ~> (upc # "scan_wait" \/ state = "DEAD")

\* r92su_stop returns: it cancels works that take r92su->lock only after it
\* has released the lock.
StopReturns == upc \in {"stop_set", "stop_answer"} ~> upc = "idle"
=============================================================================
