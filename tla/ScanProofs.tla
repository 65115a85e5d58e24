----------------------------- MODULE ScanProofs -----------------------------
(***************************************************************************)
(* Proofs about Scan for any number of surveys: a scan request is answered *)
(* once, and the one work item that tasklet, timer, stop and connect share *)
(* is never lost while a request waits for it.                             *)
(***************************************************************************)
EXTENDS Scan, TLAPS

\* A request is known exactly while it is accepted and not answered; surveys
\* that are still to come were neither.
RequestInv ==
    /\ \A n \in Survey :
        /\ answered[n] <= 1
        /\ n \in accepted /\ answered[n] = 0 <=> scan_request = n
        /\ n \notin accepted => answered[n] = 0
    /\ \A n \in accepted : n <= surveys

\* Requests come and wait while the interface is up; r92su_stop answers them
\* before it cancels the work, and r92su_open finds none.
NetInv ==
    /\ upc \in {"open_init", "open_set"} => netdev = "down"
    /\ upc \notin {"idle", "open_init", "open_set"} => netdev = "up"
    /\ scan_request # NoRequest =>
        netdev = "up" /\ upc \notin {"stop_survey", "stop_service"}

\* Something will end the survey.
Watched == work # "none" \/ wpc = "lock" \/ tpc = "queue"

\* An unwatched request is one of a device that is not open, and nobody is about
\* to set its state to OPEN: the work that found the device dead held the lock.
WatchInv == scan_request # NoRequest /\ ~Watched => ~IsOpen /\ cpc = "idle"

\* The parts together: none of them is preserved without the others.
Inductive == TypeOK /\ RequestInv /\ NetInv /\ WatchInv

-----------------------------------------------------------------------------

\* No survey was started.
LEMMA InductiveInit == Init => Inductive
<1> SUFFICES ASSUME Init PROVE Inductive
  OBVIOUS
<1>1. scanned \in BOOLEAN
  BY Zenon DEF Init
<1>2. TypeOK
  BY <1>1, ScanAssumption DEF Init, TypeOK, State, UserPC, Survey, NoRequest
<1>3. RequestInv /\ NetInv /\ WatchInv
  BY DEF Init, RequestInv, NetInv, WatchInv, Watched, IsOpen, Survey, NoRequest
<1> QED BY <1>2, <1>3 DEF Inductive

\* No step leaves the types.
LEMMA TypeNext == TypeOK /\ [Next]_vars => TypeOK'
<1> SUFFICES ASSUME TypeOK, [Next]_vars PROVE TypeOK'
  OBVIOUS
<1> USE DEF TypeOK, pcs, works, reqs, State, UserPC, IsOpen, LockFree, Survey, NoRequest,
            queue_survey_done, Answer, h2c_survey
<1>1. ASSUME open PROVE TypeOK'
  BY <1>1, ScanAssumption DEF open
<1>2. ASSUME open_init PROVE TypeOK'
  BY <1>2, ScanAssumption DEF open_init
<1>3. ASSUME open_set PROVE TypeOK'
  BY <1>3, ScanAssumption DEF open_set
<1>4. ASSUME stop PROVE TypeOK'
  BY <1>4, ScanAssumption DEF stop
<1>5. ASSUME stop_set PROVE TypeOK'
  BY <1>5, ScanAssumption DEF stop_set
<1>6. ASSUME stop_answer PROVE TypeOK'
  BY <1>6, ScanAssumption DEF stop_answer
<1>7. ASSUME stop_survey PROVE TypeOK'
  BY <1>7, ScanAssumption DEF stop_survey
<1>8. ASSUME stop_service PROVE TypeOK'
  BY <1>8, ScanAssumption DEF stop_service
<1>9. ASSUME scan PROVE TypeOK'
  BY <1>9, ScanAssumption DEF scan
<1>10. ASSUME internal_scan PROVE TypeOK'
  BY <1>10, ScanAssumption DEF internal_scan
<1>11. ASSUME internal_scan_survey PROVE TypeOK'
  <2>1. CASE UNCHANGED <<surveys, fw>>
    BY <1>11, <2>1 DEF internal_scan_survey
  <2>2. CASE surveys < MaxSurvey /\ surveys' = surveys + 1 /\ fw' = fw \cup {surveys + 1}
    <3>1. surveys + 1 \in Survey
      BY <2>2, ScanAssumption
    <3> QED BY <1>11, <2>2, <3>1 DEF internal_scan_survey
  <2> QED BY <1>11, <2>1, <2>2 DEF internal_scan_survey
<1>12. ASSUME internal_scan_queue PROVE TypeOK'
  BY <1>12, ScanAssumption DEF internal_scan_queue
<1>13. ASSUME internal_scan_wait PROVE TypeOK'
  BY <1>13, ScanAssumption DEF internal_scan_wait
<1>14. ASSUME NEW n \in Survey, survey_done_event(n) PROVE TypeOK'
  BY <1>14, ScanAssumption DEF survey_done_event
<1>15. ASSUME survey_done_cancel PROVE TypeOK'
  BY <1>15, ScanAssumption DEF survey_done_cancel
<1>16. ASSUME survey_done_queue PROVE TypeOK'
  BY <1>16, ScanAssumption DEF survey_done_queue
<1>17. ASSUME survey_timeout PROVE TypeOK'
  BY <1>17, ScanAssumption DEF survey_timeout
<1>18. ASSUME survey_done_start PROVE TypeOK'
  BY <1>18, ScanAssumption DEF survey_done_start
<1>19. ASSUME survey_done_work PROVE TypeOK'
  <2>1. \/ /\ scan_request # NoRequest
           /\ answered' = [answered EXCEPT ![scan_request] = @ + 1] /\ scan_request' = NoRequest
        \/ UNCHANGED <<answered, scan_request>>
    BY <1>19, Zenon DEF survey_done_work
  <2>2. scan_done' \in {scan_done, scan_done + 1} /\ wpc' = "idle"
    BY <1>19, Zenon DEF survey_done_work
  <2>3. UNCHANGED <<accepted, state, netdev, upc, cpc, tpc, work, service, surveys, fw>>
    BY <1>19, Zenon DEF survey_done_work
  <2>4. scanned' \in BOOLEAN
    BY <1>19, Zenon DEF survey_done_work
  <2> QED BY <2>1, <2>2, <2>3, <2>4
<1>20. ASSUME service_work PROVE TypeOK'
  <2>1. scanned' \in BOOLEAN
    BY <1>20, Zenon DEF service_work
  <2> QED BY <1>20, <2>1, ScanAssumption DEF service_work
<1>21. ASSUME mark_dead PROVE TypeOK'
  BY <1>21, ScanAssumption DEF mark_dead
<1>22. ASSUME connection_check PROVE TypeOK'
  BY <1>22, ScanAssumption DEF connection_check
<1>23. ASSUME connection_set PROVE TypeOK'
  BY <1>23, ScanAssumption DEF connection_set
<1>24. CASE UNCHANGED vars
  BY <1>24 DEF vars
<1> QED
  BY <1>1, <1>2, <1>3, <1>4, <1>5, <1>6, <1>7, <1>8, <1>9, <1>10, <1>11, <1>12,
     <1>13, <1>14, <1>15, <1>16, <1>17, <1>18, <1>19, <1>20, <1>21, <1>22, <1>23,
     <1>24
  DEF Next, User, Tasklet

\* Whoever answers the request forgets it in the same critical section.
LEMMA RequestNext == TypeOK /\ RequestInv /\ [Next]_vars => RequestInv'
<1> SUFFICES ASSUME TypeOK, RequestInv, [Next]_vars PROVE RequestInv'
  OBVIOUS
<1> USE DEF TypeOK, pcs, works, reqs, State, UserPC, IsOpen, LockFree, Survey, NoRequest,
            queue_survey_done, Answer, h2c_survey,
            RequestInv
<1>1. ASSUME open PROVE RequestInv'
  BY <1>1, ScanAssumption DEF open
<1>2. ASSUME open_init PROVE RequestInv'
  BY <1>2, ScanAssumption DEF open_init
<1>3. ASSUME open_set PROVE RequestInv'
  BY <1>3, ScanAssumption DEF open_set
<1>4. ASSUME stop PROVE RequestInv'
  BY <1>4, ScanAssumption DEF stop
<1>5. ASSUME stop_set PROVE RequestInv'
  BY <1>5, ScanAssumption DEF stop_set
<1>6. ASSUME stop_answer PROVE RequestInv'
  BY <1>6, ScanAssumption DEF stop_answer
<1>7. ASSUME stop_survey PROVE RequestInv'
  BY <1>7, ScanAssumption DEF stop_survey
<1>8. ASSUME stop_service PROVE RequestInv'
  BY <1>8, ScanAssumption DEF stop_service
<1>9. ASSUME scan PROVE RequestInv'
  BY <1>9, ScanAssumption DEF scan
<1>10. ASSUME internal_scan PROVE RequestInv'
  BY <1>10, ScanAssumption DEF internal_scan
<1>11. ASSUME internal_scan_survey PROVE RequestInv'
  BY <1>11, ScanAssumption DEF internal_scan_survey
<1>12. ASSUME internal_scan_queue PROVE RequestInv'
  BY <1>12, ScanAssumption DEF internal_scan_queue
<1>13. ASSUME internal_scan_wait PROVE RequestInv'
  BY <1>13, ScanAssumption DEF internal_scan_wait
<1>14. ASSUME NEW n \in Survey, survey_done_event(n) PROVE RequestInv'
  BY <1>14, ScanAssumption DEF survey_done_event
<1>15. ASSUME survey_done_cancel PROVE RequestInv'
  BY <1>15, ScanAssumption DEF survey_done_cancel
<1>16. ASSUME survey_done_queue PROVE RequestInv'
  BY <1>16, ScanAssumption DEF survey_done_queue
<1>17. ASSUME survey_timeout PROVE RequestInv'
  BY <1>17, ScanAssumption DEF survey_timeout
<1>18. ASSUME survey_done_start PROVE RequestInv'
  BY <1>18, ScanAssumption DEF survey_done_start
<1>19. ASSUME survey_done_work PROVE RequestInv'
  <2>1. \/ /\ scan_request # NoRequest
           /\ answered' = [answered EXCEPT ![scan_request] = @ + 1] /\ scan_request' = NoRequest
        \/ UNCHANGED <<answered, scan_request>>
    BY <1>19, Zenon DEF survey_done_work
  <2>2. UNCHANGED <<accepted, state, netdev, upc, cpc, tpc, work, service, surveys, fw>>
    BY <1>19, Zenon DEF survey_done_work
  <2>3. CASE UNCHANGED <<answered, scan_request>>
    BY <2>2, <2>3
  <2>4. CASE /\ scan_request # NoRequest
             /\ answered' = [answered EXCEPT ![scan_request] = @ + 1]
             /\ scan_request' = NoRequest
    <3>1. scan_request \in accepted /\ answered[scan_request] = 0
      BY <2>4
    <3>2. /\ answered'[scan_request] = 1
          /\ \A n \in Survey : n # scan_request => answered'[n] = answered[n]
      BY <2>4, <3>1
    <3>3. \A n \in Survey : scan_request' # n
      BY <2>4
    <3> QED BY <2>2, <3>1, <3>2, <3>3
  <2> QED BY <2>1, <2>3, <2>4
<1>20. ASSUME service_work PROVE RequestInv'
  BY <1>20, ScanAssumption DEF service_work
<1>21. ASSUME mark_dead PROVE RequestInv'
  BY <1>21, ScanAssumption DEF mark_dead
<1>22. ASSUME connection_check PROVE RequestInv'
  BY <1>22, ScanAssumption DEF connection_check
<1>23. ASSUME connection_set PROVE RequestInv'
  BY <1>23, ScanAssumption DEF connection_set
<1>24. CASE UNCHANGED vars
  BY <1>24 DEF vars
<1> QED
  BY <1>1, <1>2, <1>3, <1>4, <1>5, <1>6, <1>7, <1>8, <1>9, <1>10, <1>11, <1>12,
     <1>13, <1>14, <1>15, <1>16, <1>17, <1>18, <1>19, <1>20, <1>21, <1>22, <1>23,
     <1>24
  DEF Next, User, Tasklet

\* Requests are answered before the interface is down.
LEMMA NetNext == TypeOK /\ NetInv /\ [Next]_vars => NetInv'
<1> SUFFICES ASSUME TypeOK, NetInv, [Next]_vars PROVE NetInv'
  OBVIOUS
<1> USE DEF TypeOK, pcs, works, reqs, State, UserPC, IsOpen, LockFree, Survey, NoRequest,
            queue_survey_done, Answer, h2c_survey,
            NetInv
<1>1. ASSUME open PROVE NetInv'
  BY <1>1, ScanAssumption DEF open
<1>2. ASSUME open_init PROVE NetInv'
  BY <1>2, ScanAssumption DEF open_init
<1>3. ASSUME open_set PROVE NetInv'
  BY <1>3, ScanAssumption DEF open_set
<1>4. ASSUME stop PROVE NetInv'
  BY <1>4, ScanAssumption DEF stop
<1>5. ASSUME stop_set PROVE NetInv'
  BY <1>5, ScanAssumption DEF stop_set
<1>6. ASSUME stop_answer PROVE NetInv'
  BY <1>6, ScanAssumption DEF stop_answer
<1>7. ASSUME stop_survey PROVE NetInv'
  BY <1>7, ScanAssumption DEF stop_survey
<1>8. ASSUME stop_service PROVE NetInv'
  BY <1>8, ScanAssumption DEF stop_service
<1>9. ASSUME scan PROVE NetInv'
  BY <1>9, ScanAssumption DEF scan
<1>10. ASSUME internal_scan PROVE NetInv'
  BY <1>10, ScanAssumption DEF internal_scan
<1>11. ASSUME internal_scan_survey PROVE NetInv'
  BY <1>11, ScanAssumption DEF internal_scan_survey
<1>12. ASSUME internal_scan_queue PROVE NetInv'
  BY <1>12, ScanAssumption DEF internal_scan_queue
<1>13. ASSUME internal_scan_wait PROVE NetInv'
  BY <1>13, ScanAssumption DEF internal_scan_wait
<1>14. ASSUME NEW n \in Survey, survey_done_event(n) PROVE NetInv'
  BY <1>14, ScanAssumption DEF survey_done_event
<1>15. ASSUME survey_done_cancel PROVE NetInv'
  BY <1>15, ScanAssumption DEF survey_done_cancel
<1>16. ASSUME survey_done_queue PROVE NetInv'
  BY <1>16, ScanAssumption DEF survey_done_queue
<1>17. ASSUME survey_timeout PROVE NetInv'
  BY <1>17, ScanAssumption DEF survey_timeout
<1>18. ASSUME survey_done_start PROVE NetInv'
  BY <1>18, ScanAssumption DEF survey_done_start
<1>19. ASSUME survey_done_work PROVE NetInv'
  BY <1>19, ScanAssumption DEF survey_done_work
<1>20. ASSUME service_work PROVE NetInv'
  BY <1>20, ScanAssumption DEF service_work
<1>21. ASSUME mark_dead PROVE NetInv'
  BY <1>21, ScanAssumption DEF mark_dead
<1>22. ASSUME connection_check PROVE NetInv'
  BY <1>22, ScanAssumption DEF connection_check
<1>23. ASSUME connection_set PROVE NetInv'
  BY <1>23, ScanAssumption DEF connection_set
<1>24. CASE UNCHANGED vars
  BY <1>24 DEF vars
<1> QED
  BY <1>1, <1>2, <1>3, <1>4, <1>5, <1>6, <1>7, <1>8, <1>9, <1>10, <1>11, <1>12,
     <1>13, <1>14, <1>15, <1>16, <1>17, <1>18, <1>19, <1>20, <1>21, <1>22, <1>23,
     <1>24
  DEF Next, User, Tasklet

\* The work item is taken away only to be queued again, to run, or after the
\* request was answered.
LEMMA WatchNext == TypeOK /\ NetInv /\ WatchInv /\ [Next]_vars => WatchInv'
<1> SUFFICES ASSUME TypeOK, NetInv, WatchInv, [Next]_vars PROVE WatchInv'
  OBVIOUS
<1> USE DEF TypeOK, pcs, works, reqs, State, UserPC, IsOpen, LockFree, Survey, NoRequest,
            queue_survey_done, Answer, h2c_survey,
            NetInv, WatchInv, Watched
<1>1. ASSUME open PROVE WatchInv'
  BY <1>1, ScanAssumption DEF open
<1>2. ASSUME open_init PROVE WatchInv'
  BY <1>2, ScanAssumption DEF open_init
<1>3. ASSUME open_set PROVE WatchInv'
  BY <1>3, ScanAssumption DEF open_set
<1>4. ASSUME stop PROVE WatchInv'
  BY <1>4, ScanAssumption DEF stop
<1>5. ASSUME stop_set PROVE WatchInv'
  BY <1>5, ScanAssumption DEF stop_set
<1>6. ASSUME stop_answer PROVE WatchInv'
  BY <1>6, ScanAssumption DEF stop_answer
<1>7. ASSUME stop_survey PROVE WatchInv'
  BY <1>7, ScanAssumption DEF stop_survey
<1>8. ASSUME stop_service PROVE WatchInv'
  BY <1>8, ScanAssumption DEF stop_service
<1>9. ASSUME scan PROVE WatchInv'
  BY <1>9, ScanAssumption DEF scan
<1>10. ASSUME internal_scan PROVE WatchInv'
  BY <1>10, ScanAssumption DEF internal_scan
<1>11. ASSUME internal_scan_survey PROVE WatchInv'
  BY <1>11, ScanAssumption DEF internal_scan_survey
<1>12. ASSUME internal_scan_queue PROVE WatchInv'
  BY <1>12, ScanAssumption DEF internal_scan_queue
<1>13. ASSUME internal_scan_wait PROVE WatchInv'
  BY <1>13, ScanAssumption DEF internal_scan_wait
<1>14. ASSUME NEW n \in Survey, survey_done_event(n) PROVE WatchInv'
  BY <1>14, ScanAssumption DEF survey_done_event
<1>15. ASSUME survey_done_cancel PROVE WatchInv'
  BY <1>15, ScanAssumption DEF survey_done_cancel
<1>16. ASSUME survey_done_queue PROVE WatchInv'
  BY <1>16, ScanAssumption DEF survey_done_queue
<1>17. ASSUME survey_timeout PROVE WatchInv'
  BY <1>17, ScanAssumption DEF survey_timeout
<1>18. ASSUME survey_done_start PROVE WatchInv'
  BY <1>18, ScanAssumption DEF survey_done_start
<1>19. ASSUME survey_done_work PROVE WatchInv'
  BY <1>19, ScanAssumption DEF survey_done_work
<1>20. ASSUME service_work PROVE WatchInv'
  BY <1>20, ScanAssumption DEF service_work
<1>21. ASSUME mark_dead PROVE WatchInv'
  BY <1>21, ScanAssumption DEF mark_dead
<1>22. ASSUME connection_check PROVE WatchInv'
  BY <1>22, ScanAssumption DEF connection_check
<1>23. ASSUME connection_set PROVE WatchInv'
  BY <1>23, ScanAssumption DEF connection_set
<1>24. CASE UNCHANGED vars
  BY <1>24 DEF vars
<1> QED
  BY <1>1, <1>2, <1>3, <1>4, <1>5, <1>6, <1>7, <1>8, <1>9, <1>10, <1>11, <1>12,
     <1>13, <1>14, <1>15, <1>16, <1>17, <1>18, <1>19, <1>20, <1>21, <1>22, <1>23,
     <1>24
  DEF Next, User, Tasklet

-----------------------------------------------------------------------------

\* The invariant holds throughout.
THEOREM InductiveHolds == Spec => []Inductive
<1>1. Inductive /\ [Next]_vars => Inductive'
  BY TypeNext, RequestNext, NetNext, WatchNext DEF Inductive
<1> QED BY InductiveInit, <1>1, PTL DEF Spec

\* r92su_survey_done_work and r92su_stop answer a request once between them,
\* and until then r92su->scan_request names it.
THEOREM NoSecondAnswer == Spec => []AnsweredOnce
<1>1. Inductive => AnsweredOnce
  BY DEF Inductive, RequestInv, AnsweredOnce
<1> QED BY InductiveHolds, <1>1, PTL

\* While the device is open, c2h_survey_done_event, the timeout, r92su_stop and
\* r92su_internal_scan do not lose the work that ends a pending request.
THEOREM NoSurveyForgotten == Spec => []SurveyWatched
<1>1. Inductive => SurveyWatched
  BY DEF Inductive, WatchInv, Watched, SurveyWatched
<1> QED BY InductiveHolds, <1>1, PTL
=============================================================================
