------------------------- MODULE NhLifecycleProofs -------------------------
(***************************************************************************)
(* That a nethandler's threads go before what they use, that its callers   *)
(* use nothing that is gone and that nh_destroy() leaves nothing else      *)
(* behind, for any number of times SRP is enabled.                         *)
(***************************************************************************)
EXTENDS NhLifecycle, TLAPS

Teardown == {"stop", "join_rx", "release", "join_mon", "free", "done"}
InSetup  == {"setup", "domain", "register", "err", "err_join"}

\* Where the nethandler is in its life: in the hands of the application, until
\* the reader breaks off and destroys it.
Where == IF pc["reader"] = "idle" THEN pc["app"] ELSE pc["reader"]

\* The reader only ever destroys; the application is in no call then.
OneCaller ==
  /\ pc["app"] # "idle"
  /\ pc["reader"] # "idle" => pc["app"] = "run" /\ pc["reader"] \in Teardown

\* What is allocated when, as long as there is one caller at a time.
ObjectsHeld ==
  /\ obj["nethandler"] = IF Where = "start" THEN "none"
                         ELSE IF Where = "done" THEN "freed" ELSE "live"
  /\ Where = "start" => \A o \in Objs : obj[o] = "none"
  /\ Where \in InSetup \cup {"net", "start_rx", "srp_init", "ptp", "run", "stop", "join_rx", "release"}
       => Live("hmap")
  /\ Where \in InSetup \cup {"ptp", "run"} => Live("srp") \/ failed
  /\ Where \in {"join_mon", "free", "done"} =>
       ~Live("hmap") /\ ~Live("channel") /\ ~Live("logger") /\ ~Live("dma_lat_fd")

\* The Rx thread runs while nh->running and nh->tid say so, or somebody waits for
\* it to end.
RxHeld ==
  /\ rx = "run" => tid /\ (running \/ Where \in {"join_rx", "err_join"})
  /\ Where \in {"start", "net", "start_rx", "release", "join_mon", "free", "done"} => rx # "run"

\* SRP is set up once.  Its threads are the ones the container names, the
\* container is there as long as they are, and nh->use_srp tells nh_destroy() to
\* join them.
SrpHeld ==
  /\ setups = 0 <=> ~use_srp /\ Where \notin InSetup
  /\ setups \in {0, 1}
  /\ setups = 0 => srp_tid = 0 /\ announcer = 0
  /\ Where = "setup" => srp_tid = 0
  /\ Where \in {"setup", "domain", "register"} => announcer = 0
  /\ \A g \in Gens : mon[g] \in {"run", "walk"} => srp_tid = g
  /\ \A g \in Gens : ann[g] \in {"run", "walk"} => announcer = g
  /\ \A g \in Gens : sock[g] = "live" => g = setups /\ Live("srp") /\ Where \notin {"setup", "free", "done"}
  /\ srp_tid # 0 \/ announcer # 0 => Live("srp") /\ Where \notin {"free", "done"}
  /\ Where \in {"free", "done"} /\ use_srp => ~Live("srp")

LifeInv ==
  /\ TypeOK
  /\ ThreadsGoFirst /\ CallersAreSafe
  /\ ~crossed => OneCaller /\ ObjectsHeld
  /\ Plain => RxHeld /\ SrpHeld
-----------------------------------------------------------------------------
\* What the actions of a caller, of the library's threads and of the creation
\* are made of.
USE DEF Gens, Callers

\* Every step keeps the types.
LEMMA TypeStep == TypeOK /\ [Next]_vars => TypeOK'
<1> SUFFICES ASSUME TypeOK, [Next]_vars PROVE TypeOK'
  OBVIOUS
<1> USE NhAssumption DEF TypeOK, thrVars, srpVars, flagVars, histVars, Goto, Alloc, Release,
                         Use, Call, Live, Idle, At, Steps, States, Objs
<1>1. CASE create_alloc
  BY <1>1 DEF create_alloc
<1>2. CASE create_net
  BY <1>2 DEF create_net
<1>3. CASE _nh_start_rx
  <2>1. running' \in BOOLEAN
    BY <1>3, Zenon DEF _nh_start_rx
  <2>2. tid' \in BOOLEAN
    BY <1>3, Zenon DEF _nh_start_rx
  <2>3. rx' \in {"none", "run", "exited"}
    BY <1>3 DEF _nh_start_rx
  <2>4. pc' \in [Callers -> Steps]
    BY <1>3 DEF _nh_start_rx
  <2>5. UNCHANGED <<obj, mon, ann, sock, srp_tid, announcer, valid, answer, setups, use_srp, failed, disabled, crossed, stale>>
    BY <1>3 DEF _nh_start_rx
  <2>6. QED
    BY <2>1, <2>2, <2>3, <2>4, <2>5
<1>4. CASE nc_srp_init
  BY <1>4 DEF nc_srp_init
<1>5. CASE create_ptp
  BY <1>5 DEF create_ptp
<1>6. CASE setup_monitor
  <2>1. mon' \in [Gens -> {"none", "run", "walk", "exited"}]
    BY <1>6 DEF setup_monitor
  <2>2. sock' \in [Gens -> States]
    BY <1>6, Zenon DEF setup_monitor
  <2>3. srp_tid' \in 0 .. MaxSetups
    BY <1>6 DEF setup_monitor
  <2>4. answer' \in {"none", "coming", "lost"}
    BY <1>6 DEF setup_monitor
  <2>5. pc' \in [Callers -> Steps]
    BY <1>6 DEF setup_monitor
  <2>6. QED
    BY <1>6, <2>1, <2>2, <2>3, <2>4, <2>5 DEF setup_monitor
<1>7. CASE domain_wait
  BY <1>7 DEF domain_wait
<1>8. CASE setup_register
  <2>1. ann' \in [Gens -> {"none", "run", "walk", "exited"}] /\ announcer' \in 0 .. MaxSetups
    BY <1>8 DEF setup_register
  <2>2. pc' \in [Callers -> Steps]
    BY <1>8 DEF setup_register
  <2>3. use_srp' \in BOOLEAN
    BY <1>8, Zenon DEF setup_register
  <2>4. QED
    BY <1>8, <2>1, <2>2, <2>3 DEF setup_register
<1>9. CASE setup_err
  BY <1>9, Zenon DEF setup_err
<1>10. CASE setup_err_join
  BY <1>10 DEF setup_err_join
<1>11. CASE chan_create
  BY <1>11 DEF chan_create
<1>12. CASE nh_set_srp_on
  BY <1>12 DEF nh_set_srp_on
<1>13. CASE nh_set_srp_off
  BY <1>13, Zenon DEF nh_set_srp_off
<1>14. ASSUME NEW d \in Callers, nh_destroy(d) PROVE TypeOK'
  BY <1>14 DEF nh_destroy
<1>15. ASSUME NEW d \in Callers, _nh_stop_rx(d) PROVE TypeOK'
  BY <1>15, Zenon DEF _nh_stop_rx
<1>16. ASSUME NEW d \in Callers, join_rx(d) PROVE TypeOK'
  BY <1>16, Zenon DEF join_rx
<1>17. ASSUME NEW d \in Callers, nh_destroy_release(d) PROVE TypeOK'
  BY <1>17 DEF nh_destroy_release
<1>18. ASSUME NEW d \in Callers, nc_srp_teardown(d) PROVE TypeOK'
  <2>1. sock' \in [Gens -> States]
    BY <1>18, Zenon DEF nc_srp_teardown
  <2>2. srp_tid' \in 0 .. MaxSetups /\ announcer' \in 0 .. MaxSetups
    BY <1>18 DEF nc_srp_teardown
  <2>3. obj' \in [Objs -> States] /\ pc' \in [Callers -> Steps]
    BY <1>18 DEF nc_srp_teardown
  <2>4. QED
    BY <1>18, <2>1, <2>2, <2>3 DEF nc_srp_teardown
<1>19. ASSUME NEW d \in Callers, nh_destroy_free(d) PROVE TypeOK'
  BY <1>19 DEF nh_destroy_free
<1>20. ASSUME NEW d \in Callers, dangling(d) PROVE TypeOK'
  BY <1>20 DEF dangling
<1>21. CASE nh_runner
  BY <1>21 DEF nh_runner
<1>22. ASSUME NEW g \in Gens, monitor_exit(g) PROVE TypeOK'
  BY <1>22 DEF monitor_exit
<1>23. ASSUME NEW g \in Gens, monitor_domain(g) PROVE TypeOK'
  BY <1>23 DEF monitor_domain
<1>24. ASSUME NEW g \in Gens, monitor_find(g) PROVE TypeOK'
  BY <1>24 DEF monitor_find
<1>25. ASSUME NEW g \in Gens, monitor_channel(g) PROVE TypeOK'
  BY <1>25 DEF monitor_channel
<1>26. ASSUME NEW g \in Gens, nc_srp_talker_announce(g) PROVE TypeOK'
  BY <1>26 DEF nc_srp_talker_announce
<1>27. ASSUME NEW g \in Gens, announce_channel(g) PROVE TypeOK'
  BY <1>27 DEF announce_channel
<1>28. CASE UNCHANGED vars
  BY <1>28 DEF vars
<1>29. QED
  BY <1>1, <1>2, <1>3, <1>4, <1>5, <1>6, <1>7, <1>8, <1>9, <1>10, <1>11, <1>12, <1>13, <1>14, <1>15, <1>16, <1>17, <1>18, <1>19, <1>20, <1>21, <1>22, <1>23, <1>24, <1>25, <1>26, <1>27, <1>28, Zenon
  DEF Next, Create, Setup, Destroy, Monitor, Announcer

\* A call made while the other caller is in one sets crossed.
LEMMA OneCallerStep ==
  ASSUME LifeInv, [Next]_vars, ~crossed'
  PROVE  (OneCaller /\ ObjectsHeld)'
<1> USE DEF LifeInv, TypeOK, thrVars, srpVars, flagVars, histVars, Goto, Alloc, Release,
            Use, Call, Live, Idle, At, Steps, States, Objs, InCall, Where, Teardown, InSetup, OneCaller, ObjectsHeld
<1>1. CASE create_alloc
  BY <1>1 DEF create_alloc
<1>2. CASE create_net
  BY <1>2 DEF create_net
<1>3. CASE _nh_start_rx
  BY <1>3 DEF _nh_start_rx
<1>4. CASE nc_srp_init
  BY <1>4 DEF nc_srp_init
<1>5. CASE create_ptp
  <2>1. PICK log \in {{}, {"logger"}} :
          \/ \E ptp \in {{}, {"ptp_fd"}} : Alloc(log \cup ptp) /\ Goto("app", "run")
          \/ Alloc(log) /\ Goto("app", "stop")
    BY <1>5 DEF create_ptp
  <2>2. obj'["nethandler"] = obj["nethandler"] /\ obj'["hmap"] = obj["hmap"] /\ obj'["srp"] = obj["srp"]
    BY <2>1
  <2>3. pc["app"] = "ptp" /\ pc'["app"] \in {"run", "stop"} /\ pc'["reader"] = pc["reader"]
    BY <1>5 DEF create_ptp
  <2>4. crossed' = crossed /\ failed' = failed
    BY <1>5 DEF create_ptp
  <2>5. QED
    BY <2>2, <2>3, <2>4
<1>6. CASE setup_monitor
  BY <1>6 DEF setup_monitor
<1>7. CASE domain_wait
  BY <1>7 DEF domain_wait
<1>8. CASE setup_register
  BY <1>8 DEF setup_register
<1>9. CASE setup_err
  BY <1>9 DEF setup_err
<1>10. CASE setup_err_join
  BY <1>10 DEF setup_err_join
<1>11. CASE chan_create
  <2>1. ~crossed /\ pc["reader"] \in {"idle", "done"}
    BY <1>11, Zenon DEF chan_create
  <2>2. pc' = pc /\ failed' = failed /\ \A o \in Objs \ {"channel"} : obj'[o] = obj[o]
    BY <1>11 DEF chan_create
  <2>3. QED
    BY <1>11, <2>1, <2>2 DEF chan_create
<1>12. CASE nh_set_srp_on
  BY <1>12, Zenon DEF nh_set_srp_on
<1>13. CASE nh_set_srp_off
  BY <1>13 DEF nh_set_srp_off
<1>14. ASSUME NEW d \in Callers, nh_destroy(d) PROVE (OneCaller /\ ObjectsHeld)'
  <2>1. ~crossed /\ ~InCall("app") /\ ~InCall("reader") /\ UNCHANGED <<obj, failed>>
    BY <1>14, Zenon DEF nh_destroy
  <2>2. CASE d = "app"
    BY <1>14, <2>1, <2>2 DEF nh_destroy
  <2>3. CASE d = "reader"
    BY <1>14, <2>1, <2>3 DEF nh_destroy
  <2>4. QED
    BY <2>2, <2>3
<1>15. ASSUME NEW d \in Callers, _nh_stop_rx(d) PROVE (OneCaller /\ ObjectsHeld)'
  BY <1>15 DEF _nh_stop_rx
<1>16. ASSUME NEW d \in Callers, join_rx(d) PROVE (OneCaller /\ ObjectsHeld)'
  BY <1>16 DEF join_rx
<1>17. ASSUME NEW d \in Callers, nh_destroy_release(d) PROVE (OneCaller /\ ObjectsHeld)'
  BY <1>17 DEF nh_destroy_release
<1>18. ASSUME NEW d \in Callers, nc_srp_teardown(d) PROVE (OneCaller /\ ObjectsHeld)'
  BY <1>18 DEF nc_srp_teardown
<1>19. ASSUME NEW d \in Callers, nh_destroy_free(d) PROVE (OneCaller /\ ObjectsHeld)'
  BY <1>19 DEF nh_destroy_free
<1>20. ASSUME NEW d \in Callers, dangling(d) PROVE (OneCaller /\ ObjectsHeld)'
  BY <1>20 DEF dangling
<1>21. CASE nh_runner
  BY <1>21 DEF nh_runner
<1>22. ASSUME NEW g \in Gens, monitor_exit(g) PROVE (OneCaller /\ ObjectsHeld)'
  BY <1>22 DEF monitor_exit
<1>23. ASSUME NEW g \in Gens, monitor_domain(g) PROVE (OneCaller /\ ObjectsHeld)'
  BY <1>23 DEF monitor_domain
<1>24. ASSUME NEW g \in Gens, monitor_find(g) PROVE (OneCaller /\ ObjectsHeld)'
  BY <1>24 DEF monitor_find
<1>25. ASSUME NEW g \in Gens, monitor_channel(g) PROVE (OneCaller /\ ObjectsHeld)'
  BY <1>25 DEF monitor_channel
<1>26. ASSUME NEW g \in Gens, nc_srp_talker_announce(g) PROVE (OneCaller /\ ObjectsHeld)'
  BY <1>26 DEF nc_srp_talker_announce
<1>27. ASSUME NEW g \in Gens, announce_channel(g) PROVE (OneCaller /\ ObjectsHeld)'
  BY <1>27 DEF announce_channel
<1>28. CASE UNCHANGED vars
  BY <1>28 DEF vars
<1>29. QED
  BY <1>1, <1>2, <1>3, <1>4, <1>5, <1>6, <1>7, <1>8, <1>9, <1>10, <1>11, <1>12, <1>13, <1>14, <1>15, <1>16, <1>17, <1>18, <1>19, <1>20, <1>21, <1>22, <1>23, <1>24, <1>25, <1>26, <1>27, <1>28, Zenon
  DEF Next, Create, Setup, Destroy, Monitor, Announcer

\* The Rx thread is joined before nh_destroy() goes on.
LEMMA RxStep ==
  ASSUME LifeInv, [Next]_vars, Plain'
  PROVE  RxHeld'
<1> USE DEF LifeInv, TypeOK, thrVars, srpVars, flagVars, histVars, Goto, Alloc, Release,
            Use, Call, Live, Idle, At, Steps, States, Objs, InCall, Where, Teardown, InSetup, OneCaller, ObjectsHeld, RxHeld, Plain
<1>1. CASE create_alloc
  BY <1>1 DEF create_alloc
<1>2. CASE create_net
  BY <1>2 DEF create_net
<1>3. CASE _nh_start_rx
  BY <1>3 DEF _nh_start_rx
<1>4. CASE nc_srp_init
  BY <1>4 DEF nc_srp_init
<1>5. CASE create_ptp
  BY <1>5 DEF create_ptp
<1>6. CASE setup_monitor
  BY <1>6 DEF setup_monitor
<1>7. CASE domain_wait
  BY <1>7 DEF domain_wait
<1>8. CASE setup_register
  BY <1>8 DEF setup_register
<1>9. CASE setup_err
  BY <1>9 DEF setup_err
<1>10. CASE setup_err_join
  BY <1>10 DEF setup_err_join
<1>11. CASE chan_create
  BY <1>11 DEF chan_create
<1>12. CASE nh_set_srp_on
  BY <1>12 DEF nh_set_srp_on
<1>13. CASE nh_set_srp_off
  BY <1>13 DEF nh_set_srp_off
<1>14. ASSUME NEW d \in Callers, nh_destroy(d) PROVE RxHeld'
  BY <1>14 DEF nh_destroy
<1>15. ASSUME NEW d \in Callers, _nh_stop_rx(d) PROVE RxHeld'
  BY <1>15 DEF _nh_stop_rx
<1>16. ASSUME NEW d \in Callers, join_rx(d) PROVE RxHeld'
  BY <1>16 DEF join_rx
<1>17. ASSUME NEW d \in Callers, nh_destroy_release(d) PROVE RxHeld'
  BY <1>17 DEF nh_destroy_release
<1>18. ASSUME NEW d \in Callers, nc_srp_teardown(d) PROVE RxHeld'
  BY <1>18 DEF nc_srp_teardown
<1>19. ASSUME NEW d \in Callers, nh_destroy_free(d) PROVE RxHeld'
  BY <1>19 DEF nh_destroy_free
<1>20. ASSUME NEW d \in Callers, dangling(d) PROVE RxHeld'
  BY <1>20 DEF dangling
<1>21. CASE nh_runner
  BY <1>21 DEF nh_runner
<1>22. ASSUME NEW g \in Gens, monitor_exit(g) PROVE RxHeld'
  BY <1>22 DEF monitor_exit
<1>23. ASSUME NEW g \in Gens, monitor_domain(g) PROVE RxHeld'
  BY <1>23 DEF monitor_domain
<1>24. ASSUME NEW g \in Gens, monitor_find(g) PROVE RxHeld'
  BY <1>24 DEF monitor_find
<1>25. ASSUME NEW g \in Gens, monitor_channel(g) PROVE RxHeld'
  BY <1>25 DEF monitor_channel
<1>26. ASSUME NEW g \in Gens, nc_srp_talker_announce(g) PROVE RxHeld'
  BY <1>26 DEF nc_srp_talker_announce
<1>27. ASSUME NEW g \in Gens, announce_channel(g) PROVE RxHeld'
  BY <1>27 DEF announce_channel
<1>28. CASE UNCHANGED vars
  BY <1>28 DEF vars
<1>29. QED
  BY <1>1, <1>2, <1>3, <1>4, <1>5, <1>6, <1>7, <1>8, <1>9, <1>10, <1>11, <1>12, <1>13, <1>14, <1>15, <1>16, <1>17, <1>18, <1>19, <1>20, <1>21, <1>22, <1>23, <1>24, <1>25, <1>26, <1>27, <1>28, Zenon
  DEF Next, Create, Setup, Destroy, Monitor, Announcer

\* Monitor and announcer are joined before their container goes.
LEMMA SrpStep ==
  ASSUME LifeInv, [Next]_vars, Plain'
  PROVE  SrpHeld'
<1> USE DEF LifeInv, TypeOK, thrVars, srpVars, flagVars, histVars, Goto, Alloc, Release,
            Use, Call, Live, Idle, At, Steps, States, Objs, InCall, Where, Teardown, InSetup, OneCaller, ObjectsHeld, SrpHeld, Plain
<1> USE NhAssumption
<1>1. CASE create_alloc
  BY <1>1 DEF create_alloc
<1>2. CASE create_net
  BY <1>2 DEF create_net
<1>3. CASE _nh_start_rx
  BY <1>3 DEF _nh_start_rx
<1>4. CASE nc_srp_init
  BY <1>4 DEF nc_srp_init
<1>5. CASE create_ptp
  BY <1>5 DEF create_ptp
<1>6. CASE setup_monitor
  <2>1. /\ Plain /\ pc["app"] = "setup" /\ pc["reader"] = "idle" /\ setups = 1 /\ Live("srp")
        /\ pc'["app"] \in {"domain", "register", "err"} /\ pc'["reader"] = "idle"
    BY <1>6 DEF setup_monitor
  <2>2. UNCHANGED <<obj, ann, announcer, setups, use_srp>>
    BY <1>6 DEF setup_monitor
  <2>3. \/ UNCHANGED <<mon, srp_tid>>
        \/ mon' = [mon EXCEPT ![1] = "run"] /\ srp_tid' = 1
    BY <1>6, <2>1 DEF setup_monitor
  <2>4. \E s \in States : sock' = [sock EXCEPT ![1] = s]
    BY <1>6, <2>1 DEF setup_monitor
  <2>5. \A g \in Gens : mon'[g] \in {"run", "walk"} => srp_tid' = g
    BY <2>1, <2>3
  <2>6. \A g \in Gens : sock'[g] = "live" => g = 1
    BY <2>1, <2>4
  <2>7. QED
    BY <2>1, <2>2, <2>3, <2>5, <2>6
<1>7. CASE domain_wait
  BY <1>7 DEF domain_wait
<1>8. CASE setup_register
  <2>1. /\ Plain /\ pc["app"] = "register" /\ pc["reader"] = "idle" /\ setups = 1 /\ Live("srp")
        /\ pc'["reader"] = "idle"
    BY <1>8 DEF setup_register
  <2>2. UNCHANGED <<obj, mon, srp_tid, setups, sock>>
    BY <1>8 DEF setup_register
  <2>3. CASE /\ ann' = [ann EXCEPT ![1] = "run"] /\ announcer' = 1
             /\ use_srp' = TRUE /\ pc'["app"] = "run"
    <3>1. \A g \in Gens : ann'[g] \in {"run", "walk"} => announcer' = g
      BY <2>1, <2>3
    <3>2. use_srp'
      BY <2>3
    <3>3. QED
      BY <2>1, <2>2, <2>3, <3>1, <3>2
  <2>4. CASE pc'["app"] = "err" /\ UNCHANGED <<ann, announcer, use_srp>>
    BY <2>1, <2>2, <2>4
  <2>5. QED
    BY <1>8, <2>1, <2>3, <2>4 DEF setup_register
<1>9. CASE setup_err
  BY <1>9 DEF setup_err
<1>10. CASE setup_err_join
  BY <1>10 DEF setup_err_join
<1>11. CASE chan_create
  BY <1>11 DEF chan_create
<1>12. CASE nh_set_srp_on
  <2>1. Plain /\ ~use_srp /\ pc["app"] = "run" /\ pc["reader"] = "idle" /\ Live("srp")
    BY <1>12, Zenon DEF nh_set_srp_on
  <2>2. pc'["app"] = "setup" /\ pc'["reader"] = "idle" /\ UNCHANGED use_srp
    BY <1>12, <2>1 DEF nh_set_srp_on
  <2>3. setups = 0 /\ setups' = 1
    BY <1>12, <2>1 DEF nh_set_srp_on
  <2>4. UNCHANGED <<obj, mon, ann, sock, srp_tid, announcer>>
    BY <1>12 DEF nh_set_srp_on
  <2>5. \A g \in Gens : sock[g] # "live"
    BY <2>1, <2>3
  <2>6. QED
    BY <2>1, <2>2, <2>3, <2>4, <2>5
<1>13. CASE nh_set_srp_off
  BY <1>13 DEF nh_set_srp_off
<1>14. ASSUME NEW d \in Callers, nh_destroy(d) PROVE SrpHeld'
  BY <1>14, Zenon DEF nh_destroy
<1>15. ASSUME NEW d \in Callers, _nh_stop_rx(d) PROVE SrpHeld'
  BY <1>15 DEF _nh_stop_rx
<1>16. ASSUME NEW d \in Callers, join_rx(d) PROVE SrpHeld'
  BY <1>16 DEF join_rx
<1>17. ASSUME NEW d \in Callers, nh_destroy_release(d) PROVE SrpHeld'
  BY <1>17 DEF nh_destroy_release
<1>18. ASSUME NEW d \in Callers, nc_srp_teardown(d) PROVE SrpHeld'
  BY <1>18 DEF nc_srp_teardown
<1>19. ASSUME NEW d \in Callers, nh_destroy_free(d) PROVE SrpHeld'
  BY <1>19 DEF nh_destroy_free
<1>20. ASSUME NEW d \in Callers, dangling(d) PROVE SrpHeld'
  BY <1>20 DEF dangling
<1>21. CASE nh_runner
  BY <1>21 DEF nh_runner
<1>22. ASSUME NEW g \in Gens, monitor_exit(g) PROVE SrpHeld'
  BY <1>22 DEF monitor_exit
<1>23. ASSUME NEW g \in Gens, monitor_domain(g) PROVE SrpHeld'
  BY <1>23 DEF monitor_domain
<1>24. ASSUME NEW g \in Gens, monitor_find(g) PROVE SrpHeld'
  BY <1>24 DEF monitor_find
<1>25. ASSUME NEW g \in Gens, monitor_channel(g) PROVE SrpHeld'
  BY <1>25 DEF monitor_channel
<1>26. ASSUME NEW g \in Gens, nc_srp_talker_announce(g) PROVE SrpHeld'
  BY <1>26 DEF nc_srp_talker_announce
<1>27. ASSUME NEW g \in Gens, announce_channel(g) PROVE SrpHeld'
  BY <1>27 DEF announce_channel
<1>28. CASE UNCHANGED vars
  BY <1>28 DEF vars
<1>29. QED
  BY <1>1, <1>2, <1>3, <1>4, <1>5, <1>6, <1>7, <1>8, <1>9, <1>10, <1>11, <1>12, <1>13, <1>14, <1>15, <1>16, <1>17, <1>18, <1>19, <1>20, <1>21, <1>22, <1>23, <1>24, <1>25, <1>26, <1>27, <1>28, Zenon
  DEF Next, Create, Setup, Destroy, Monitor, Announcer

\* What a thread of the library uses has not been freed, but for a channel.
LEMMA ThreadsStep ==
  ASSUME LifeInv, [Next]_vars, Plain'
  PROVE  ThreadsGoFirst'
<1> USE DEF LifeInv, TypeOK, thrVars, srpVars, flagVars, histVars, Goto, Alloc, Release,
            Use, Call, Live, Idle, At, Steps, States, Objs, InCall, Where, Teardown, InSetup, OneCaller, ObjectsHeld, RxHeld, SrpHeld, Plain, ThreadsGoFirst
<1>1. CASE create_alloc
  BY <1>1 DEF create_alloc
<1>2. CASE create_net
  BY <1>2 DEF create_net
<1>3. CASE _nh_start_rx
  BY <1>3 DEF _nh_start_rx
<1>4. CASE nc_srp_init
  BY <1>4 DEF nc_srp_init
<1>5. CASE create_ptp
  BY <1>5 DEF create_ptp
<1>6. CASE setup_monitor
  BY <1>6 DEF setup_monitor
<1>7. CASE domain_wait
  BY <1>7 DEF domain_wait
<1>8. CASE setup_register
  BY <1>8 DEF setup_register
<1>9. CASE setup_err
  BY <1>9 DEF setup_err
<1>10. CASE setup_err_join
  BY <1>10 DEF setup_err_join
<1>11. CASE chan_create
  BY <1>11 DEF chan_create
<1>12. CASE nh_set_srp_on
  BY <1>12 DEF nh_set_srp_on
<1>13. CASE nh_set_srp_off
  BY <1>13 DEF nh_set_srp_off
<1>14. ASSUME NEW d \in Callers, nh_destroy(d) PROVE ThreadsGoFirst'
  BY <1>14 DEF nh_destroy
<1>15. ASSUME NEW d \in Callers, _nh_stop_rx(d) PROVE ThreadsGoFirst'
  BY <1>15 DEF _nh_stop_rx
<1>16. ASSUME NEW d \in Callers, join_rx(d) PROVE ThreadsGoFirst'
  BY <1>16 DEF join_rx
<1>17. ASSUME NEW d \in Callers, nh_destroy_release(d) PROVE ThreadsGoFirst'
  BY <1>17 DEF nh_destroy_release
<1>18. ASSUME NEW d \in Callers, nc_srp_teardown(d) PROVE ThreadsGoFirst'
  BY <1>18 DEF nc_srp_teardown
<1>19. ASSUME NEW d \in Callers, nh_destroy_free(d) PROVE ThreadsGoFirst'
  BY <1>19 DEF nh_destroy_free
<1>20. ASSUME NEW d \in Callers, dangling(d) PROVE ThreadsGoFirst'
  BY <1>20 DEF dangling
<1>21. CASE nh_runner
  BY <1>21 DEF nh_runner
<1>22. ASSUME NEW g \in Gens, monitor_exit(g) PROVE ThreadsGoFirst'
  BY <1>22 DEF monitor_exit
<1>23. ASSUME NEW g \in Gens, monitor_domain(g) PROVE ThreadsGoFirst'
  BY <1>23 DEF monitor_domain
<1>24. ASSUME NEW g \in Gens, monitor_find(g) PROVE ThreadsGoFirst'
  BY <1>24 DEF monitor_find
<1>25. ASSUME NEW g \in Gens, monitor_channel(g) PROVE ThreadsGoFirst'
  BY <1>25 DEF monitor_channel
<1>26. ASSUME NEW g \in Gens, nc_srp_talker_announce(g) PROVE ThreadsGoFirst'
  BY <1>26 DEF nc_srp_talker_announce
<1>27. ASSUME NEW g \in Gens, announce_channel(g) PROVE ThreadsGoFirst'
  BY <1>27 DEF announce_channel
<1>28. CASE UNCHANGED vars
  BY <1>28 DEF vars
<1>29. QED
  BY <1>1, <1>2, <1>3, <1>4, <1>5, <1>6, <1>7, <1>8, <1>9, <1>10, <1>11, <1>12, <1>13, <1>14, <1>15, <1>16, <1>17, <1>18, <1>19, <1>20, <1>21, <1>22, <1>23, <1>24, <1>25, <1>26, <1>27, <1>28, Zenon
  DEF Next, Create, Setup, Destroy, Monitor, Announcer

\* What a caller uses has not been freed.
LEMMA CallersStep ==
  ASSUME LifeInv, [Next]_vars, ~crossed'
  PROVE  CallersAreSafe'
<1> USE DEF LifeInv, TypeOK, thrVars, srpVars, flagVars, histVars, Goto, Alloc, Release,
            Use, Call, Live, Idle, At, Steps, States, Objs, InCall, Where, Teardown, InSetup, OneCaller, ObjectsHeld, CallersAreSafe
<1>1. CASE create_alloc
  BY <1>1 DEF create_alloc
<1>2. CASE create_net
  BY <1>2 DEF create_net
<1>3. CASE _nh_start_rx
  BY <1>3 DEF _nh_start_rx
<1>4. CASE nc_srp_init
  BY <1>4 DEF nc_srp_init
<1>5. CASE create_ptp
  BY <1>5 DEF create_ptp
<1>6. CASE setup_monitor
  BY <1>6 DEF setup_monitor
<1>7. CASE domain_wait
  BY <1>7 DEF domain_wait
<1>8. CASE setup_register
  BY <1>8 DEF setup_register
<1>9. CASE setup_err
  BY <1>9 DEF setup_err
<1>10. CASE setup_err_join
  BY <1>10 DEF setup_err_join
<1>11. CASE chan_create
  <2>1. ~crossed /\ pc' = pc /\ failed' = failed
    BY <1>11 DEF chan_create
  <2>2. stale' = stale \/ (stale' = stale \cup {<<"app", "srp">>} /\ ~Live("srp"))
    BY <1>11 DEF chan_create
  <2>3. pc["app"] = "run" /\ Live("nethandler")
    BY <1>11 DEF chan_create
  <2>4. pc["reader"] = "idle" /\ (Live("srp") \/ failed)
    BY <1>11, <2>1, <2>3, Zenon DEF chan_create
  <2>5. QED
    BY <2>1, <2>2, <2>4
<1>12. CASE nh_set_srp_on
  BY <1>12 DEF nh_set_srp_on
<1>13. CASE nh_set_srp_off
  BY <1>13 DEF nh_set_srp_off
<1>14. ASSUME NEW d \in Callers, nh_destroy(d) PROVE CallersAreSafe'
  BY <1>14 DEF nh_destroy
<1>15. ASSUME NEW d \in Callers, _nh_stop_rx(d) PROVE CallersAreSafe'
  BY <1>15 DEF _nh_stop_rx
<1>16. ASSUME NEW d \in Callers, join_rx(d) PROVE CallersAreSafe'
  BY <1>16 DEF join_rx
<1>17. ASSUME NEW d \in Callers, nh_destroy_release(d) PROVE CallersAreSafe'
  BY <1>17 DEF nh_destroy_release
<1>18. ASSUME NEW d \in Callers, nc_srp_teardown(d) PROVE CallersAreSafe'
  BY <1>18 DEF nc_srp_teardown
<1>19. ASSUME NEW d \in Callers, nh_destroy_free(d) PROVE CallersAreSafe'
  BY <1>19 DEF nh_destroy_free
<1>20. ASSUME NEW d \in Callers, dangling(d) PROVE CallersAreSafe'
  BY <1>20 DEF dangling
<1>21. CASE nh_runner
  BY <1>21 DEF nh_runner
<1>22. ASSUME NEW g \in Gens, monitor_exit(g) PROVE CallersAreSafe'
  BY <1>22 DEF monitor_exit
<1>23. ASSUME NEW g \in Gens, monitor_domain(g) PROVE CallersAreSafe'
  BY <1>23 DEF monitor_domain
<1>24. ASSUME NEW g \in Gens, monitor_find(g) PROVE CallersAreSafe'
  BY <1>24 DEF monitor_find
<1>25. ASSUME NEW g \in Gens, monitor_channel(g) PROVE CallersAreSafe'
  BY <1>25 DEF monitor_channel
<1>26. ASSUME NEW g \in Gens, nc_srp_talker_announce(g) PROVE CallersAreSafe'
  BY <1>26 DEF nc_srp_talker_announce
<1>27. ASSUME NEW g \in Gens, announce_channel(g) PROVE CallersAreSafe'
  BY <1>27 DEF announce_channel
<1>28. CASE UNCHANGED vars
  BY <1>28 DEF vars
<1>29. QED
  BY <1>1, <1>2, <1>3, <1>4, <1>5, <1>6, <1>7, <1>8, <1>9, <1>10, <1>11, <1>12, <1>13, <1>14, <1>15, <1>16, <1>17, <1>18, <1>19, <1>20, <1>21, <1>22, <1>23, <1>24, <1>25, <1>26, <1>27, <1>28, Zenon
  DEF Next, Create, Setup, Destroy, Monitor, Announcer

\* What can be said of a nethandler's life is inductive.
THEOREM LifeInductive == Spec => []LifeInv
<1>1. Init => LifeInv
  <2> SUFFICES ASSUME Init PROVE LifeInv
    OBVIOUS
  <2> USE DEF Init
  <2>1. TypeOK
    <3>1. obj \in [Objs -> States] /\ sock \in [Gens -> States] /\ pc \in [Callers -> Steps]
      BY DEF States, Objs, Steps
    <3>2. srp_tid \in 0 .. MaxSetups /\ announcer \in 0 .. MaxSetups /\ setups \in 0 .. MaxSetups
      BY NhAssumption
    <3>3. QED
      BY <3>1, <3>2, Zenon DEF TypeOK
  <2>2. ThreadsGoFirst /\ CallersAreSafe
    BY DEF ThreadsGoFirst, CallersAreSafe
  <2>3. OneCaller /\ ObjectsHeld
    BY DEF OneCaller, ObjectsHeld, Where, InSetup, Objs
  <2>4. RxHeld /\ SrpHeld
    BY DEF RxHeld, SrpHeld, Where, InSetup
  <2>5. QED
    BY <2>1, <2>2, <2>3, <2>4 DEF LifeInv
<1>2. LifeInv /\ [Next]_vars => LifeInv'
  <2> SUFFICES ASSUME LifeInv, [Next]_vars PROVE LifeInv'
    OBVIOUS
  <2>1. TypeOK'
    BY TypeStep DEF LifeInv
  <2>2. Plain' => ThreadsGoFirst'
    BY ThreadsStep
  <2>3. ~crossed' => CallersAreSafe'
    BY CallersStep
  <2>4. ~crossed' => OneCaller' /\ ObjectsHeld'
    BY OneCallerStep
  <2>5. Plain' => RxHeld' /\ SrpHeld'
    BY RxStep, SrpStep
  <2>6. QED
    BY <2>1, <2>2, <2>3, <2>4, <2>5 DEF LifeInv, ThreadsGoFirst, CallersAreSafe
<1>3. QED
  BY <1>1, <1>2, PTL DEF Spec

\* nh_destroy() frees what a thread of the library uses after it has joined the
\* thread, but for a channel that monitor or announcer has in hand, in every life
\* in which nh_set_srp() did not fail and did not switch SRP off.
THEOREM ThreadsOutlived == Spec => []ThreadsGoFirst
<1>1. LifeInv => ThreadsGoFirst
  BY DEF LifeInv
<1>2. QED
  BY <1>1, LifeInductive, PTL

\* The application and the reader use nothing that is gone, unless they call at the
\* same time, but for the nethandler --break destroyed and the container of a
\* failed nh_set_srp().
THEOREM CallersSafe == Spec => []CallersAreSafe
<1>1. LifeInv => CallersAreSafe
  BY DEF LifeInv
<1>2. QED
  BY <1>1, LifeInductive, PTL

\* nh_destroy(), and an nh_create_init() that fails, leave no thread and of the
\* memory and descriptors only the Rx socket, the PTP descriptor and an SRP
\* container that was not in use.
THEOREM DestroyLeavesNothingElse == Spec => []NothingElseLeft
<1>1. LifeInv => NothingElseLeft
  <2> SUFFICES ASSUME LifeInv, Plain, pc["app"] = "done", pc["reader"] = "idle"
               PROVE  /\ {o \in Objs : Live(o)} \subseteq
                           {"rx_sock", "ptp_fd"} \cup (IF use_srp THEN {} ELSE {"srp"})
                      /\ \A g \in Gens : /\ sock[g] # "live"
                                         /\ mon[g] \in {"none", "exited"}
                                         /\ ann[g] \in {"none", "exited"}
                      /\ rx # "run"
    BY DEF NothingElseLeft
  <2>1. OneCaller /\ ObjectsHeld /\ RxHeld /\ SrpHeld /\ Where = "done" /\ TypeOK
    BY DEF LifeInv, Plain, Where
  <2>2. \A o \in Objs : Live(o) => o \in {"rx_sock", "ptp_fd", "srp"} /\ (use_srp => o # "srp")
    BY <2>1 DEF ObjectsHeld, SrpHeld, Live, Objs
  <2>3. \A g \in Gens : sock[g] # "live" /\ mon[g] \notin {"run", "walk"} /\ ann[g] \notin {"run", "walk"}
    BY <2>1, NhAssumption DEF SrpHeld
  <2>4. rx # "run"
    BY <2>1 DEF RxHeld
  <2>5. QED
    BY <2>1, <2>2, <2>3, <2>4 DEF TypeOK
<1>2. QED
  BY <1>1, LifeInductive, PTL
=============================================================================
