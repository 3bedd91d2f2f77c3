---------------------------- MODULE NhLifecycle ----------------------------
(***************************************************************************)
(* The life of a nethandler: nh_create_init() with its failures, enabling  *)
(* and disabling SRP, nh_destroy(), and the threads of the library that    *)
(* hold a pointer to it: the Rx thread, the SRP monitor and the announcer. *)
(* A reader that was told to break off when a frame is late (--break)      *)
(* destroys the nethandler too, from inside chan_read().                   *)
(*                                                                         *)
(* Memory and descriptors are objects that are "none", "live" or "freed".  *)
(* The channels count as one object.  Every use of a freed object is       *)
(* recorded.  After a use of anything but a freed channel the behaviour of *)
(* the program is undefined, and the model ends.                           *)
(* SRP may be enabled anew: the g-th time starts the g-th monitor and      *)
(* announcer.                                                              *)
(***************************************************************************)
EXTENDS Integers, FiniteSets

CONSTANT MaxSetups   \* bound: times nc_srp_setup() is called

ASSUME NhAssumption == MaxSetups \in Nat \ {0}

Gens == 1 .. MaxSetups
Objs == {"nethandler", "hmap", "srp", "logger", "channel", "rx_sock", "ptp_fd", "dma_lat_fd"}
Callers == {"app", "reader"}

VARIABLES
  obj,        \* object -> "none", "live", "freed"
  sock,       \* g -> the SRP socket of the g-th setup, the same
  running, use_srp,
  tid,        \* nh->tid is set
  srp_tid, announcer,   \* srp->tid, srp->announcer: the g of the thread, or 0
  rx,         \* the Rx thread: "none", "run", "exited"
  mon, ann,   \* g -> the g-th monitor and announcer: also "walk", with a
              \* channel of the list in hand
  valid,      \* srp->valid_a or srp->valid_b
  answer,     \* mrpd's answer to the query for the domain: "none", "coming", "lost"
  setups,     \* calls of nc_srp_setup() so far
  pc,         \* caller -> where it is
  failed, disabled,  \* nh_set_srp() has failed, has switched SRP off
  crossed,    \* both callers were in a call at the same time
  stale       \* <<who, object>>: uses of a freed object

thrVars == <<rx, mon, ann>>
srpVars == <<sock, srp_tid, announcer, valid, answer, setups>>
flagVars == <<running, use_srp, tid>>
histVars == <<failed, disabled, crossed, stale>>
vars == <<obj, thrVars, srpVars, flagVars, histVars, pc>>

Init ==
  /\ obj = [o \in Objs |-> "none"] /\ sock = [g \in Gens |-> "none"]
  /\ running = FALSE /\ use_srp = FALSE /\ tid = FALSE
  /\ srp_tid = 0 /\ announcer = 0
  /\ rx = "none" /\ mon = [g \in Gens |-> "none"] /\ ann = [g \in Gens |-> "none"]
  /\ valid = FALSE /\ answer = "none" /\ setups = 0
  /\ pc = [app |-> "start", reader |-> "idle"]
  /\ failed = FALSE /\ disabled = FALSE /\ crossed = FALSE
  /\ stale = {}

Live(o) == obj[o] = "live"
Goto(d, to) == pc' = [pc EXCEPT ![d] = to]
Alloc(O) == obj' = [o \in Objs |-> IF o \in O THEN "live" ELSE obj[o]]
Release(O) == obj' = [o \in Objs |-> IF o \in O /\ Live(o) THEN "freed" ELSE obj[o]]

\* Who uses the objects O: the freed ones among them are noted.
Use(who, O) == stale' = stale \cup {<<who, o>> : o \in {o \in O : obj[o] = "freed"}}

InCall(d) == pc[d] \notin {"start", "run", "idle", "done"}
-----------------------------------------------------------------------------
(* nh_create_init(), by the application.  What fails is destroyed: the call *)
(* goes on at "stop" and returns NULL from there.                           *)

create_alloc ==
  /\ pc["app"] = "start"
  /\ \/ Alloc({"nethandler", "hmap"}) /\ Goto("app", "net")
     \/ obj' = [obj EXCEPT !["nethandler"] = "freed"] /\ Goto("app", "done")
  /\ UNCHANGED <<thrVars, srpVars, flagVars, histVars>>

\* _nh_net_setup(): the socket may be open when it fails.
create_net ==
  /\ pc["app"] = "net"
  /\ \/ Alloc({"rx_sock"}) /\ Goto("app", "start_rx")
     \/ \E s \in {{}, {"rx_sock"}} : Alloc(s) /\ Goto("app", "stop")
  /\ UNCHANGED <<thrVars, srpVars, flagVars, histVars>>

_nh_start_rx ==
  /\ pc["app"] = "start_rx"
  /\ \/ /\ rx' = "run" /\ running' = TRUE /\ tid' = TRUE
        /\ Goto("app", "srp_init")
     \/ Goto("app", "stop") /\ UNCHANGED <<rx, running, tid>>
  /\ UNCHANGED <<obj, mon, ann, srpVars, use_srp, histVars>>

\* A mutant: a container that could not be allocated is not noticed.
UncheckedInit ==
  /\ pc["app"] = "srp_init"
  /\ \E s \in {{}, {"srp"}} : Alloc({"dma_lat_fd"} \cup s) /\ Goto("app", "ptp")
  /\ UNCHANGED <<thrVars, srpVars, flagVars, histVars>>

\* _nh_enable_rt_measures(), whose failures leave less to clean up and nothing
\* else, and nc_srp_init().
nc_srp_init ==
  /\ pc["app"] = "srp_init"
  /\ \/ Alloc({"dma_lat_fd", "srp"}) /\ Goto("app", "ptp")
     \/ Alloc({"dma_lat_fd"}) /\ Goto("app", "stop")
  /\ UNCHANGED <<thrVars, srpVars, flagVars, histVars>>

\* log_create(), if a logfile is given, and get_ptp_fd(), which finds no clock on
\* "lo" either.
create_ptp ==
  /\ pc["app"] = "ptp"
  /\ \E log \in {{}, {"logger"}} :
       \/ \E ptp \in {{}, {"ptp_fd"}} : Alloc(log \cup ptp) /\ Goto("app", "run")
       \/ Alloc(log) /\ Goto("app", "stop")
  /\ UNCHANGED <<thrVars, srpVars, flagVars, histVars>>

Create == create_alloc \/ create_net \/ _nh_start_rx \/ nc_srp_init \/ create_ptp
-----------------------------------------------------------------------------
(* What the application does with a nethandler. *)

\* The application is in no call and has a nethandler.
Idle == pc["app"] = "run" /\ Live("nethandler")

\* A call is made, perhaps while the other caller is in one.
Call == crossed' = (crossed \/ \E d \in Callers : InCall(d))

\* chan_create_tx(), chan_create_rx(): the priority of the stream class is read
\* from nh->srp (_chan_set_streamclass()), which is not tested for NULL.
chan_create ==
  /\ Idle /\ obj["channel"] # "live"
  /\ IF Live("srp")
       THEN Alloc({"channel"}) /\ UNCHANGED <<stale, pc>>
       ELSE stale' = stale \cup {<<"app", "srp">>} /\ UNCHANGED <<obj, pc>>
  /\ Call
  /\ UNCHANGED <<thrVars, srpVars, flagVars, failed, disabled>>

\* nh_set_srp(nh, true).  Without a container, and when SRP is on, nothing
\* happens.
nh_set_srp_on ==
  /\ Idle /\ ~use_srp /\ Live("srp") /\ setups < MaxSetups
  /\ setups' = setups + 1
  /\ Goto("app", "setup")
  /\ Call
  /\ UNCHANGED <<obj, thrVars, sock, srp_tid, announcer, valid, answer, flagVars,
                 failed, disabled, stale>>

\* nh_set_srp(nh, false): the threads go on.
nh_set_srp_off ==
  /\ Idle /\ use_srp
  /\ use_srp' = FALSE /\ disabled' = TRUE
  /\ Call
  /\ UNCHANGED <<obj, thrVars, srpVars, running, tid, failed, stale, pc>>

nh_destroy(d) ==
  /\ d = "app" => Idle
  /\ d = "reader" => pc["reader"] = "idle" /\ Live("channel")
  /\ Goto(d, "stop")
  /\ Call
  /\ UNCHANGED <<obj, thrVars, srpVars, flagVars, failed, disabled, stale>>

\* A call through a pointer to a nethandler that the other caller has freed.
dangling(d) ==
  /\ obj["nethandler"] = "freed"
  /\ InCall(d) \/ (d = "app" /\ pc[d] = "run")
  /\ Use(d, {"nethandler"})
  /\ UNCHANGED <<obj, thrVars, srpVars, flagVars, failed, disabled, crossed, pc>>
-----------------------------------------------------------------------------
(* nc_srp_setup(), in nh_set_srp(). *)

At(d, where) == pc[d] = where /\ Live("nethandler")

\* The socket, its address, the monitor and the query for the domain.  A query
\* that cannot be sent is not noticed: nc_mrp_get_domain() returns false, which
\* is compared with -1.
setup_monitor ==
  /\ At("app", "setup")
  /\ \/ /\ mon' = [mon EXCEPT ![setups] = "run"] /\ srp_tid' = setups
        /\ sock' = [sock EXCEPT ![setups] = "live"]
        /\ \/ answer' \in {"coming", "lost"} /\ Goto("app", "domain")
           \/ UNCHANGED answer /\ Goto("app", "register")
     \/ /\ \E s \in {"none", "live"} : sock' = [sock EXCEPT ![setups] = s]
        /\ Goto("app", "err") /\ UNCHANGED <<mon, srp_tid, answer>>
  /\ UNCHANGED <<obj, rx, ann, announcer, valid, setups, flagVars, histVars>>

\* A mutant: the query waits for one more answer.
AnotherAnswer ==
  /\ At("app", "domain")
  /\ ~running \/ (valid /\ answer = "coming")
  /\ Goto("app", "register")
  /\ UNCHANGED <<obj, thrVars, srpVars, flagVars, histVars>>

\* nc_mrp_get_domain() waits for the answer, and stops waiting when the
\* nethandler is torn down; nc_srp_setup() goes on in both cases.
domain_wait ==
  /\ At("app", "domain")
  /\ ~running \/ valid
  /\ Goto("app", "register")
  /\ UNCHANGED <<obj, thrVars, srpVars, flagVars, histVars>>

\* The domain is registered, the VLAN joined, the announcer started.
setup_register ==
  /\ At("app", "register")
  /\ \/ /\ ann' = [ann EXCEPT ![setups] = "run"] /\ announcer' = setups
        /\ use_srp' = TRUE /\ Goto("app", "run")
     \/ Goto("app", "err") /\ UNCHANGED <<ann, announcer, use_srp>>
  /\ UNCHANGED <<obj, rx, mon, sock, srp_tid, valid, answer, setups, running, tid, histVars>>

\* err_out: running is cleared, for the Rx thread too, and the socket is closed;
setup_err ==
  /\ At("app", "err")
  /\ running' = FALSE
  /\ sock' = [sock EXCEPT ![setups] = IF @ = "live" THEN "freed" ELSE @]
  /\ Goto("app", "err_join")
  /\ UNCHANGED <<obj, thrVars, srp_tid, announcer, valid, answer, setups, use_srp, tid, histVars>>

\* what threads there are are joined, and the container is freed.
setup_err_join ==
  /\ At("app", "err_join")
  /\ srp_tid # 0 => mon[srp_tid] = "exited"
  /\ announcer # 0 => ann[announcer] = "exited"
  /\ srp_tid' = 0 /\ announcer' = 0
  /\ Release({"srp"})
  /\ failed' = TRUE
  /\ Goto("app", "run")
  /\ UNCHANGED <<thrVars, sock, valid, answer, setups, flagVars, disabled, crossed, stale>>

Setup == setup_monitor \/ domain_wait \/ setup_register \/ setup_err \/ setup_err_join
-----------------------------------------------------------------------------
(* nh_destroy(). *)

\* _nh_stop_rx(): only a running Rx thread is joined.
_nh_stop_rx(d) ==
  /\ At(d, "stop")
  /\ running' = FALSE
  /\ Goto(d, IF running /\ tid THEN "join_rx" ELSE "release")
  /\ UNCHANGED <<obj, thrVars, srpVars, use_srp, tid, histVars>>

join_rx(d) ==
  /\ At(d, "join_rx") /\ rx = "exited"
  /\ tid' = FALSE
  /\ Goto(d, "release")
  /\ UNCHANGED <<obj, thrVars, srpVars, running, use_srp, histVars>>

\* A mutant: the map is forgotten.
MapKept(d) ==
  /\ At(d, "release")
  /\ Release({"dma_lat_fd", "logger", "channel"})
  /\ Goto(d, IF use_srp /\ Live("srp") THEN "join_mon" ELSE "free")
  /\ UNCHANGED <<thrVars, srpVars, flagVars, histVars>>

\* The latency fd, the logger, the map and the channels go.
nh_destroy_release(d) ==
  /\ At(d, "release")
  /\ IF Live("hmap")
       THEN /\ Release({"dma_lat_fd", "logger", "hmap", "channel"})
            /\ Goto(d, IF use_srp /\ Live("srp") THEN "join_mon" ELSE "free")
            /\ UNCHANGED stale
       ELSE Use(d, {"hmap"}) /\ UNCHANGED <<obj, pc>>
  /\ UNCHANGED <<thrVars, srpVars, flagVars, failed, disabled, crossed>>

\* A mutant: the monitor is not waited for.
NoMonitorJoin(d) ==
  /\ At(d, "join_mon")
  /\ announcer # 0 => ann[announcer] = "exited"
  /\ srp_tid' = 0 /\ announcer' = 0
  /\ sock' = [sock EXCEPT ![setups] = "freed"]
  /\ Release({"srp"})
  /\ Goto(d, "free")
  /\ UNCHANGED <<thrVars, valid, answer, setups, flagVars, histVars>>

\* nc_srp_teardown(): monitor and announcer are joined, mrpd is told, the socket
\* is closed and the container freed.
nc_srp_teardown(d) ==
  /\ At(d, "join_mon")
  /\ srp_tid # 0 => mon[srp_tid] = "exited"
  /\ announcer # 0 => ann[announcer] = "exited"
  /\ srp_tid' = 0 /\ announcer' = 0
  /\ sock' = [sock EXCEPT ![setups] = "freed"]
  /\ Release({"srp"})
  /\ Goto(d, "free")
  /\ UNCHANGED <<thrVars, valid, answer, setups, flagVars, histVars>>

\* The nethandler is freed and the caller's pointer cleared; the reader's is in
\* its channel.
nh_destroy_free(d) ==
  /\ At(d, "free")
  /\ Release({"nethandler"})
  /\ Use(d, IF d = "reader" THEN {"channel"} ELSE {})
  /\ Goto(d, "done")
  /\ UNCHANGED <<thrVars, srpVars, flagVars, failed, disabled, crossed>>

Destroy(d) ==
  \/ _nh_stop_rx(d) \/ join_rx(d) \/ nh_destroy_release(d)
  \/ nc_srp_teardown(d) \/ nh_destroy_free(d)
-----------------------------------------------------------------------------
(* The threads of the library. *)

\* nh_runner(): recvmsg() times out or returns a frame, running is read, a frame
\* is looked up in the map.
nh_runner ==
  /\ rx = "run"
  /\ rx' = IF running THEN "run" ELSE "exited"
  /\ \E frame \in BOOLEAN : Use("rx", IF frame THEN {"nethandler", "hmap"} ELSE {"nethandler"})
  /\ UNCHANGED <<obj, mon, ann, srpVars, flagVars, failed, disabled, crossed, pc>>

\* nc_srp_monitor(): poll() on the socket in the container.  It ends, ...
monitor_exit(g) ==
  /\ mon[g] = "run" /\ ~running
  /\ Use("mon", {"nethandler", "srp"})
  /\ mon' = [mon EXCEPT ![g] = "exited"]
  /\ UNCHANGED <<obj, rx, ann, srpVars, flagVars, failed, disabled, crossed, pc>>

\* ... takes the answer to the query ("SJO D:", _update_srp_fields()), ...
monitor_domain(g) ==
  /\ mon[g] = "run" /\ running
  /\ g = setups /\ answer = "coming"
  /\ Use("mon", {"nethandler", "srp"})
  /\ valid' = TRUE /\ answer' = "none"
  /\ UNCHANGED <<obj, thrVars, sock, srp_tid, announcer, setups, flagVars,
                 failed, disabled, crossed, pc>>

\* ... or a notice about a channel, which it looks up, ...
monitor_find(g) ==
  /\ mon[g] = "run" /\ running
  /\ Live("channel")
  /\ Use("mon", {"nethandler", "srp"})
  /\ mon' = [mon EXCEPT ![g] = "walk"]
  /\ UNCHANGED <<obj, rx, ann, srpVars, flagVars, failed, disabled, crossed, pc>>

\* ... and whose ready flag it changes.
monitor_channel(g) ==
  /\ mon[g] = "walk"
  /\ Use("mon", {"nethandler", "channel"})
  /\ mon' = [mon EXCEPT ![g] = "run"]
  /\ UNCHANGED <<obj, rx, ann, srpVars, flagVars, failed, disabled, crossed, pc>>

\* nc_srp_talker_announce(): every ten seconds a walk of the channels.
nc_srp_talker_announce(g) ==
  /\ ann[g] = "run"
  /\ Use("ann", {"nethandler"})
  /\ ann' = [ann EXCEPT ![g] = IF ~running THEN "exited"
                               ELSE IF Live("channel") THEN "walk" ELSE "run"]
  /\ UNCHANGED <<obj, rx, mon, srpVars, flagVars, failed, disabled, crossed, pc>>

announce_channel(g) ==
  /\ ann[g] = "walk"
  /\ Use("ann", {"channel"})
  /\ ann' = [ann EXCEPT ![g] = "run"]
  /\ UNCHANGED <<obj, rx, mon, srpVars, flagVars, failed, disabled, crossed, pc>>

Monitor(g) == monitor_exit(g) \/ monitor_domain(g) \/ monitor_find(g) \/ monitor_channel(g)
Announcer(g) == nc_srp_talker_announce(g) \/ announce_channel(g)
-----------------------------------------------------------------------------
Undefined == \E u \in stale : u[2] # "channel"

Next ==
  /\ ~Undefined
  /\ \/ Create \/ Setup
     \/ chan_create \/ nh_set_srp_on \/ nh_set_srp_off
     \/ \E d \in Callers : nh_destroy(d) \/ Destroy(d) \/ dangling(d)
     \/ nh_runner
     \/ \E g \in Gens : Monitor(g) \/ Announcer(g)

Spec == Init /\ [][Next]_vars

\* A call that was made goes on, the threads run; the Rx thread and the monitor
\* wake up by themselves every 250 and 100 ms, and a notice in the queue of the
\* monitor's socket has its turn.  Nobody need make a call.
FairSpec ==
  /\ Spec
  /\ WF_vars(~Undefined /\ Create) /\ WF_vars(~Undefined /\ Setup)
  /\ \A d \in Callers : WF_vars(~Undefined /\ (Destroy(d) \/ (InCall(d) /\ dangling(d))))
  /\ WF_vars(~Undefined /\ nh_runner)
  /\ \A g \in Gens : /\ WF_vars(~Undefined /\ Monitor(g))
                     /\ SF_vars(~Undefined /\ monitor_domain(g))
                     /\ WF_vars(~Undefined /\ Announcer(g))
-----------------------------------------------------------------------------
States == {"none", "live", "freed"}
Steps == {"start", "net", "start_rx", "srp_init", "ptp", "run", "setup", "domain",
          "register", "err", "err_join", "stop", "join_rx", "release", "join_mon",
          "free", "idle", "done"}

\* The state is what the declarations say.
TypeOK ==
  /\ obj \in [Objs -> States] /\ sock \in [Gens -> States]
  /\ running \in BOOLEAN /\ use_srp \in BOOLEAN /\ tid \in BOOLEAN
  /\ srp_tid \in 0 .. MaxSetups /\ announcer \in 0 .. MaxSetups
  /\ rx \in {"none", "run", "exited"}
  /\ mon \in [Gens -> {"none", "run", "walk", "exited"}]
  /\ ann \in [Gens -> {"none", "run", "walk", "exited"}]
  /\ valid \in BOOLEAN /\ answer \in {"none", "coming", "lost"}
  /\ setups \in 0 .. MaxSetups
  /\ pc \in [Callers -> Steps]
  /\ failed \in BOOLEAN
  /\ disabled \in BOOLEAN /\ crossed \in BOOLEAN
  /\ stale \subseteq {"app", "reader", "rx", "mon", "ann"} \X Objs

\* The lives that go as documented: nh_set_srp() has not failed, has not switched
\* SRP off again, and no two calls were made at once.
Plain == ~failed /\ ~disabled /\ ~crossed

\* nh_destroy() frees what a thread of the library uses after it has joined the
\* thread ("safely destroy nethandler. If _rx is running, it will be stopped",
\* netchan.h:915).  The exception is a channel that monitor or announcer has in
\* hand: the channels go before those two are joined.
ThreadsGoFirst ==
  Plain => \A u \in stale :
             \/ u[1] \in {"mon", "ann"} /\ u[2] = "channel"
             \/ u[1] \in {"app", "reader"}

\* The callers themselves use nothing that is gone, but for a nethandler that
\* --break destroyed behind the application's back, and the SRP container after
\* nh_set_srp() has failed, which it does not report.
CallersAreSafe ==
  ~crossed =>
    /\ \A o \in Objs : <<"app", o>> \in stale =>
         \/ o = "nethandler" /\ pc["reader"] # "idle"
         \/ o = "srp" /\ failed
    /\ \A o \in Objs : <<"reader", o>> \in stale => o = "channel"

\* When the application's nh_destroy() or its failed nh_create_init() is over,
\* no thread is left, and of what was allocated only the Rx socket, the PTP
\* descriptor and, if SRP was not in use, its container.
NothingElseLeft ==
  Plain /\ pc["app"] = "done" /\ pc["reader"] = "idle" =>
    /\ {o \in Objs : Live(o)} \subseteq {"rx_sock", "ptp_fd"} \cup (IF use_srp THEN {} ELSE {"srp"})
    /\ \A g \in Gens : sock[g] # "live" /\ mon[g] \in {"none", "exited"} /\ ann[g] \in {"none", "exited"}
    /\ rx # "run"

\* Every call returns: the domain query "abort[s] if we're being torn down"
\* (netchan_srp_helper.c:181) and the joins end.  The one call that may not is an
\* nh_set_srp() whose query mrpd did not answer.
CallsReturn ==
  (\E d \in Callers : InCall(d)) ~>
    \/ Undefined \/ \A d \in Callers : ~InCall(d)
    \/ [](pc["app"] = "domain" /\ answer = "lost")
=============================================================================
