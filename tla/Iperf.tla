------------------------------- MODULE Iperf -------------------------------
(***************************************************************************)
(* The iperf example: the console task runs the commands sta, ap, scan,    *)
(* iperf and iperf -a (cmd_wifi.c); a run has a traffic task and a report  *)
(* task that ends it after its time (iperf.c).  All share s_iperf_ctrl     *)
(* without a lock.  Time is counted in report intervals, bytes are left    *)
(* out.  Runs are numbered; the buffer of a run carries its number.        *)
(***************************************************************************)
EXTENDS Naturals, Sequences, FiniteSets

CONSTANTS
    Time,         \* intervals of a run (cfg.time / cfg.interval)
    MaxCommands,  \* bound: console commands
    MaxLosses     \* bound: how often the access point is lost

Roles == {"udp_client", "udp_server", "tcp_client", "tcp_server"}

VARIABLES
    console,   \* the console task: [pc, cmds]
    is_running, \* s_iperf_is_running
    ctrl,      \* s_iperf_ctrl: [role, finish, buffer]; buffer 0 is NULL
    heap,      \* buffers that are allocated
    traffic,   \* iperf_task_traffic: [pc, buffer]
    reports,   \* report tasks: run -> [pc, cur]
    run,       \* number of the last run
    starved,   \* history: an allocation or a task creation failed
    link       \* station: [mode, sta, reconnect, bits, posted, losses, joined (history)]

iperfVars == <<console, is_running, ctrl, heap, traffic, reports, run, starved, link>>

IperfInit ==
    /\ console = [pc |-> "prompt", cmds |-> 0]
    /\ is_running = FALSE
    /\ ctrl = [role |-> "tcp_server", finish |-> FALSE, buffer |-> 0]
    /\ heap = {}
    /\ traffic = [pc |-> "none", buffer |-> 0]
    /\ reports = [r \in 1 .. MaxCommands |-> [pc |-> "none", cur |-> 0]]
    /\ run = 0
    /\ starved = FALSE
    /\ link = [mode |-> "NULL", sta |-> "idle", reconnect |-> TRUE, bits |-> "none",
               posted |-> <<>>, losses |-> 0, joined |-> FALSE]

----------------------------------------------------------------------------
(* iperf.c                                                                 *)

\* iperf_start_report(): the creation of the task may fail unnoticed.
iperf_start_report ==
    \/ reports' = [reports EXCEPT ![run] = [pc |-> "check", cur |-> 0]]
         /\ UNCHANGED starved
    \/ UNCHANGED reports /\ starved' = TRUE

\* One step of the report task of run r: until finish, an interval at a time;
\* at its end it sets finish, of whatever run there is by then.
iperf_report_task(r) ==
    /\ \/ /\ reports[r].pc = "check"
          /\ reports' = [reports EXCEPT ![r].pc =
                           IF ctrl.finish THEN "ending" ELSE "delay"]
          /\ UNCHANGED ctrl
       \/ /\ reports[r].pc = "delay"
          /\ reports' = [reports EXCEPT ![r] =
               [pc |-> IF reports[r].cur + 1 >= Time THEN "ending" ELSE "check",
                cur |-> reports[r].cur + 1]]
          /\ UNCHANGED ctrl
       \/ /\ reports[r].pc = "ending"
          /\ reports' = [reports EXCEPT ![r].pc = "none"]
          /\ ctrl' = [ctrl EXCEPT !.finish = TRUE]
    /\ UNCHANGED <<console, is_running, heap, traffic, run, starved, link>>

\* The traffic task's functions share a shape: open a socket, start the
\* report, loop on the buffer until finish, set finish and return.
TrafficTo(pc) == traffic' = [traffic EXCEPT !.pc = pc]

\* socket(), bind() or connect() failed: return without setting finish.
OpenFails == TrafficTo("free") /\ UNCHANGED <<reports, starved>>

\* The clients start their report at once.
iperf_run_udp_client ==
    /\ ctrl.role = "udp_client"
    /\ \/ OpenFails
       \/ traffic' = [pc |-> "loop", buffer |-> ctrl.buffer] /\ iperf_start_report

iperf_run_tcp_client ==
    /\ ctrl.role = "tcp_client"
    /\ \/ OpenFails
       \/ traffic' = [pc |-> "loop", buffer |-> ctrl.buffer] /\ iperf_start_report

\* The UDP server starts it with the first datagram; the socket has a
\* receive timeout, so finish is looked at meanwhile.
iperf_run_udp_server ==
    /\ ctrl.role = "udp_server"
    /\ \/ OpenFails
       \/ /\ traffic' = [pc |-> "loop", buffer |-> ctrl.buffer]
          /\ UNCHANGED <<reports, starved>>

\* The TCP server looks at finish before it waits for a client.
iperf_run_tcp_server ==
    /\ ctrl.role = "tcp_server"
    /\ \/ OpenFails
       \/ /\ traffic' = [pc |-> IF ctrl.finish THEN "free" ELSE "accept",
                         buffer |-> ctrl.buffer]
          /\ UNCHANGED <<reports, starved>>

\* iperf_task_traffic starts the function of its role.
TrafficOpen ==
    /\ traffic.pc = "open"
    /\ \/ iperf_run_udp_client \/ iperf_run_tcp_client
       \/ iperf_run_udp_server \/ iperf_run_tcp_server
    /\ UNCHANGED <<console, is_running, ctrl, heap, run, link>>

\* accept() has no timeout: it returns when a client connects, or fails.
Accept ==
    /\ traffic.pc = "accept"
    /\ \/ TrafficTo("loop") /\ iperf_start_report
       \/ OpenFails
    /\ UNCHANGED <<console, is_running, ctrl, heap, run, link>>

FirstDatagram ==
    /\ traffic.pc = "loop" /\ ctrl.role = "udp_server" /\ ~ctrl.finish
    /\ reports[run] = [pc |-> "none", cur |-> 0]
    /\ iperf_start_report
    /\ UNCHANGED <<console, is_running, ctrl, heap, traffic, run, link>>

\* The loop ends: finish was set, or send()/recv() failed.  Either way finish
\* is set on the way out.  (An error does not end the UDP server.)
TrafficEnd ==
    /\ traffic.pc = "loop"
    /\ ctrl.finish \/ ctrl.role # "udp_server"
    /\ ctrl' = [ctrl EXCEPT !.finish = TRUE]
    /\ TrafficTo("free")
    /\ UNCHANGED <<console, is_running, heap, reports, run, starved, link>>

\* Mutant: s_iperf_is_running is cleared before the buffer is freed.
TrafficFree_flagFirst ==
    /\ traffic.pc = "free"
    /\ is_running' = FALSE
    /\ TrafficTo("exit")
    /\ UNCHANGED <<console, ctrl, heap, reports, run, starved, link>>

\* Back in iperf_task_traffic: free the buffer of s_iperf_ctrl...
TrafficFree ==
    /\ traffic.pc = "free"
    /\ heap' = heap \ {ctrl.buffer}
    /\ ctrl' = [ctrl EXCEPT !.buffer = 0]
    /\ TrafficTo("exit")
    /\ UNCHANGED <<console, is_running, reports, run, starved, link>>

\* ... then allow the next run.
TrafficExit ==
    /\ traffic.pc = "exit"
    /\ is_running' = FALSE
    /\ traffic' = [pc |-> "none", buffer |-> 0]
    /\ UNCHANGED <<console, ctrl, heap, reports, run, starved, link>>

Command == console.pc = "prompt" /\ console.cmds < MaxCommands
NextPrompt(pc) == console' = [pc |-> pc, cmds |-> console.cmds + 1]

\* In station mode the address is the one the handlers know of; an access
\* point has its own.
wifi_get_local_ip == link.mode = "AP" \/ (link.mode = "STA" /\ link.bits = "CONNECTED")

\* iperf_start(), after wifi_cmd_iperf() found an address.  When an
\* allocation fails it returns with s_iperf_is_running still set.
iperf_start(role) ==
    /\ Command
    /\ wifi_get_local_ip
    /\ ~is_running
    /\ NextPrompt("prompt")
    /\ is_running' = TRUE
    /\ run' = run + 1
    /\ \/ /\ ctrl' = [role |-> role, finish |-> FALSE, buffer |-> run + 1]
          /\ heap' = heap \cup {run + 1}
          /\ traffic' = [pc |-> "open", buffer |-> 0]
          /\ UNCHANGED starved
       \/ /\ ctrl' = [role |-> role, finish |-> FALSE, buffer |-> 0]
          /\ starved' = TRUE
          /\ UNCHANGED <<heap, traffic>>
    /\ UNCHANGED <<reports, link>>

\* Mutant: it polls only.
iperf_stop_noFinish ==
    /\ Command
    /\ NextPrompt("stopping")
    /\ UNCHANGED <<is_running, ctrl, heap, traffic, reports, run, starved, link>>

\* iperf_stop(): set finish, then poll every 300 ms.
iperf_stop ==
    /\ Command
    /\ ctrl' = IF is_running THEN [ctrl EXCEPT !.finish = TRUE] ELSE ctrl
    /\ NextPrompt("stopping")
    /\ UNCHANGED <<is_running, heap, traffic, reports, run, starved, link>>

StopReturned ==
    /\ console.pc = "stopping" /\ ~is_running
    /\ console' = [console EXCEPT !.pc = "prompt"]
    /\ UNCHANGED <<is_running, ctrl, heap, traffic, reports, run, starved, link>>

----------------------------------------------------------------------------
(* cmd_wifi.c                                                              *)

\* esp_wifi_connect() has an effect on a station that is idle only.
esp_wifi_connect(l) ==
    IF l.mode = "STA" /\ l.sta = "idle" THEN [l EXCEPT !.sta = "connecting"] ELSE l

Disconnected(l) == [l EXCEPT !.sta = "idle", !.posted = Append(@, "DISCONNECTED")]

\* wifi_cmd_sta_join(): leave the present access point first, if there is one.
JoinStart ==
    /\ Command
    /\ IF link.bits = "CONNECTED"
       THEN LET l == [link EXCEPT !.reconnect = FALSE, !.bits = "none"]
            IN  /\ link' = IF l.sta = "up" THEN Disconnected(l) ELSE l
                /\ NextPrompt("join_wait")
       ELSE UNCHANGED link /\ NextPrompt("join_connect")
    /\ UNCHANGED <<is_running, ctrl, heap, traffic, reports, run, starved>>

\* DISCONNECTED_BIT, or the few ticks of the timeout.
JoinWaited ==
    /\ console.pc = "join_wait"
    /\ console' = [console EXCEPT !.pc = "join_connect"]
    /\ UNCHANGED <<is_running, ctrl, heap, traffic, reports, run, starved, link>>

JoinConnect ==
    /\ console.pc = "join_connect"
    /\ link' = esp_wifi_connect([link EXCEPT !.reconnect = TRUE, !.mode = "STA",
                                               !.joined = TRUE])
    /\ console' = [console EXCEPT !.pc = "prompt"]
    /\ UNCHANGED <<is_running, ctrl, heap, traffic, reports, run, starved>>

\* wifi_cmd_ap_set(): a password that is too short turns reconnect on again.
wifi_cmd_ap_set ==
    /\ Command
    /\ NextPrompt("prompt")
    /\ \/ link' = [link EXCEPT !.reconnect = TRUE]
       \/ LET l == [link EXCEPT !.reconnect = FALSE, !.mode = "AP", !.joined = FALSE]
          IN  link' = IF l.sta = "up" THEN Disconnected(l) ELSE [l EXCEPT !.sta = "idle"]
    /\ UNCHANGED <<is_running, ctrl, heap, traffic, reports, run, starved>>

\* wifi_cmd_sta_scan(): an access point becomes a station that joins nothing.
wifi_cmd_sta_scan ==
    /\ Command
    /\ NextPrompt("prompt")
    /\ link' = [link EXCEPT !.mode = "STA"]
    /\ UNCHANGED <<is_running, ctrl, heap, traffic, reports, run, starved>>

\* got_ip_handler and disconnect_handler, in the event loop.
Handler ==
    /\ link.posted # <<>>
    /\ LET l == [link EXCEPT !.posted = Tail(@)]
       IN  \/ /\ Head(link.posted) = "GOT_IP"
              /\ link' = [l EXCEPT !.bits = "CONNECTED"]
           \/ /\ Head(link.posted) = "DISCONNECTED"
              /\ link' = [IF l.reconnect THEN esp_wifi_connect(l) ELSE l
                            EXCEPT !.bits = "DISCONNECTED"]
    /\ UNCHANGED <<console, is_running, ctrl, heap, traffic, reports, run, starved>>

\* External: the station gets on line, or fails or loses the access point.
StationUp ==
    /\ link.sta = "connecting"
    /\ link' = [link EXCEPT !.sta = "up", !.posted = Append(@, "GOT_IP")]
    /\ UNCHANGED <<console, is_running, ctrl, heap, traffic, reports, run, starved>>

StationLost ==
    /\ link.sta # "idle" /\ link.losses < MaxLosses
    /\ link' = Disconnected([link EXCEPT !.losses = @ + 1])
    /\ UNCHANGED <<console, is_running, ctrl, heap, traffic, reports, run, starved>>

Traffic == TrafficOpen \/ TrafficEnd \/ TrafficFree \/ TrafficExit
Console == StopReturned \/ JoinWaited \/ JoinConnect

IperfNext ==
    \/ Console \/ JoinStart \/ wifi_cmd_ap_set \/ wifi_cmd_sta_scan \/ iperf_stop
    \/ \E role \in Roles : iperf_start(role)
    \/ Traffic \/ Accept \/ FirstDatagram
    \/ \E r \in 1 .. MaxCommands : iperf_report_task(r)
    \/ Handler \/ StationUp \/ StationLost

IperfSpec == IperfInit /\ [][IperfNext]_iperfVars

\* What runs again and again: the console and traffic tasks, the event loop;
\* and the station gets on line in the end.  A traffic loop ends when it is told.
IperfTask(k) ==
    \/ k = 1 /\ Console
    \/ k = 2 /\ (TrafficOpen \/ TrafficFree \/ TrafficExit \/ (TrafficEnd /\ ctrl.finish))
    \/ k = 3 /\ Handler
    \/ k = 4 /\ StationUp

----------------------------------------------------------------------------
(* Properties.                                                             *)

\* The traffic task works on a buffer that is allocated and is its own run's,
\* although console, traffic and report tasks change s_iperf_ctrl unlocked;
\* and no buffer is left behind.
BufferOwned ==
    /\ traffic.pc \in {"accept", "loop"} =>
         traffic.buffer = run /\ ctrl.buffer = run /\ run \in heap
    /\ heap \subseteq {ctrl.buffer}

\* The abort command waits.  Two cases apart: nobody connects to a TCP server
\* that waits in accept(), and a start that failed for want of memory leaves
\* s_iperf_is_running set.
StopWaits == console.pc = "stopping" /\ ~starved /\ traffic.pc # "accept"

\* After a join the device is on line and says so.
StationOnline ==
    link.joined /\ console.pc # "stopping" => link.sta = "up" /\ link.bits = "CONNECTED"
============================================================================
