--------------------------------- MODULE Coap ----------------------------------
(****************************************************************************)
(* The CoAP examples under examples/protocols.                              *)
(*                                                                          *)
(* coap_client fetches one resource of some server block by block: the      *)
(* handler of a response asks for the next block, and the task waits until  *)
(* the handler says that nothing more is expected or no response has come   *)
(* for a while.  coap_server keeps one value that peers read, replace and   *)
(* delete, and observers are told of its changes.                           *)
(*                                                                          *)
(* libcoap is modelled by what the examples use of it: coap_run_once calls  *)
(* the handlers of the packets that arrive and returns the time it took.    *)
(* Requests and responses may be duplicated, reordered, and lost for good   *)
(* when all retransmissions fail.  Time is counted in seconds.  The two     *)
(* examples run on boards of their own and talk to other programs: in a     *)
(* behaviour one of them is off.                                            *)
(*                                                                          *)
(* Operators named X_y (y a word for a fault) are faulty variants of X that *)
(* the mutation checks use; the specification does not.                     *)
(****************************************************************************)
EXTENDS Integers, FiniteSets

CONSTANTS
    Blocks,      \* blocks of the resource the client fetches
    WaitTime,    \* COAP_DEFAULT_TIME_SEC
    Values,      \* values that peers put
    MaxPuts,     \* bound: values put or deleted
    MaxFailed    \* bound: calls that fail, packets lost or doubled

ASSUME CoapAssumption == Blocks \in Nat /\ WaitTime \in Nat

VARIABLES
    getter,      \* the client task: [pc, resp_wait, wait_ms, woken, printed, held]
    asked,       \* requests for a block on their way, each [num, copy]
    answers,     \* responses on their way, each [num, more, class, copy]
    coapd,       \* the server task: [pc, ports, groups]
    value,       \* espressif_data
    observer,    \* the value the observer was told last
    dirty,       \* the observer is to be told
    puts,        \* values put so far
    failed       \* faults so far

coapVars == <<getter, asked, answers, coapd, value, observer, dirty, puts, failed>>

getterVars == <<getter, asked, answers>>
serverVars == <<coapd, value, observer, dirty, puts>>

CoapInit ==
    /\ \E pc \in {"resolve", "off"} :
           /\ getter = [pc |-> pc, resp_wait |-> TRUE, wait_ms |-> 0, woken |-> FALSE,
                        printed |-> {}, held |-> {}]
           /\ coapd = [pc |-> IF pc = "off" THEN "context" ELSE "off",
                       ports |-> {}, groups |-> {}]
    /\ asked = {} /\ answers = {}
    /\ value = "no data" /\ observer = "no data" /\ dirty = FALSE
    /\ puts = 0 /\ failed = 0

CallFails == failed < MaxFailed /\ failed' = failed + 1

--------------------------------------------------------------------------------
(* The client task.  A name that is not resolved is tried again; a call     *)
(* that fails afterwards ends the task.                                     *)
resolve ==
    /\ getter.pc = "resolve"
    /\ \/ getter' = [getter EXCEPT !.pc = "context", !.held = {"ainfo", "optlist"}]
          /\ UNCHANGED failed
       \/ CallFails /\ UNCHANGED getter
    /\ UNCHANGED <<asked, answers, serverVars>>

new_context ==
    /\ getter.pc = "context"
    /\ \/ getter' = [getter EXCEPT !.pc = "session", !.held = @ \cup {"ctx"}]
          /\ UNCHANGED failed
       \/ CallFails /\ getter' = [getter EXCEPT !.pc = "clean_up"]
    /\ UNCHANGED <<asked, answers, serverVars>>

new_session ==
    /\ getter.pc = "session"
    /\ \/ getter' = [getter EXCEPT !.pc = "request", !.held = @ \cup {"session"}]
          /\ UNCHANGED failed
       \/ CallFails /\ getter' = [getter EXCEPT !.pc = "clean_up"]
    /\ UNCHANGED <<asked, answers, serverVars>>

send_request ==
    /\ getter.pc = "request"
    /\ \/ /\ getter' = [getter EXCEPT !.pc = "run", !.resp_wait = TRUE, !.wait_ms = WaitTime]
          /\ asked' = {[num |-> 0, copy |-> FALSE]} /\ UNCHANGED failed
       \/ CallFails /\ getter' = [getter EXCEPT !.pc = "clean_up"] /\ UNCHANGED asked
    /\ UNCHANGED <<answers, serverVars>>

(* A response, in coap_run_once.  Only a response of class 2 with the more  *)
(* bit asks for another block.                                              *)
nextBlock_skips(num) == num + 2
nextBlock(num) == num + 1

message_handler(r) ==
    /\ getter.pc = "run" /\ r \in answers
    /\ answers' = answers \ {r}
    /\ LET shown == [getter EXCEPT !.woken = TRUE,
                         !.printed = IF r.class = 2 THEN @ \cup {r.num} ELSE @]
       IN \/ /\ r.class = 2 /\ r.more
             /\ getter' = [shown EXCEPT !.resp_wait = TRUE, !.wait_ms = WaitTime]
             /\ asked' = asked \cup {[num |-> nextBlock(r.num), copy |-> FALSE]}
             /\ UNCHANGED failed
          \/ /\ r.class = 2 /\ r.more /\ CallFails
             /\ getter' = [shown EXCEPT !.resp_wait = FALSE] /\ UNCHANGED asked
          \/ /\ r.class # 2 \/ ~r.more
             /\ getter' = [shown EXCEPT !.resp_wait = FALSE] /\ UNCHANGED <<asked, failed>>
    /\ UNCHANGED serverVars

(* coap_run_once returns after a second, sooner if there was something to   *)
(* do, or with an error.                                                    *)
run_once_untilAnswered(spent) ==
    /\ getter.pc = "run"
    /\ spent = 0 => getter.woken
    /\ getter' = [getter EXCEPT !.woken = FALSE,
                                !.pc = IF ~getter.resp_wait THEN "clean_up" ELSE "run"]
    /\ UNCHANGED <<asked, answers, serverVars, failed>>

run_once(spent) ==
    /\ getter.pc = "run"
    /\ spent = 0 => getter.woken
    /\ getter' = [getter EXCEPT !.woken = FALSE, !.wait_ms = IF spent < @ THEN @ - spent ELSE @,
           !.pc = IF spent >= getter.wait_ms \/ ~getter.resp_wait THEN "clean_up" ELSE "run"]
    /\ UNCHANGED <<asked, answers, serverVars, failed>>

run_once_error ==
    /\ getter.pc = "run" /\ CallFails
    /\ getter' = [getter EXCEPT !.woken = FALSE, !.pc = IF getter.resp_wait THEN "run" ELSE "clean_up"]
    /\ UNCHANGED <<asked, answers, serverVars>>

clean_up ==
    /\ getter.pc = "clean_up"
    /\ getter' = [getter EXCEPT !.pc = "deleted", !.held = {}]
    /\ asked' = {} /\ answers' = {}
    /\ UNCHANGED <<serverVars, failed>>

(* The server the client talks to, and the network.                         *)
Reply(q) ==
    /\ q \in asked /\ asked' = asked \ {q}
    /\ LET r == [num |-> q.num, more |-> q.num + 1 < Blocks, class |-> 2, copy |-> q.copy]
       IN \/ /\ q.num < Blocks \/ q.num = 0
             /\ answers' = answers \cup {r} /\ UNCHANGED failed
          \/ CallFails /\ answers' = answers \cup {[r EXCEPT !.class = 5, !.more = FALSE]}
    /\ UNCHANGED <<getter, serverVars>>

PacketLost ==
    /\ CallFails
    /\ \/ \E q \in asked : asked' = asked \ {q} /\ UNCHANGED answers
       \/ \E r \in answers : answers' = answers \ {r} /\ UNCHANGED asked
    /\ UNCHANGED <<getter, serverVars>>

Doubled ==
    /\ CallFails
    /\ \/ \E q \in asked : asked' = asked \cup {[q EXCEPT !.copy = TRUE]} /\ UNCHANGED answers
       \/ \E r \in answers : answers' = answers \cup {[r EXCEPT !.copy = TRUE]} /\ UNCHANGED asked
    /\ UNCHANGED <<getter, serverVars>>

--------------------------------------------------------------------------------
(* The server task: a context, four endpoints, the resource.  A context     *)
(* that was left because of an error still has its endpoints.               *)
Endpoint == [udp4 |-> "tcp4", tcp4 |-> "udp6", udp6 |-> "tcp6", tcp6 |-> "resource"]

ServerStep(from, to) ==
    /\ coapd.pc = from /\ coapd' = [coapd EXCEPT !.pc = to]
    /\ UNCHANGED <<value, observer, dirty, puts, getterVars>>

server_context ==
    \/ ServerStep("context", "udp4") /\ UNCHANGED failed
    \/ CallFails /\ ServerStep("context", "context")

(* A UDP endpoint joins its multicast group; a failure to is ignored.       *)
join_ipv4(groups) == {groups, groups \cup {"udp4"}}
join_ipv6(groups) == {groups, groups \cup {"udp6"}}

joined(e) ==
    CASE e = "udp4" -> join_ipv4(coapd.groups)
      [] e = "udp6" -> join_ipv6(coapd.groups)
      [] OTHER -> {coapd.groups}

(* A port that is in use, or any other failure, ends the task.              *)
new_endpoint(e) ==
    /\ coapd.pc = e
    /\ \/ /\ e \notin coapd.ports
          /\ \E groups \in joined(e) :
                 coapd' = [pc |-> Endpoint[e], ports |-> coapd.ports \cup {e}, groups |-> groups]
          /\ UNCHANGED failed
       \/ /\ e \in coapd.ports
          /\ coapd' = [coapd EXCEPT !.pc = "deleted"] /\ UNCHANGED failed
       \/ CallFails /\ coapd' = [coapd EXCEPT !.pc = "deleted"]
    /\ UNCHANGED <<value, observer, dirty, puts, getterVars>>

server_resource ==
    \/ ServerStep("resource", "serve") /\ UNCHANGED failed
    \/ CallFails /\ ServerStep("resource", "deleted")

server_error == CallFails /\ ServerStep("serve", "context")

hnd_espressif_get ==
    /\ coapd.pc = "serve" /\ dirty
    /\ observer' = value /\ dirty' = FALSE
    /\ UNCHANGED <<coapd, value, puts, getterVars, failed>>

hnd_espressif_put(v) ==
    /\ coapd.pc = "serve" /\ puts < MaxPuts
    /\ dirty' = TRUE
    /\ value' = IF v = "empty" THEN "no data" ELSE v
    /\ puts' = puts + 1
    /\ UNCHANGED <<coapd, observer, getterVars, failed>>

hnd_espressif_delete_quiet ==
    /\ coapd.pc = "serve" /\ puts < MaxPuts
    /\ value' = "no data" /\ puts' = puts + 1
    /\ UNCHANGED <<coapd, observer, dirty, getterVars, failed>>

hnd_espressif_delete ==
    /\ coapd.pc = "serve" /\ puts < MaxPuts
    /\ dirty' = TRUE /\ value' = "no data" /\ puts' = puts + 1
    /\ UNCHANGED <<coapd, observer, getterVars, failed>>

Getter == resolve \/ new_context \/ new_session \/ send_request \/ clean_up
          \/ (\E r \in answers : message_handler(r)) \/ (\E spent \in 0 .. 1 : run_once(spent))

Network == \E q \in asked : Reply(q)

Serving == server_context \/ (\E e \in DOMAIN Endpoint : new_endpoint(e)) \/ server_resource
           \/ hnd_espressif_get

(* What runs again and again: the two programs.                             *)
CoapTask(k) == (k = 1 /\ Getter) \/ (k = 2 /\ Serving)

CoapNext ==
    \/ Getter \/ run_once_error \/ Network \/ PacketLost \/ Doubled
    \/ Serving \/ server_error
    \/ (\E v \in Values \cup {"empty"} : hnd_espressif_put(v)) \/ hnd_espressif_delete

CoapSpec == CoapInit /\ [][CoapNext]_coapVars

--------------------------------------------------------------------------------
(* What the client has shown of the resource has no gap, whatever was       *)
(* doubled, lost or reordered: a block is asked for once the one before it  *)
(* is there.  A task that ended has released all it held.                   *)
BlocksNoGap ==
    /\ \A n \in getter.printed : n = 0 \/ n - 1 \in getter.printed
    /\ getter.pc = "deleted" => getter.held = {}

(* The client task has ended.                                               *)
ClientEnded == getter.pc \in {"off", "deleted"}

(* The observer knows the value, or the server has stopped.                 *)
ObserverKnows == observer = value \/ coapd.pc = "deleted"
================================================================================
