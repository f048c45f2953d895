------------------------------ MODULE MCPrograms ------------------------------
(***************************************************************************)
(* The programs of the examples that are modelled, and any program that    *)
(* uses esp_timer, for TLC: `program' names the one that runs.  No two of  *)
(* them run on one device here: the variables of the others stay as they   *)
(* were in one of their initial states, and the invariants are those of    *)
(* the programs' own modules.                                              *)
(***************************************************************************)
EXTENDS Ota, EspNow, SpiLink, Prov, Iperf, Echo, Coap, EspTimer

VARIABLES
    program,
    netBits, netWifi, netAddrs, netEvents, netDrops, netMain

netVars == <<netBits, netWifi, netAddrs, netEvents, netDrops, netMain>>

(* What every network example starts with, configured for IPv6 as well:    *)
(* app_main calls example_connect, here without what comes after it;       *)
(* netMain is where it stands.                                             *)
net == INSTANCE Station WITH
    WaitForIpv6 <- TRUE, PreferGlobal <- TRUE, MaxDrops <- 2,
    s_connect_event_group <- netBits, wifi <- netWifi, addrs <- netAddrs,
    events <- netEvents, drops <- netDrops

NetInit == net!StationInit /\ netMain = "boot"

NetMain ==
    \/ netMain = "boot" /\ net!start /\ netMain' = "connecting"
    \/ netMain = "connecting" /\ net!example_connect_returns /\ netMain' = "connected"

NetNext == NetMain \/ (net!StationNext /\ UNCHANGED netMain)

NetTask(k) ==
    \/ k = 1 /\ net!StationNext /\ netDrops' = netDrops /\ UNCHANGED netMain
    \/ k = 2 /\ NetMain

all == <<program, otaAllVars, espnowVars, spiVars, provVars, iperfVars, echoVars,
         coapVars, netVars, timerVars>>

(* A step of one program leaves the others alone.                          *)
OtaOnly ==
    /\ program = "ota"
    /\ UNCHANGED <<program, espnowVars, spiVars, provVars, iperfVars, echoVars,
                    coapVars, netVars, timerVars>>
EspNowOnly ==
    /\ program = "espnow"
    /\ UNCHANGED <<program, otaAllVars, spiVars, provVars, iperfVars, echoVars,
                    coapVars, netVars, timerVars>>
SpiOnly ==
    /\ program = "spi"
    /\ UNCHANGED <<program, otaAllVars, espnowVars, provVars, iperfVars, echoVars,
                    coapVars, netVars, timerVars>>
ProvOnly ==
    /\ program = "prov"
    /\ UNCHANGED <<program, otaAllVars, espnowVars, spiVars, iperfVars, echoVars,
                    coapVars, netVars, timerVars>>
IperfOnly ==
    /\ program = "iperf"
    /\ UNCHANGED <<program, otaAllVars, espnowVars, spiVars, provVars, echoVars,
                    coapVars, netVars, timerVars>>
EchoOnly ==
    /\ program = "echo"
    /\ UNCHANGED <<program, otaAllVars, espnowVars, spiVars, provVars, iperfVars,
                    coapVars, netVars, timerVars>>
CoapOnly ==
    /\ program = "coap"
    /\ UNCHANGED <<program, otaAllVars, espnowVars, spiVars, provVars, iperfVars,
                    echoVars, netVars, timerVars>>
NetOnly ==
    /\ program = "net"
    /\ UNCHANGED <<program, otaAllVars, espnowVars, spiVars, provVars, iperfVars,
                    echoVars, coapVars, timerVars>>
TimerOnly ==
    /\ program = "timer"
    /\ UNCHANGED <<program, otaAllVars, espnowVars, spiVars, provVars, iperfVars,
                    echoVars, coapVars, netVars>>

(* A program that does not run has one initial state.                      *)
Init ==
    /\ program \in {"ota", "espnow", "spi", "prov", "iperf", "echo", "coap", "net",
                   "timer"}
    /\ OtaInit /\ EspNowInit /\ SpiInit /\ ProvInit /\ IperfInit /\ EchoInit /\ CoapInit
    /\ NetInit /\ TimerInit
    /\ program = "ota" \/ layout = "whole"
    /\ program = "espnow" \/ \A d \in Devices : param[d].magic = CHOOSE m \in Magics : TRUE
    /\ program = "spi" \/ dir = "up"
    /\ program = "echo" \/ proto = "tcp"
    /\ program = "coap" \/ getter.pc = "off"

Next ==
    \/ OtaOnly /\ OtaNext
    \/ EspNowOnly /\ EspNowNext
    \/ SpiOnly /\ SpiNext
    \/ ProvOnly /\ ProvNext
    \/ IperfOnly /\ IperfNext
    \/ EchoOnly /\ EchoNext
    \/ CoapOnly /\ CoapNext
    \/ NetOnly /\ NetNext
    \/ TimerOnly /\ TimerNext

(* The variables of the program that runs.                                 *)
moving ==
    CASE program = "ota" -> otaAllVars
      [] program = "espnow" -> espnowVars
      [] program = "spi" -> spiVars
      [] program = "prov" -> provVars
      [] program = "iperf" -> iperfVars
      [] program = "echo" -> echoVars
      [] program = "coap" -> coapVars
      [] program = "net" -> netVars
      [] program = "timer" -> timerVars

(* The k-th task of the program that runs goes on.                         *)
FairStep(k) ==
    /\ UNCHANGED program
    /\ \/ program = "ota" /\ OtaTask(k)
       \/ program = "espnow" /\ EspNowTask(k)
       \/ program = "spi" /\ SpiTask(k)
       \/ program = "prov" /\ ProvTask(k)
       \/ program = "iperf" /\ IperfTask(k)
       \/ program = "echo" /\ EchoTask(k)
       \/ program = "coap" /\ CoapTask(k)
       \/ program = "net" /\ NetTask(k)
       \/ program = "timer" /\ TimerTask(k)

(* A frame that is sent again and again is heard undamaged in the end.     *)
HeardInTheEnd(d) == UNCHANGED program /\ program = "espnow" /\ Heard(d, FALSE)

Spec ==
    /\ Init /\ [][Next]_all
    /\ \A k \in 1 .. 5 : WF_moving(FairStep(k))
    /\ \A d \in 1 .. 2 : SF_moving(HeardInTheEnd(d))

-----------------------------------------------------------------------------
(* Liveness.                                                               *)

\* The stations of connect.c and of iperf's cmd_wifi.c get back on line, however
\* often the network fails first: example_connect() returns, and after a join
\* no overlap of commands, losses and events leaves reconnecting off.
StationsReconnect ==
    /\ Connecting ~> ~Connecting
    /\ <>(program = "net" => netMain = "connected")
    /\ <>[](program = "iperf" => StationOnline)

\* espnow: broadcasts are repeated until they are heard, so a device turns to
\* unicast in the end, or one has given up after a send error.
SomeoneSends == <>(program = "espnow" => SomeSender)

\* The SPI link wedges for the three races only: else all data is sent and read.
AllTransferred == <>(program = "spi" => TransferDone)

\* softap_prov: g_prov is not kept for ever by a station with an address: it is
\* released, through the timer, the stop task and the event handlers, or the
\* station has lost the address again.
ProvEnds == Provisioned ~> ~Provisioned

\* iperf: the abort command comes back, though it polls a flag that another
\* task clears.
StopReturns == StopWaits ~> ~StopWaits

\* The clients of sockets and coap_client come back: an echo client that waits
\* without a timeout is answered, and the CoAP client ends, since each response
\* restarts its patience but the blocks are finite.
ClientsEnd ==
    /\ ClientWaits ~> ~ClientWaits
    /\ <>(program = "coap" => ClientEnded)

\* coap_server: an observer is told of every change in the end, although the
\* handlers notify before they change the value.
ObserverCatchesUp == []<>(program = "coap" => ObserverKnows)
=============================================================================
