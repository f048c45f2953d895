------------------------------ MODULE Station ------------------------------
(***************************************************************************)
(* The Wi-Fi station of the examples (protocol_examples_common,            *)
(* connect.c): example_connect() starts the driver and blocks until the    *)
(* event loop has seen the addresses it waits for; every disconnection is  *)
(* answered by a new esp_wifi_connect().  The driver and the network are   *)
(* external: they connect, fail, and hand out addresses in any order.      *)
(* example_disconnect() has no caller in the repository.                   *)
(***************************************************************************)
EXTENDS Naturals, Sequences

CONSTANTS
    WaitForIpv6,   \* CONFIG_EXAMPLE_CONNECT_IPV6
    PreferGlobal,  \* EXAMPLE_CONNECT_PREFERRED_IPV6_TYPE
    MaxDrops       \* bound: how often the network fails or is lost

VARIABLES
    s_connect_event_group,  \* the bits set in the event group
    wifi,                   \* the driver: "off", "idle", "connecting", "up"
    addrs,                  \* addresses the interface has
    events,                 \* posted to the event loop, oldest first
    drops                   \* how often the network failed so far

stationVars == <<s_connect_event_group, wifi, addrs, events, drops>>

Addresses == {"ip4", "ip6_local", "ip6_global"}

CONNECTED_BITS == IF WaitForIpv6 THEN {"GOT_IPV4", "GOT_IPV6"} ELSE {"GOT_IPV4"}

StationInit ==
    /\ s_connect_event_group = {}
    /\ wifi = "off"
    /\ addrs = {}
    /\ events = <<>>
    /\ drops = 0

\* Everything above is RAM: a reset of the device clears it.
StationReset ==
    /\ s_connect_event_group' = {}
    /\ wifi' = "off"
    /\ addrs' = {}
    /\ events' = <<>>
    /\ UNCHANGED drops

\* start(): the first connection attempt.
start ==
    /\ wifi = "off"
    /\ wifi' = "connecting"
    /\ UNCHANGED <<s_connect_event_group, addrs, events, drops>>

\* The end of xEventGroupWaitBits(): all bits, cleared on exit.
example_connect_returns ==
    /\ CONNECTED_BITS \subseteq s_connect_event_group
    /\ s_connect_event_group' = s_connect_event_group \ CONNECTED_BITS
    /\ UNCHANGED <<wifi, addrs, events, drops>>

\* Mutant: the handler does not connect again.
on_wifi_disconnect_gaveUp ==
    /\ Head(events) = "STA_DISCONNECTED"
    /\ UNCHANGED <<s_connect_event_group, wifi, addrs>>

on_wifi_disconnect ==
    /\ Head(events) = "STA_DISCONNECTED"
    /\ wifi' = "connecting"
    /\ UNCHANGED <<s_connect_event_group, addrs>>

\* tcpip_adapter_create_ip6_linklocal(): the address comes later.
on_wifi_connect ==
    /\ Head(events) = "STA_CONNECTED"
    /\ addrs' = IF WaitForIpv6 THEN addrs \cup {"requested"} ELSE addrs
    /\ UNCHANGED <<s_connect_event_group, wifi>>

on_got_ip ==
    /\ Head(events) = "ip4"
    /\ s_connect_event_group' = s_connect_event_group \cup {"GOT_IPV4"}
    /\ UNCHANGED <<wifi, addrs>>

on_got_ipv6 ==
    /\ Head(events) \in {"ip6_local", "ip6_global"}
    /\ s_connect_event_group' =
         IF WaitForIpv6 /\ (PreferGlobal => Head(events) = "ip6_global")
         THEN s_connect_event_group \cup {"GOT_IPV6"}
         ELSE s_connect_event_group
    /\ UNCHANGED <<wifi, addrs>>

\* The event loop task runs the handlers registered for the oldest event.
EventLoop ==
    /\ events # <<>>
    /\ on_wifi_disconnect \/ on_wifi_connect \/ on_got_ip \/ on_got_ipv6
    /\ events' = Tail(events)
    /\ UNCHANGED drops

\* External: the access point accepts the station.
WifiUp ==
    /\ wifi = "connecting"
    /\ wifi' = "up"
    /\ events' = Append(events, "STA_CONNECTED")
    /\ UNCHANGED <<s_connect_event_group, addrs, drops>>

\* External: an attempt fails, or the access point is lost.
WifiDown ==
    /\ drops < MaxDrops
    /\ wifi \in {"connecting", "up"}
    /\ wifi' = "idle"
    /\ addrs' = {}
    /\ events' = Append(events, "STA_DISCONNECTED")
    /\ drops' = drops + 1
    /\ UNCHANGED s_connect_event_group

\* External: DHCP or router advertisement; IPv6 needs the link-local request.
GotAddress ==
    /\ wifi = "up"
    /\ \E a \in Addresses \ addrs :
         /\ a # "ip4" => "requested" \in addrs
         /\ addrs' = addrs \cup {a}
         /\ events' = Append(events, a)
    /\ UNCHANGED <<s_connect_event_group, wifi, drops>>

StationNext == EventLoop \/ WifiUp \/ WifiDown \/ GotAddress
============================================================================
