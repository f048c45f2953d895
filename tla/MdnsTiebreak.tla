----------------------------- MODULE MdnsTiebreak -----------------------------
(****************************************************************************)
(* Several boards with the same firmware join one link and claim the same   *)
(* names: the collision rules of src/mdns.c (_mdns_check_srv_collision and  *)
(* its companions), run by every host against the packets of the others.    *)
(*                                                                          *)
(* A host probes three times, announces three times and then answers        *)
(* probes.  A record for one of its own names is compared with its own      *)
(* record; the host that loses renames while it probes, and probes again    *)
(* when it had finished.  Each host has one PCB and one service.            *)
(*                                                                          *)
(* A name is the number of its suffix: 0 for the name as given.  Time       *)
(* passes in rounds of 250 ms, the interval of the probes.  In a round the  *)
(* hosts whose packet is due send it in any order and the packets cross     *)
(* freely; all of them arrive before the next round.                        *)
(*                                                                          *)
(* Operators named X_y (y a word for a fault) are faulty variants of X that *)
(* the mutation checks use; the specification does not.                     *)
(****************************************************************************)
EXTENDS Integers, Sequences, FiniteSets, SequencesExt

CONSTANTS
    Hosts,        \* the boards
    Ip4, Ip6,     \* [Hosts -> Nat]: their addresses, all different, as the bytes compare
    Port,         \* [Hosts -> Nat]: the service's port
    TxtLen,       \* [Hosts -> Nat]: length of the TXT data, 0 without items
    OwnInstance,  \* BOOLEAN: an instance name is set; else the host name serves as one
    MaxSuffix     \* bound: suffixes

ASSUME TieAssumption ==
    /\ Ip4 \in [Hosts -> Nat] /\ Ip6 \in [Hosts -> Nat] /\ Port \in [Hosts -> Nat]
    /\ TxtLen \in [Hosts -> Nat] /\ OwnInstance \in BOOLEAN /\ MaxSuffix \in Nat

VARIABLES
    st,     \* [Hosts -> [host, inst, step, svc, ip]]; step 0: off, 1 .. 3 probes, 4 .. 6, 7 running
    inbox,  \* [Hosts -> Seq(packets)]: packets on their way to a host
    due     \* [Hosts -> Nat]: rounds until the scheduled packet is due

tieVars == <<st, inbox, due>>

--------------------------------------------------------------------------------
(* "name" becomes "name-2", and "name-2" becomes "name-3".                  *)
mangle_name(n) == IF n = 0 THEN 2 ELSE n + 1

(* Characters the suffix adds to a name.                                    *)
suffixLen(n) == IF n = 0 THEN 0 ELSE IF n < 10 THEN 2 ELSE 3

probing(s) == s.step \in 1 .. 3

verdict(ours, theirs) == IF theirs > ours THEN 1 ELSE IF theirs < ours THEN -1 ELSE 0

(* -1: we win, 1: they win, 0: same.  The longer record wins; records of    *)
(* one length compare by port and then by the host name they point to.      *)
check_srv_collision(h, s, m) ==
    LET byLen == verdict(suffixLen(s.host), suffixLen(m.host))
        byPort == verdict(Port[h], m.port)
    IN IF byLen # 0 THEN byLen ELSE IF byPort # 0 THEN byPort ELSE verdict(s.host, m.host)

(* Our length is computed one too large: the same data count as a win, and  *)
(* when the lengths agree a byte that was never written is compared.        *)
check_txt_collision(h, m) ==
    IF m.txt = 0 THEN {IF TxtLen[h] # 0 THEN -1 ELSE 0}
    ELSE IF TxtLen[h] = 0 THEN {1}
    ELSE IF m.txt = TxtLen[h] + 1 THEN {-1, 0, 1}
    ELSE {verdict(TxtLen[h] + 1, m.txt)}

(* Mutant: any address but ours beats us.                                   *)
check_a_collision_anyOther(h, m) == IF m.ip4 = Ip4[h] THEN 0 ELSE 1
check_a_collision(h, m) == verdict(Ip4[h], m.ip4)

check_aaaa_collision(h, m) == verdict(Ip6[h], m.ip6)

--------------------------------------------------------------------------------
(* Probing starts over; while it runs, what is being probed for is kept.    *)
init_pcb_probe(s, svc, ip) ==
    [s EXCEPT !.step = 1,
              !.svc = svc \/ (probing(s) /\ s.svc),
              !.ip = ip \/ (probing(s) /\ s.ip)]

renameHost(s) ==
    LET n == mangle_name(s.host)
    IN init_pcb_probe([s EXCEPT !.host = n, !.inst = IF OwnInstance THEN @ ELSE n], TRUE, TRUE)

srv_record(h, s, m) ==
    IF m.inst # s.inst \/ check_srv_collision(h, s, m) <= 0 THEN s
    ELSE IF ~probing(s) THEN init_pcb_probe(s, TRUE, FALSE)
    ELSE IF OwnInstance
    THEN init_pcb_probe([s EXCEPT !.inst = mangle_name(@)], TRUE, FALSE)
    ELSE renameHost(s)

txt_record(s, m, col) ==
    IF m.inst # s.inst \/ col = 0 \/ probing(s) THEN s ELSE init_pcb_probe(s, TRUE, TRUE)

(* Mutant: a host that is running takes no notice.                          *)
addr_record_onlyProbing(s, m, col) ==
    IF m.host # s.host \/ col <= 0 \/ ~probing(s) THEN s ELSE renameHost(s)

addr_record(s, m, col) ==
    IF m.host # s.host \/ col <= 0 THEN s
    ELSE IF probing(s) THEN renameHost(s) ELSE init_pcb_probe(s, FALSE, TRUE)

(* The records of a packet, in their order; each is compared with the names *)
(* as the ones before it left them.                                         *)
records(h, s, m, txtCol) ==
    LET s1 == IF m.svc THEN srv_record(h, s, m) ELSE s
        s2 == IF m.svc /\ ~m.probe THEN txt_record(s1, m, txtCol) ELSE s1
        s3 == IF m.ip THEN addr_record(s2, m, check_a_collision(h, m)) ELSE s2
    IN IF m.ip THEN addr_record(s3, m, check_aaaa_collision(h, m)) ELSE s3

--------------------------------------------------------------------------------
packet(h, probe, svc, ip) ==
    [from |-> h, probe |-> probe, first |-> probe /\ st[h].step = 1, svc |-> svc, ip |-> ip,
     host |-> st[h].host, inst |-> st[h].inst, port |-> Port[h], txt |-> TxtLen[h],
     ip4 |-> Ip4[h], ip6 |-> Ip6[h]]

On(g) == st[g].step > 0
deliver(box, to, m) == [g \in Hosts |-> IF g \in to /\ On(g) THEN Append(box[g], m) ELSE box[g]]

(* Probing starts 120 to 247 ms from now: in this round or in the next.     *)
ProbeDelays == {0, 1}
AnnounceInterval == 4

(* The host name and the service are set and the interface comes up.        *)
Boot(h) ==
    /\ ~On(h)
    /\ st' = [st EXCEPT ![h] = [@ EXCEPT !.step = 1, !.svc = TRUE, !.ip = TRUE]]
    /\ \E d \in ProbeDelays : due' = [due EXCEPT ![h] = d]
    /\ UNCHANGED inbox

Sends(h) == On(h) /\ st[h].step < 7

(* Probes and announcements go out one by one.                              *)
tx_handle_packet(h) ==
    /\ Sends(h) /\ due[h] = 0
    /\ st[h].host <= MaxSuffix /\ st[h].inst <= MaxSuffix
    /\ inbox' = deliver(inbox, Hosts \ {h}, packet(h, probing(st[h]), st[h].svc, st[h].ip))
    /\ st' = [st EXCEPT ![h].step = @ + 1]
    /\ due' = [due EXCEPT ![h] = IF probing(st[h]) THEN 1 ELSE AnnounceInterval]

Tick ==
    /\ \A h \in Hosts : inbox[h] = <<>> /\ (Sends(h) => due[h] > 0)
    /\ \E h \in Hosts : Sends(h)
    /\ due' = [h \in Hosts |-> IF due[h] > 0 THEN due[h] - 1 ELSE 0]
    /\ UNCHANGED <<st, inbox>>

(* A probe for a name we hold, and did not just lose, is answered at once:  *)
(* to its sender alone when it was the first.                               *)
mdns_parse_packet(h) ==
    /\ On(h) /\ inbox[h] # <<>>
    /\ \E txtCol \in check_txt_collision(h, Head(inbox[h])) :
        LET m == Head(inbox[h])
            s == st[h]
            asksInst == m.svc /\ m.inst = s.inst
            asksHost == m.ip /\ m.host = s.host
            after == IF m.probe /\ ~asksInst /\ ~asksHost THEN s ELSE records(h, s, m, txtCol)
            reply == packet(h, FALSE, asksInst, asksInst \/ asksHost)
            answers == m.probe /\ (asksInst \/ asksHost) /\ after = s /\ s.step > 3
            rest == [inbox EXCEPT ![h] = Tail(@)]
        IN /\ st' = [st EXCEPT ![h] = after]
           /\ \E d \in ProbeDelays : due' = IF after = s THEN due ELSE [due EXCEPT ![h] = d]
           /\ inbox' = IF ~answers THEN rest
                       ELSE deliver(rest, IF m.first THEN {m.from} ELSE Hosts \ {h}, reply)

TieInit ==
    /\ st = [h \in Hosts |-> [host |-> 0, inst |-> 0, step |-> 0, svc |-> FALSE, ip |-> FALSE]]
    /\ inbox = [h \in Hosts |-> <<>>] /\ due = [h \in Hosts |-> 0]

Board(h) == Boot(h) \/ tx_handle_packet(h) \/ mdns_parse_packet(h)

TieNext == Tick \/ \E h \in Hosts : Board(h)

TieSpec == TieInit /\ [][TieNext]_tieVars

(* What goes on and on: time, and each board once it has something to do.   *)
TieTask(k) == (k = 1 /\ Tick) \/ (k - 1 \in Hosts /\ Board(k - 1))

--------------------------------------------------------------------------------
(* A collision makes the loser rename, never everybody: the board with the  *)
(* highest addresses keeps the host name it was given, through every order  *)
(* in which the boards start and their packets cross.                       *)
WinnerKeepsHost ==
    \A h \in Hosts : (\A g \in Hosts : Ip4[g] <= Ip4[h] /\ Ip6[g] <= Ip6[h]) => st[h].host = 0

(* The boards are announced, under names of their own.                      *)
NamesSettled ==
    /\ \A h \in Hosts : st[h].step = 7
    /\ \A g, h \in Hosts : g # h => st[g].host # st[h].host /\ st[g].inst # st[h].inst
================================================================================
