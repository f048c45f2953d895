----------------------------- MODULE MCMdnsParts ------------------------------
(***************************************************************************)
(* Five parts of the mDNS component, for TLC: `part' names the one that is *)
(* looked at.  Each is a model of its own: the variables of the others     *)
(* stay as they were in one initial state.  The sixth part, the responder, *)
(* has runs of its own (MCMdnsResponder).                                  *)
(***************************************************************************)
EXTENDS MdnsSearch, MdnsLifecycle, MdnsTiebreak, MdnsWire, MdnsResults

VARIABLE part

all == <<part, searchVars, lifeVars, tieVars, wireVars, resultVars>>

(* Two services that share a protocol and the domain, one with a long type *)
(* and no TXT items; the packet has room for some of it.                   *)
LabelLengths == [local |-> 5] @@ ("_services" :> 9) @@ ("_dns-sd" :> 7) @@ ("_udp" :> 4)
    @@ ("host" :> 4) @@ ("inst" :> 4) @@ ("_printing-long" :> 14) @@ ("_web" :> 4)

Web == [instance |-> "inst", service |-> "_web", proto |-> "_udp",
        txt |-> <<[key |-> 2, value |-> 2], [key |-> 0, value |-> 1]>>]
Printing == [instance |-> "host", service |-> "_printing-long", proto |-> "_udp", txt |-> <<>>]

Question(parts) == [name |-> Append(parts, "local"), type |-> "ANY"]

HostLabel == "host"
Underscored == {"_services", "_dns-sd", "_udp", "_printing-long", "_web"}
TwoServices == {Web, Printing}
ThreeQuestions == {Question(<<"host">>), Question(<<"inst", "_web", "_udp">>),
                   Question(<<"host", "_printing-long", "_udp">>)}
StaleLengths == {{}, 1 .. 4}

(* Two boards with one name; the second has the higher addresses.          *)
Boards == 1 .. 2
Addresses == [h \in Boards |-> h]
Ports == [h \in Boards |-> 80]
TxtLens == [h \in Boards |-> 5]

(* Two instances of a service, and two of one that we offer too, one of     *)
(* which uses the name of our instance; a query or two of every kind.  A    *)
(* packet has one record, or an SRV of the first service and a record for   *)
(* the second; AAAA records come with the whole answer of a host only.      *)
Offer(i, s, h, t) == [instance |-> i, service |-> s, host |-> h, txt |-> t]
Query(type, name, service, max) ==
    [type |-> type, name |-> name, service |-> service, max |-> max]

FourOffers == {Offer("i1", "svc", "h1", TRUE), Offer("i2", "svc", "h2", FALSE),
               Offer("i1", "other", "h2", FALSE), Offer("i3", "other", "h2", TRUE)}
AllNames == {"i1", "i2", "i3", "svc", "other", "h1", "h2"}
OneInstance == "other" :> "i1"
QueryLists == {<<Query("PTR", None, "svc", 1), Query("A", "h1", None, 1)>>,
               <<Query("PTR", None, "svc", 2)>>, <<Query("PTR", None, "other", 2)>>,
               <<Query("SRV", "i1", "svc", 1), Query("TXT", "i1", "svc", 1)>>,
               <<Query("AAAA", "h1", None, 1)>>,
               <<Query("ANY", "i2", "svc", 2)>>, <<Query("ANY", "h1", None, 0)>>}
OffersOf(service) == {o \in FourOffers : o.service = service}
OneOrTwoRecords ==
    {<<Record(t, o)>> : t \in Types \ {"AAAA"}, o \in FourOffers}
    \cup {<<Record("SRV", o1), Record(t, o2)>> :
              t \in Types \ {"AAAA"}, o1 \in OffersOf("svc"), o2 \in OffersOf("other")}

ASSUME InstancesHaveOneOwner == OneOwner

(* Two tasks query, with an action queue that is shorter than what may be  *)
(* sent; one PCB, two rounds of mdns_init() and mdns_free().  A step of    *)
(* one part leaves the others alone.                                       *)
SearchOnly ==
    part = "search" /\ UNCHANGED <<part, lifeVars, tieVars, wireVars, resultVars>>
LifeOnly == part = "life" /\ UNCHANGED <<part, searchVars, tieVars, wireVars, resultVars>>
TieOnly == part = "tie" /\ UNCHANGED <<part, searchVars, lifeVars, wireVars, resultVars>>
WireOnly == part = "wire" /\ UNCHANGED <<part, searchVars, lifeVars, tieVars, resultVars>>
ResultsOnly ==
    part = "results" /\ UNCHANGED <<part, searchVars, lifeVars, tieVars, wireVars>>

(* The results have initial states with every list of queries.             *)
OneList == CHOOSE q \in Queries : TRUE

Init ==
    /\ SearchInit /\ LifeInit /\ TieInit /\ WireInit /\ ResultInit
    /\ part \in {"search", "life", "tie", "wire", "results"}
    /\ part # "results" => /\ up = RxPcbs
                           /\ searches = [k \in 1 .. Len(OneList) |-> query(OneList[k])]

Next ==
    \/ SearchOnly /\ SearchNext
    \/ LifeOnly /\ LifeNext
    \/ TieOnly /\ TieNext
    \/ WireOnly /\ WireNext
    \/ ResultsOnly /\ ResultNext

(* The variables of the part that goes on, and its k-th task.              *)
moving ==
    CASE part = "search" -> searchVars
      [] part = "life" -> lifeVars
      [] part = "tie" -> tieVars
      [] part = "wire" -> wireVars
      [] OTHER -> resultVars

FairStep(k) ==
    /\ UNCHANGED part
    /\ \/ part = "search" /\ SearchTask(k)
       \/ part = "life" /\ LifeTask(k)
       \/ part = "tie" /\ TieTask(k)

Spec == Init /\ [][Next]_all /\ \A k \in 1 .. 5 : WF_moving(FairStep(k))

-----------------------------------------------------------------------------
(* Liveness.                                                               *)

\* A task in mdns_query comes back, although it waits without a timeout and the
\* timer's action may find the queue full; unless an action left over has used
\* freed memory first.  The tasks are alike: one is watched.
QueryEnds == Querying(1) ~> (~Querying(1) \/ fault)

\* Two boards that start with one name end up announced under names of their
\* own, for good, through every order of starts, probes and answers.
NamesSettle == <>[](part = "tie" => NamesSettled)

\* mdns_free returns: the service task gets round to stopping, or is deleted.
FreeReturns == Freeing ~> ~Freeing
=============================================================================
