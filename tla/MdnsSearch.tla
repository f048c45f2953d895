------------------------------ MODULE MdnsSearch -------------------------------
(****************************************************************************)
(* Queries of the mDNS client in src/mdns.c.                                *)
(*                                                                          *)
(* A task in mdns_query allocates a search, hands it to the service task    *)
(* and waits, without a timeout of its own, for the search's semaphore.     *)
(* The timer task looks at the listed searches: it has a question sent      *)
(* again every second and ends a search whose time is over.  The service    *)
(* task executes these actions and adds the results of received packets; a  *)
(* search that has as many as it asked for ends at once.  The waiting task  *)
(* then frees the search, and its memory may serve the next query.          *)
(*                                                                          *)
(* The searches are named by the tasks that wait for them.  A received      *)
(* packet brings one result for each of a set of searches.  The parser may  *)
(* leave it early, at a record it cannot or need not read on from: the      *)
(* searches it has filled by then are not ended.  Time is kept as the age   *)
(* of a search, and the clock's wrap-around is left out.                    *)
(*                                                                          *)
(* Operators named X_y (y a word for a fault) are faulty variants of X that *)
(* the mutation checks use; the specification does not.                     *)
(****************************************************************************)
EXTENDS Integers, Sequences, FiniteSets, SequencesExt

CONSTANTS
    Tasks,        \* tasks that query
    Timeout,      \* the timeout they give, in ticks
    Resend,       \* 1000 ms, in ticks
    Limits,       \* max_results they give; 0: no limit
    QueueLength,  \* MDNS_ACTION_QUEUE_LEN
    MaxQueries,   \* bound: queries made
    MaxPackets    \* bound: packets received

ASSUME SearchAssumption ==
    Timeout \in Nat /\ Resend \in Nat /\ Limits \subseteq Nat /\ QueueLength \in Nat

VARIABLES
    search,       \* [Tasks -> mdns_search_once_t]
    search_once,  \* the listed searches, newest first
    queue,        \* action_queue
    waiting,      \* SUBSET Tasks: in xSemaphoreTake
    fault,        \* a freed search was used, or one listed twice: nothing more is said
    queries,      \* queries so far
    packets,      \* packets so far
    endedLate     \* history: the timer ended a full search behind a packet

searchVars == <<search, search_once, queue, waiting, fault, queries, packets, endedLate>>

Freed == [live |-> FALSE, state |-> "OFF", results |-> 0, max |-> 0, sem |-> 0,
          age |-> 0, unsent |-> 0]

SearchInit ==
    /\ search = [t \in Tasks |-> Freed]
    /\ search_once = <<>> /\ queue = <<>> /\ waiting = {}
    /\ fault = FALSE /\ queries = 0 /\ packets = 0 /\ endedLate = FALSE

--------------------------------------------------------------------------------
(* The querying task.  With the queue full it frees the search and returns  *)
(* an error.                                                                *)
search_init(max) == [Freed EXCEPT !.live = TRUE, !.state = "INIT", !.max = max]

mdns_query(t, max) ==
    /\ ~fault /\ t \notin waiting /\ queries < MaxQueries
    /\ Len(queue) < QueueLength
    /\ search' = [search EXCEPT ![t] = search_init(max)]
    /\ queue' = Append(queue, [type |-> "SEARCH_ADD", search |-> t])
    /\ waiting' = waiting \cup {t}
    /\ queries' = queries + 1
    /\ UNCHANGED <<search_once, fault, packets, endedLate>>

(* The semaphore is taken, the results are handed out, the search is freed. *)
QueryReturns(t) ==
    /\ ~fault /\ t \in waiting /\ search[t].sem = 1
    /\ search' = [search EXCEPT ![t] = Freed]
    /\ waiting' = waiting \ {t}
    /\ UNCHANGED <<search_once, queue, fault, queries, packets, endedLate>>

--------------------------------------------------------------------------------
(* The timer task: _mdns_search_run goes over the listed searches, under    *)
(* the lock.  What it wants of the service task for the search s.           *)
wants(s) ==
    IF s.state = "OFF" THEN "none"
    ELSE IF s.age > Timeout THEN "SEARCH_END"
    ELSE IF s.state = "INIT" \/ s.unsent > Resend THEN "SEARCH_SEND" ELSE "none"

send_search_action(type, t) == [type |-> type, search |-> t]

(* What becomes of the search s, whose action was sent or did not fit.      *)
run_search_lostEnd(s, sent) ==
    CASE wants(s) = "SEARCH_END" -> [s EXCEPT !.state = "OFF"]
      [] wants(s) = "SEARCH_SEND" ->
           [s EXCEPT !.state = "RUNNING", !.unsent = IF sent THEN 0 ELSE Resend]
      [] OTHER -> s

run_search(s, sent) ==
    CASE wants(s) = "SEARCH_END" -> [s EXCEPT !.state = IF sent THEN "OFF" ELSE "RUNNING"]
      [] wants(s) = "SEARCH_SEND" ->
           [s EXCEPT !.state = "RUNNING", !.unsent = IF sent THEN 0 ELSE Resend]
      [] OTHER -> s

search_is_done_ignoresNoLimit(s) == s.results >= s.max

search_is_done(s) == s.max # 0 /\ s.results >= s.max

(* A packet that will be read to its end waits in the queue.                *)
PacketAhead == \E k \in 1 .. Len(queue) : queue[k].type = "RX_HANDLE" /\ ~queue[k].cut

(* In the order of the list the actions are sent until the queue is full.   *)
_mdns_search_run ==
    /\ ~fault
    /\ search_once # <<>>
    /\ LET wanted == {k \in DOMAIN search_once : wants(search[search_once[k]]) # "none"}
           sent == {k \in wanted : Len(queue) + Cardinality({j \in wanted : j < k}) < QueueLength}
           at(K) == {search_once[k] : k \in K}
       IN /\ search' = [t \in Tasks |-> IF t \in at(wanted) THEN run_search(search[t], t \in at(sent))
                                        ELSE search[t]]
          /\ \E order \in SetToSeqs(sent) :
                /\ \A i, j \in DOMAIN order : i < j => order[i] < order[j]
                /\ queue' = queue \o [i \in 1 .. Len(order) |->
                       LET t == search_once[order[i]] IN send_search_action(wants(search[t]), t)]
          /\ endedLate' = (endedLate \/ (PacketAhead /\ \E t \in at(sent) :
                               wants(search[t]) = "SEARCH_END" /\ search_is_done(search[t])))
    /\ UNCHANGED <<search_once, waiting, fault, queries, packets>>

SearchTick ==
    /\ ~fault
    /\ search' = [t \in Tasks |->
           IF ~search[t].live THEN search[t]
           ELSE [search[t] EXCEPT !.age = IF @ =< Timeout THEN @ + 1 ELSE @,
                                  !.unsent = IF @ =< Resend THEN @ + 1 ELSE @]]
    /\ UNCHANGED <<search_once, queue, waiting, fault, queries, packets, endedLate>>

--------------------------------------------------------------------------------
(* The lwIP thread.  found: the searches the packet has a result for, none  *)
(* if it is a question; cut: the parser will not get to its end.            *)
_udp_recv(found, cut) ==
    /\ ~fault /\ packets < MaxPackets /\ Len(queue) < QueueLength
    /\ queue' = Append(queue, [type |-> "RX_HANDLE", found |-> found, cut |-> cut])
    /\ packets' = packets + 1
    /\ UNCHANGED <<search, search_once, waiting, fault, queries, endedLate>>

--------------------------------------------------------------------------------
(* The service task.                                                        *)
executes(type) == ~fault /\ queue # <<>> /\ Head(queue).type = type

(* The pointer in the action is used without a check; a search listed twice *)
(* would follow itself.                                                     *)
ExecSearchAdd ==
    /\ executes("SEARCH_ADD")
    /\ LET t == Head(queue).search
       IN /\ search_once' = <<t>> \o search_once
          /\ fault' = (~search[t].live \/ t \in Range(search_once))
    /\ queue' = Tail(queue)
    /\ UNCHANGED <<search, waiting, queries, packets, endedLate>>

(* Nothing but a packet on the wire: a search no longer listed is skipped.  *)
ExecSearchSend ==
    /\ executes("SEARCH_SEND")
    /\ queue' = Tail(queue)
    /\ UNCHANGED <<search, search_once, waiting, fault, queries, packets, endedLate>>

(* queueDetach(): the list without the searches D, in its order.            *)
detached(D) ==
    {q \in SetToSeqs(Range(search_once) \ D) :
       \A i, j \in DOMAIN search_once, k, l \in DOMAIN q :
         i < j /\ q[k] = search_once[i] /\ q[l] = search_once[j] => k < l}

(* The search leaves the list and its task is woken.                        *)
search_finish(s) == [s EXCEPT !.state = "OFF", !.sem = 1]

(* Here too the pointer is used without a check.                            *)
ExecSearchEnd ==
    /\ executes("SEARCH_END")
    /\ LET t == Head(queue).search
       IN /\ fault' = ~search[t].live
          /\ \/ /\ search[t].live
                /\ search' = [search EXCEPT ![t] = search_finish(@)]
                /\ search_once' \in detached({t})
             \/ ~search[t].live /\ UNCHANGED <<search, search_once>>
    /\ queue' = Tail(queue)
    /\ UNCHANGED <<waiting, queries, packets, endedLate>>

(* A result goes to a listed search that is not off and has room for it.    *)
search_result_add_whenOff(s) ==
    IF s.max = 0 \/ s.results < s.max
    THEN [s EXCEPT !.results = IF s.max = 0 THEN @ ELSE @ + 1] ELSE s

search_result_add(s) ==
    IF s.state # "OFF" /\ (s.max = 0 \/ s.results < s.max)
    THEN [s EXCEPT !.results = IF s.max = 0 THEN @ ELSE @ + 1] ELSE s

(* mdns_parse_packet, and _mdns_search_finish_done at its end: it ends all  *)
(* searches that are full, those that are off too.                          *)
ExecRxHandle ==
    /\ executes("RX_HANDLE")
    /\ LET found == Head(queue).found \cap Range(search_once)
           added == [t \in Tasks |-> IF t \in found THEN search_result_add(search[t])
                                     ELSE search[t]]
           done == {t \in Range(search_once) : ~Head(queue).cut /\ search_is_done(added[t])}
       IN /\ search' = [t \in Tasks |-> IF t \in done THEN search_finish(added[t]) ELSE added[t]]
          /\ search_once' \in detached(done)
    /\ queue' = Tail(queue)
    /\ UNCHANGED <<waiting, fault, queries, packets, endedLate>>

ServiceTask == ExecSearchAdd \/ ExecSearchSend \/ ExecSearchEnd \/ ExecRxHandle

SearchNext ==
    \/ \E t \in Tasks, max \in Limits : mdns_query(t, max)
    \/ \E t \in Tasks : QueryReturns(t)
    \/ _mdns_search_run \/ SearchTick
    \/ \E found \in SUBSET Tasks, cut \in BOOLEAN : _udp_recv(found, cut)
    \/ ServiceTask

SearchSpec == SearchInit /\ [][SearchNext]_searchVars

(* What runs again and again: the timer, time, the service task and the     *)
(* tasks that were woken.                                                   *)
SearchTask(k) ==
    \/ k = 1 /\ _mdns_search_run
    \/ k = 2 /\ SearchTick
    \/ k = 3 /\ ServiceTask
    \/ k - 3 \in Tasks /\ QueryReturns(k - 3)

--------------------------------------------------------------------------------
(* A packet the parser leaves early may fill a search without ending it.    *)
(* When the time of such a search runs out while another packet waits in    *)
(* the queue, that packet ends the search before the timer's action does,   *)
(* and the action is left over: it uses freed memory, or ends a later query *)
(* that got the same memory.  endedLate is this case; the properties below  *)
(* say what holds unless it has happened, QueryWaits is what it breaks.     *)

(* The timer task and the parser walk the list of searches: each is listed  *)
(* once, and the task that owns its memory is still waiting for it.  A      *)
(* search the timer ends is not ended by its results too while the action   *)
(* waits in the queue: the action never meets a freed search.               *)
SearchesLive ==
    \/ endedLate
    \/ /\ IsInjective(search_once)
       /\ \A k \in 1 .. Len(search_once) :
              search[search_once[k]].live /\ search[search_once[k]].sem = 0
       /\ ~fault
       /\ \A j \in 1 .. Len(queue) :
              queue[j].type = "SEARCH_END" => queue[j].search \in Range(search_once)

(* A query waits for answers until its time is over or it has as many       *)
(* results as it asked for.                                                 *)
QueryWaits ==
    \A t \in Tasks : search[t].sem = 1 =>
        search[t].age > Timeout \/ (search[t].max # 0 /\ search[t].results = search[t].max)

(* A query ends when its time is over or it has all the results it asked    *)
(* for, never because of an action left over from an earlier query.         *)
EndedForReason == endedLate \/ QueryWaits

(* A task is in mdns_query.                                                 *)
Querying(t) == t \in waiting
================================================================================
