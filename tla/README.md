# A TLA+ verification project for nim-esp8266-sdk

The repository wraps Espressif's ESP8266 RTOS SDK for Nim. Most of it is the
vendored SDK (`vendor/`), bindings and build files. What it has of its own, with
state that can go wrong, is in `src/`: a key-value store written in Nim
(`nvs.nim`), `esp_timer` on top of FreeRTOS timers (`timer.nim`), and a fork of
the mDNS responder (`mdns.c`, `mdns_networking.c`). These are modelled here, and
so are the example programs (`examples/`) that have concurrency, failure or a
protocol of their own. `PROJECT.json` maps every definition to the lines it
models; paths below are relative to the repository.

## 1. Inventory

| Component | State | Operations | Model |
|---|---|---|---|
| Key-value store, `src/nvs.nim` | flash pages (header, entry table, entries), RAM cache, namespace handles | `nvs_flash_init`, `nvs_flash_erase`, `nvs_open`, setters, getters, `nvs_erase_key`, `nvs_erase_all`, `nvs_commit` | `Nvs`, `NvsClient`, `NvsProofs` |
| esp_timer, `src/timer.nim` | `esp_timer_obj` (memory, state), FreeRTOS timer, timer command queue | create, start_once, start_periodic, stop, delete, the callback | `EspTimer`, `EspTimerProofs` |
| mDNS responder, `src/mdns.c` | host and instance names, service list, one PCB per interface and protocol, scheduled packets, action queue | API calls, events, received packets, `_mdns_execute_action`, `_mdns_scheduler_run` | `MdnsResponder`, `ResponderProofs` |
| mDNS name conflicts | names and probe state of several boards on one link | probe, tie-break, rename | `MdnsTiebreak`, `MdnsProofs` |
| mDNS interfaces, `src/mdns_networking.c` | PCBs, shared socket, IGMP groups | enable, disable, duplicate interface, receive | `MdnsResponder`, `MdnsLifecycle`, `ResponderProofs` |
| mDNS queries | list of running searches, their results, a semaphore each | `mdns_query`, `_mdns_search_run`, SEARCH_ADD/SEND/END; `_mdns_search_result_add_*` | `MdnsSearch`, `MdnsResults`, `MdnsProofs`, `ResultsProofs` |
| mDNS life cycle | service task, timer, server object, event handlers | `mdns_init`, `mdns_free` | `MdnsLifecycle`, `MdnsProofs` |
| mDNS wire format | a packet buffer and its fill level | append, dispatch, read names and records | `MdnsWire`, `WireProofs` |
| Native OTA, `examples/system/ota/native_ota` | OTA partitions, otadata, HTTP parser | connect, download, write, verify, select, restart | `Ota`, `AtomicUpdate`, `ProgramProofs` |
| Wi-Fi station helper, `examples/common_components` | event group, driver, addresses | `example_connect`, event handlers | `Station` |
| ESP-NOW, `examples/wifi/espnow` | send parameters, event queue, peers, per device | task, send and receive callbacks | `EspNow`, `ProgramProofs` |
| SPI link, `examples/peripherals/spi/high_performance` | stream buffers, lengths, handshake line | interrupt handlers and tasks of master and slave | `SpiLink`, `ProgramProofs` |
| softAP provisioning, `examples/provisioning/legacy/softap_prov` | `g_prov`, stored credentials, HTTP service, timer | start, configure, status, events, stop task | `Prov`, `ProgramProofs` |
| iperf, `examples/wifi/iperf` | `s_iperf_ctrl`, buffers, station | console commands, traffic and report tasks | `Iperf`, `ProgramProofs` |
| Socket echo, `examples/protocols/sockets` | sockets, connections, datagrams | TCP and UDP server and client | `Echo`, `ProgramProofs` |
| CoAP, `examples/protocols/coap_*` | block requests, the server's value, its observer | response handler, wait loop, GET/PUT/DELETE handlers | `Coap`, `ProgramProofs` |
| RTOS and peripheral bindings, build configuration, stubs, other examples, vendored SDK | none of their own | | not modelled |

`Loop` and `LoopProofs` serve several of them: a loop over a list, and induction
over its rounds.

**How they interact.** The store is called by application tasks and by the PHY
start-up code and drives `spi_flash_*`. `esp_timer` calls send commands to the
FreeRTOS timer task, which runs the callbacks; callbacks call `esp_timer`
again, from the task that empties the queue. The mDNS module has its own
service task, which takes actions from a bounded queue. API calls, network
events, the receive callback and the periodic timer put actions there. The
list of services, the scheduled packets and the searches are shared between
the callers, the timer and the service task. Each example is the application
of a device of its own; within it, tasks, the event loop, driver callbacks and
interrupt handlers share global variables, and its peers are reached over a
radio, a bus or a network.

**What is hard here, and which property is about it.**

* *Power loss*: in the store a write is several flash operations: header, data,
  table words, page headers (`ItemsWhole`, `AtMostOneActive`). `writeItem` and
  `compactPage` call each other (`CallsReturn`), and a compaction leaves two
  copies of an item (`CopiesAgree`). An update over the air erases, writes,
  checks and selects a partition (`UpdateIsAtomic`).
* *Addressing* (`nvs.nim`): the table word is found by a division
  (`CommittedIsStored`), namespaces are told apart by an index
  (`AbsentIsNotFound`).
* *Interleaving* (`timer.nim`): a call, the queued command, and a callback that
  reads the state after the user's function has returned (`StopIsFinal`,
  `NoUseAfterFree`, `OsTimerFreed`).
* *Delayed actions* (`mdns.c`): a pointer is checked when an action is queued
  and used later (`ServicePointersLive`, `ProbeListSound`, `PacketsSound`).
* *Full queue, wrap of the clock* (`mdns.c`): a packet marked as handed over
  must have its action (`QueuedHasAction`), a probing PCB its packet
  (`ActivePcbHasPacket`), and it must get on (`RunningEventually`).
* *Protocol* (`mdns.c`): no record is sent for a name that was not probed
  (`NoUnprobedAnswer`); two boards with one name must part
  (`WinnerKeepsHost`, `NamesSettle`).
* *Time-out against late result* (`mdns.c`): a search lives in memory of the
  waiting task and is ended by its results or by the timer (`SearchesLive`,
  `EndedForReason`, `QueryWaits`, `QueryEnds`); the records of one answer must
  not be spread over searches (`ResultsTrue`, `AnswerTakenWhole`).
* *A packet that fills up* (`mdns.c`): a failed append is not rolled back
  (`NoOverrun`, `ReadBack`).
* *Stopping under way*: `mdns_free` against four other contexts (`NobodyLeft`,
  `FreeReturns`), the stop task of provisioning against event and request
  handlers (`ProvDataLive`, `ProvEnds`), the abort command of iperf
  (`BufferOwned`, `StopReturns`).
* *State reported while it changes*: `StatusTruthful` (provisioning),
  `ObserverCatchesUp` (CoAP).
* *An unreliable peer*: lost, damaged, doubled and late messages or pieces of
  them (`WrittenIsImage`, `OneSender`, `SomeoneSends`, `EveryByteOnce`,
  `BlocksNoGap`, `ClientsEnd`), lost connections (`StationsReconnect`), buffers
  that are full when an interrupt comes (`BlocksInOrder`, `AllTransferred`).

`PROJECT.json` lists the hazards line by line, with those not covered.

## 2. Modules

### Nvs, NvsClient

A flash cell is the set of its bits that are still 1: programming intersects,
erasing fills. So writing over an entry that is not blank, or a table word
whose RAM copy is older, does in the model what the chip does. Keys, types,
namespace indices, spans, values and state words are such sets.

One step is one `spi_flash_write` or `spi_flash_erase_sector` with the
computation before it; `PowerLoss` may fall between any two. `pc` is the flash
operation that comes next, `job` holds the arguments of the running
`writeItem`, `loc` its locals, and `comp` is the stack of `writeItem` calls
suspended in a compaction. RAM (cache and handles) is lost with the power, the
flash is not; `Boot` is `nvs_flash_init`.

Two things differ from what one expects and are in the model as the code does
them. The word of the entry table is `targetEntryIdx div 4` although a word
has 16 entries. A data entry (the tail of a blob) can be read as an item
header by loops that do not know where items start: what such bytes read as is
the set `DataSpans`; a span has the seven bits the code leaves it.

`NvsClient` adds a history variable, `shadow`: what the values of each
namespace, type and key may be, from the calls made and what they returned. A
call that was interrupted may have left the old value, the new one or none.

### EspTimer

A call of the interface is two steps, sending the command and storing the
state (or freeing the object), by an application task or by a callback in the
timer task. The timer task takes a command, or lets an armed timer expire, runs
the user's callback, then reads the state and sends its own command. The
FreeRTOS timer and its queue (`xTimerQueue`) are external: modelled from how
`timer.nim` uses them (a send waits for room; commands are handled in order).
`uaf` records an access to freed memory. Its names begin with `Timer` where
`MCPrograms`, which checks it beside the example programs, has others like them.

### MdnsResponder

The state of the server and its PCBs is a record that pure operators transform
(`schedule`, `dispatch`, the probe, announce and answer procedures), named for
the functions of `mdns.c`. An API call or an event queues an action; one action
executed by the service task is one step, since it holds the service lock.
`_mdns_scheduler_run` is the timer callback and `Tick` is time: a packet is due
after its delay, and its order in the list is the unsigned comparison of
`send_at`, with a clock that wraps after `WrapAt` ticks (0: never). A received
packet is what it says about our names: a question for a shared record (answered
after a delay) or for a unique one (answered at once), a known answer, or a
record that conflicts. `fault` is set when an action
uses a service that is gone; nothing is said of what follows.

`probes` and `wire` are history: how often a name was probed on a PCB, and
which records the last step sent. `probes` is `CutShort` for a name whose
probing was given up: a new default instance name empties the probe lists and
probes again only for the services that take it.

What a loop of the code over the packets or the PCBs does is stated at once
where its rounds are independent, and as `Loop` where they are not: the body is
an operator, and `loop` the value after n rounds. `MdnsResults` and `MdnsWire`
use it too.

### MdnsSearch, MdnsResults

`MdnsSearch`: each task has memory for one search (allocated by `mdns_query`,
freed when it returns, so that a later query may get the same address). The
timer sends SEARCH_SEND or SEARCH_END actions, the service task executes them
and adds the results of received packets. Time is the age of the search and of
its last question. A packet is `cut` if the parser leaves it early, at one of
four places (mdns.c:2712, 2724, 2949, 2995; a well-formed record whose name
ends in neither `.local` nor `.arpa` is enough): the results before that place
have been added, and the searches they fill are not ended. The next packet that
is read to its end does that, whatever their state is by then. `endedLate` is
history: the timer has sent a SEARCH_END for a full search although such a
packet was ahead of it in the queue.

`MdnsResults` looks at what a result contains: the parser hands each record of
a response to the first listed search it matches, a PTR search puts records of
several types together, and a later question lists the instances that are known.
Offers, the services on the network, say the truth about themselves. A packet
has any of the record sequences in `Responses`, of one offer or several, or is
the answer of one host, in the order a responder of this code gives. The
parser may leave it early. A record with a name of ours (`name_is_ours`: our
host name, a service type of ours, or our instance of it) selects no search and
is kept for the one the record before it selected, as in the code. `taken` is
history: the offers whose whole answer met the newest search, one for their
service with room for them.

### MdnsWire

The buffer of a packet is a function from offsets to the items that start
there (label, compression pointer, fixed fields, address, text), with the
code's sizes. The append functions, `_mdns_append_fqdn` with its search for a
suffix already written, and `_mdns_dispatch_tx_packet` are translated with
their limits and error returns; `_mdns_read_fqdn` and the record loop of
`mdns_parse_packet` read the result. The uninitialised local in
`_mdns_append_fqdn` and the stale bytes behind the packet are free choices.

### MdnsTiebreak

Several instances of the responder, each reduced to one PCB and one service:
what a probe says, the comparison of SRV, TXT, A and AAAA records, the rename
and the restart of the probes. Rounds of 250 ms are the interval of probes;
inside a round the sends and receipts interleave freely.

### MdnsLifecycle

`mdns_init` and `mdns_free` step by step, with each failure of the former, the
service task, the timer callback with its two halves, the event loop, the lwIP
thread (PCBs come and go through it), and packets by address, so that a second
free shows.

### Ota, Station, AtomicUpdate

`Station` is `connect.c`: driver events in a queue, the handlers, the bits
`example_connect` waits for. `Ota` extends it with the OTA task: the stream is
handed over in pieces cut anywhere, the parser looks for Content-Length and
for the end of the header as the code does, and the part of the body that
belongs to the update partition is written. The server may close early or
publish a new version; every call may fail; power may be lost anywhere. On
reset the bootloader (external) starts the partition otadata names.
`AtomicUpdate` is what is promised: one variable, the installed version, which
only grows. `Installed` (in `Ota`), the version of the complete image in the boot
partition, is the refinement mapping.

### EspNow, SpiLink, Prov, Iperf, Echo, Coap

Each has one action per handler, callback or blocking step of a task, with the
program's globals as variables.

* `EspNow`: two devices. The Wi-Fi task calls back into a bounded queue; frames
  are lost or damaged.
* `SpiLink`: master and slave, both builds of the example. A block is 64 bytes
  and carries its number; interrupts are pending flags and may fall between any
  two steps of a task.
* `Prov`: event loop, HTTP server, timer service and the stop task at the
  lowest priority share `g_prov`. The credentials survive a restart.
* `Iperf`: console, traffic task, report task and event loop. An allocation or
  the creation of a task may fail.
* `Echo`: TCP hands over any piece of what was sent, UDP loses, doubles and
  reorders. An error takes the path out of the inner loop that the code takes.
* `Coap`: the client against a network like that, and the server with an
  observer.

### MCPrograms, MCMdnsParts

The programs and `esp_timer` run on devices of their own and the five parts of
mDNS are models of their own, so `program` (or `part`) is chosen in the initial state
and never changes. An MC module extends the component modules: it has their
variables, and a step is a step of the chosen one that leaves the variables of
the others alone, as they were in one initial state. The actions and the
invariants are those of the component modules, unchanged, and the invariants
are the ones the theorems of section 4 are about. (The station that waits for
IPv6, `net`, is a second instance of `Station`.) What TLC checks is the sum of
the separate state spaces. The temporal formulas are in the MC module.

## 3. Runs

| Run | Checks | Result |
|---|---|---|
| `NvsPower` | `TypeOK`, `AtMostOneActive`, `ItemsWhole`, `CallsReturn` with one power loss before any flash operation | holds |
| `NvsCopies` | `CopiesAgree` without power loss | holds |
| `NvsCommit` | `CommittedIsStored` | **violated**: the fifth item of a page is never entered in the table |
| `NvsNamespaces` | `AbsentIsNotFound` | **violated**: all new namespaces get index 10 |
| `EspTimerDelete` | `NoUseAfterFree` | **violated**: deletion while the callback is in progress |
| `MdnsConflicts` | `ProbeListSound`, `PacketsSound`, `QueuedHasAction`, `NoUnprobedAnswer` | holds |
| `MdnsInterfaces` | `ActivePcbHasPacket`, `RunningEventually` | holds |
| `MdnsServicePointers` | `ServicePointersLive` | **violated**: a service removed between lookup and action |
| `MdnsClockWrap` | `QueuedHasAction` with a clock that wraps | **violated**: unsigned comparison of times |
| `MdnsSearchEnd` | `QueryWaits` | **violated**: a SEARCH_END that is left over ends a later query at the same address |
| `MdnsParts` | `SearchesLive`, `EndedForReason`, `QueryEnds` (queries); `ResultsTrue`, `AnswerTakenWhole` (results); `NoOverrun`, `ReadBack` (encoding); `WinnerKeepsHost`, `NamesSettle` (two boards); `NobodyLeft`, `FreeReturns` (life cycle) | holds |
| `Programs` | `StopIsFinal`, `OsTimerFreed` (`esp_timer`); `WrittenIsImage`, `UpdateIsAtomic` (OTA); `StationsReconnect` (OTA, iperf); `OneSender`, `SomeoneSends` (ESP-NOW); `BlocksInOrder`, `AllTransferred` (SPI); `ProvDataLive`, `StatusTruthful`, `ProvEnds` (provisioning); `BufferOwned`, `StopReturns` (iperf); `EveryByteOnce`, `ClientsEnd` (echo); `BlocksNoGap`, `ClientsEnd`, `ObserverCatchesUp` (CoAP) | holds |

The violations are findings about the code; each is described in
`PROJECT.json` with the sentence of the documentation or comment it contradicts.

`UpdateIsAtomic` is the specification `AtomicUpdate`: every step of the update
program is an update to a version that is not older, or a stutter. It implies
that the boot partition holds a complete image in every reachable state.

### What the properties except

Some properties that hold name a case they leave out, because the code does not
guard against it. These are worth knowing in their own right:

* `StopIsFinal` allows one callback after `esp_timer_stop` has returned: one
  that was due or in progress when the command was queued. `OsTimerFreed`
  excepts a timer task that waits for room in its own queue, which
  `portMAX_DELAY` makes possible when callbacks fill it.
* `ItemsWhole`: data entries (of blobs) whose third byte reads as a span of 2 or
  more. `compactPage` moves such an entry as an item, together with entries
  that are not its own, and a header among them arrives without its data
  (nvs.nim:346).
* `ProbeListSound`, `PacketsSound`, `NoUnprobedAnswer`: a conflict that was
  received on an interface and is handled after the interface was closed. It
  makes the closed PCB probe, and nothing that removes a service looks at such
  a PCB (mdns.c:2860). The runs have conflicts or closed interfaces; all inputs
  together reach the case.
* `NoUnprobedAnswer`: names whose probing a new default instance name cut short
  (`CutShort`, mdns.c:1774), and what is sent before there is a host name.
* `ActivePcbHasPacket`: the PCBs that are open, which are those that send.
* `SearchesLive`, `EndedForReason`: `endedLate`. A search that an early-left
  packet filled stays listed and running. If its time runs out while another
  packet waits in the queue, that packet ends it, its task frees it, and the
  SEARCH_END behind the packet uses freed memory or ends the query that got
  the memory next. `QueryWaits` is `EndedForReason` without the exception, and
  `MdnsSearchEnd` shows it violated. Before the exception applies, and in every
  run in which no packet is left early, both hold.
* `ResultsTrue`: records with a name of ours (`strays`, mdns.c:2746). They bring
  instances of a service that we offer too, and the SRV and TXT of our own
  instance (said by whoever uses its name), into a search for something else,
  and our host name into one for ANY. No search for an address is concerned,
  and no name that is not ours.
* `AnswerTakenWhole`: the addresses of a host are required in one of its
  instances only; the code adds them to the first result of the host. Of a host
  that uses our host name one address is required, and nothing of an instance
  with the name of one of ours.
* `NobodyLeft` (`mdns_free`): a timer callback already under way when the timer
  is stopped (`late`, mdns.c:4046) and a service task that is deleted because
  the stop action finds the queue full (`killed`, mdns.c:4104) may meet freed
  memory.
* `WinnerKeepsHost`, `NamesSettle`: boards whose IPv4 and IPv6 addresses
  compare the same way. Where they disagree each board loses one comparison
  and both rename for as long as they meet.
* `WrittenIsImage`: a Content-Length that is cut by the end of a message.
* `BlocksInOrder`, `AllTransferred`: three races of the slave's task with its
  interrupt handler (`races`).
* `StatusTruthful`: the first request, unless an event is handled between
  `esp_wifi_connect` and the reset of the state (`overtaken`).
* `BufferOwned`: a run whose task could not be created (`starved`).
* `BlocksNoGap`: that no block is missing; one shown twice is not told apart from
  one shown once.
* `ClientsEnd`: an echo client whose datagram was lost or whose connection
  broke waits for ever, since its `recv` has no timeout.

### Bounds

* `NvsPower`, `NvsCopies`: three pages of three entries; a word of the table
  covers two entries and a byte one. Entry 0 stands for the entries whose word
  index is right, entry 1 for those whose index is wrong but in the table, and
  entry 2 for those past it. Pages fill after one blob or three small items, so
  page changes, compaction and nested compaction happen; `MaxSeq` = 4 starts no
  write once a fourth page header was written, which is once around the three
  pages. `MaxDepth` = 3 nested compactions is never reached
  (`CallsReturn` would fail).
* `NvsCommit` has the real words of four bytes with four entries each, and two
  of them; `NvsNamespaces` the real geometry of 8 pages of 126 entries.
* `EspTimerDelete`: one timer and a queue that does not fill.
* `MdnsResponder`: one to three PCBs, two services, queues of two or three
  actions, three or four inputs; delays of one or two ticks keep the order of
  the probe and announce intervals. A conflict needs a name, a service, a
  packet and one more input, which is four.
* `MdnsSearchEnd`: one task, two queries (its memory is used again), two
  packets, a queue of two.
* `MdnsParts`. Queries: two tasks, two queries by the same or different tasks
  (an address is used again), two packets, one of which may fill a search and
  be left early and the other end it, a queue of two, a time-out of one tick and
  a question after every tick.
  Encoding: packets of 72 bytes with up to three entries out of two services
  and three questions, so that any append may be the one that fails, and names
  share suffixes. Boards: two, suffixes up to 5. Life cycle: two starts, one
  PCB, a queue of two and one packet, so that the queue is full when the stop
  action is sent. Results: four offers on two hosts, one of which uses the
  instance name of another service, one the name of our instance and one our
  host name; two PCBs; packets of one record, or of an SRV of the one service and
  a record of the other, cut or not, and the whole answer of a host (the only one
  with AAAA records here); seven lists of queries of every type.
* `Programs`. `esp_timer`: two timers, three calls, a queue of two, so that the
  queue is full in reachable states; each timer fires up to twice after a call,
  one more than `StopIsFinal` allows. OTA: images of 4 units behind a header of 6, read in pieces of up
  to 3, so that every boundary is cut in every way; two versions, one power
  loss, one failure of the network, IPv4 only; `net`, the station alone, waits
  for a global IPv6 address too, through two failures. ESP-NOW: queue of 2, two unicast frames,
  equal and different magic numbers. SPI: buffers of 4 blocks, writes of 2,
  12 blocks in all, which fills both buffers of a direction (the 32-bit total
  does not wrap). Provisioning: two
  requests, two failures, one restart. iperf: three commands, runs of two
  intervals, one loss of the access point. Echo: messages of 2 bytes and a
  buffer of 3, two faults. CoAP: three blocks, two faults, two changes.

`MdnsConflicts` uses the symmetry of the two services: no action and no
invariant tells them apart, and the run has no temporal property.

Deadlock is checked where the system never stops (`Nvs`). The other runs bound
the number of inputs or calls, or model programs whose tasks end; when nothing
is left to do, the system stops.

### Fairness

* `Nvs`: `WF(Step)`: the processor executes a call that was made. Power loss
  and new calls are not fair.
* `esp_timer` (`TimerTask`): the FreeRTOS scheduler runs a task that is ready:
  weak fairness of the timer task and of the two steps of a call. Calls are not
  fair.
* `MdnsResponder`: the service task loops on `xQueueReceive`, so an action at
  the head of the queue is taken; the timer is periodic, and time passes.
  Inputs are not fair.
* `MdnsParts`, `Programs`: `FairStep(k)` is the k-th task of the part or program
  that was chosen (in the component's module: `SearchTask`, `OtaTask`, ...),
  each weakly fair on its own: the preemptive scheduler runs a task that stays
  ready, drivers deliver their interrupts and events, a timer that was started
  expires, and a connected network delivers what it does not lose. The faults
  (losses, failures, power loss, early close) are never fair and their number
  is bounded, except for ESP-NOW frames, which may be lost or damaged without a
  bound. There, `HeardInTheEnd` is strongly fair: a frame that is broadcast
  again and again is heard undamaged in the end. Without it no radio protocol
  gets anywhere.

## 4. Proofs

Eight modules hold the proofs, each about the modules it extends, without the
bounds of the runs. The constants keep only their named assumptions. An
inductive invariant was first checked by TLC on the instance of the run that
checks the property, then proved with one lemma per action.

| Module | Theorem | States |
|---|---|---|
| `NvsProofs` | `TypeCorrect` | `Spec => []TypeOK` |
| | `OneActivePage` | `Spec => []AtMostOneActive` |
| | `VisibleItemsAreWhole` | `DataIsShort` gives `Spec => []ItemsWhole` |
| `EspTimerProofs` | `StopEndsTimer` | `TimerSpec => []StopIsFinal` |
| `ResponderProofs` | `ActivePcbsGoOn` | `Spec => []ActivePcbHasPacket` |
| | `ProbeListsAreSound`, `PacketsAreSound`, `AnswersAreProbed` | `NoLateConflict` gives `Spec => []ProbeListSound`, `[]PacketsSound`, `[]NoUnprobedAnswer` |
| `ResultsProofs` | `ResultsAreTrue` | `ResultSpec => []ResultsTrue` |
| | `AnswersAreTakenWhole` | `OneOwner` gives `ResultSpec => []AnswerTakenWhole` |
| `WireProofs` | `EncoderStaysInside` | `WireSpec => []NoOverrun` |
| `MdnsProofs` | `WinnerKeepsItsHost` | `SameFirmware /\ TieSpec => []WinnerKeepsHost` |
| | `NobodyIsLeft` | `LifeSpec => []NobodyLeft` |
| | `SearchesAreLive`, `QueriesEndForReason` | `SearchSpec => []SearchesLive`, `[]EndedForReason` |
| `ProgramProofs` | `OtaWritesImage` | `OtaSpec => []WrittenIsImage` |
| | `OtaIsAtomic` | `OtaSpec => UpdateIsAtomic`: the refinement of `AtomicUpdate` |
| | `OnlyOneSender` | `EspNowSpec => []OneSender` |
| | `BlocksAreInOrder` | `SpiSpec => []BlocksInOrder` |
| | `ProvDataIsLive`, `StatusIsTruthful` | `ProvSpec => []ProvDataLive`, `[]StatusTruthful` |
| | `BufferIsOwned` | `IperfSpec => []BufferOwned` |
| | `NoGapInBlocks` | `CoapSpec => []BlocksNoGap` |
| | `EachByteOnce` | `EchoSpec => []EveryByteOnce` |
| `LoopProofs` | `LoopStays` | what every round of a loop keeps, the loop keeps |

What a theorem says is what the property of the run says (section 3), with the
cases it excepts, for every value of the constants.

### Assumptions

Most say that a size or a count is a natural number, which the code's unsigned
types and array sizes are. Those that say more:

* `GeometryAssumption`, `InputAssumption` (`Nvs`): at least two pages; bytes
  and words hold whole entries; keys are not the empty bit pattern.
* `DataIsShort` (a hypothesis of `VisibleItemsAreWhole`): the third byte of a data
  entry reads as a span of 0 or 1, or no page is compacted. Without it the
  property is false (section 3).
* `NoLateConflict` (a hypothesis of three theorems of `ResponderProofs`): the
  inputs have no conflicts, or no interface is closed and none gets an address
  of another network. Without it they are false (section 3).
* `MdnsAssumption`: the list of PCBs has each once; the services are finitely many,
  and none has the name of the host.
* `ResultAssumption`: a query is made; offers, packets and queries are well formed.
  `OneOwner` (a hypothesis of `AnswersAreTakenWhole`): two hosts do not offer one
  instance, which is what they probe for.
* `WireAssumption`: each name, text and question is of a length; there is room
  for a packet's header.
* `EspTimerAssumption`: the timer queue has room for a command.
* `EspNowAssumption`: `CONFIG_ESPNOW_SEND_COUNT` ranges from 1 (Kconfig).
* `OtaAssumption`: there is an image, the header has a Content-Length line and
  an end, and the receive buffer holds something and no more than an image.
* `SpiAssumption`: the ring buffers hold a block (they hold 64).
* `SameFirmware` (a hypothesis of `WinnerKeepsItsHost`): the boards offer their
  service on one port, or have set an instance name. SRV records are compared
  by port before the addresses are, so a board with a lower port loses its
  instance name, and its host name with it when it has set none, whatever its
  addresses.

The bounds that only cut the state space (`MaxBlocks`, `MaxLosses`, ...)
need no assumption where they occur in guards alone.

### Arguments

* **Nvs.** `AtMostOneActive` is not inductive: `initializePage` makes a page
  active two steps after `writeItem` decided to, and `compactPage` nests
  further writes in between. `IInv` adds the types of flash, RAM, locals and
  suspended calls, and two facts. `Initializing`: while a page is being
  initialized no page is active. `Writing`: from there until `writeItem`
  returns, the page it writes to is the active page. Lemmas for the operators:
  the index arithmetic of table words (`Indices`), programming of states and
  cells (`NorStates`, `NorCells`), `findActivePage`, `findConsecutiveEntries`
  and `findItem`. `LeastOf`, from well-foundedness of the naturals, gives the
  least page and entry a search loop stops at.
  For whole items `WInv` adds what user data looks like as a header (`DataLike`:
  nothing but data keeps that look when it is programmed over) and that an item
  the table shows, or the table about to be programmed will show, has its data.
  In between its header is there and its data is not (`Half`), and the table
  that a compaction works from still excludes it (`FrameWhole`).
* **Responder.** `RInv` is a conjunction over the PCBs, so that what a loop over
  them does to one PCB is proved for that PCB alone. A PCB that probes asks, in
  its only packet, for just the names on its list (`ProbeOk`); one that does not
  asks for none and has no list (`ListOk`); one that announces has a packet that no
  known answer empties (`AnnounceOk`). Lists and packets hold registered
  services (`PointersOk`), and a name is being probed, with as many probes sent
  as the state of the PCB says, or was (`NamesOk`). For the queue: a conflict
  waits there only while its PCB is open (`ActionOk`). In the middle of an
  action the services and the names the conjuncts speak of are parameters: a
  service that goes is first unlisted, then removed.
* **Results.** A result only gains (`Gained`): what is added to one never contradicts
  what is there, since records are matched by the name they are about, or have a
  name of ours, which the property excepts. `Fits`: the search a record is handed
  to, carried from record to record by the loop over a packet, is right for the
  record, or the record is ours. For whole
  answers an invariant of the loop over a response: the records of the answer
  read so far are in the results of the search they were handed to.
* **Wire.** `Buffer`: the fill level is at most the size. Each append either
  fits or returns 0 and leaves a buffer; the loops over labels, text items and
  questions by `LoopStays`.
* **EspTimer.** That a stop is final depends on what is in the command queue.
  `OneReset`: the service task has one callback of a timer to answer for, so at
  most one reset of it is queued. `Followed`: every start in the queue has a
  stop, delete or reset behind it. `StopInOrder`: a stop in progress is the
  only call on its timer. `Final`: before the one callback that may still come
  the queue is `Followed`, after it the timer is `Quiet`.
* **Name conflicts.** `TieInv` adds that a packet carries its sender's own
  addresses and that the winner has name 0. A comparison it loses would have
  to be on a record in which it is not the highest.
* **Life cycle.** `Phases` says who is there in each step of `mdns_init` and
  `mdns_free`; `StopIsLast` that no packet stands in the queue behind
  TASK_STOP, so that what is left there holds none when the task is gone;
  `Packets` that the allocated packets are the listed ones, each listed once.
* **Queries.** Each listed search belongs to a task that waits, and wants more
  results; a SEARCH_END in the queue is of a listed search that is off and over
  its time (which is why results, that go to running searches only, cannot end
  it first); and a search has at most one action in the queue that adds or ends
  it, so that no action survives its search (`OneClaim`). A search that was
  full already, since a packet was left early, is the hard case: of its
  SEARCH_END the invariant says that no packet that would end the search stands
  in front (`EndsFirst`). The timer is the only one that can break it, and where
  it does `endedLate` is set: the invariant is `endedLate \/ SearchInv`.
* **OTA.** `ParserAt` ties the parser's counters to the place in the stream for
  each of its states, `DataIsImage` the partition to them, wherever the stream
  is cut. `Bootable`: the partition that boots holds a complete image that is
  not newer than the download. The refinement is proved step by step: only
  `set_boot` and a reset change what is installed.
* **ESP-NOW.** `Chain`: of the unicast frames and their callbacks exactly one
  is under way while a device is the sender, and their number and the counter
  add up; a frame carries the magic number of its sender (`MagicsTrue`).
* **SPI.** One invariant per build, for as long as none of the races is lost.
  The numbers of the blocks read, buffered, in the data register and not yet
  sent form one row. That needs the phase of the protocol: a pending
  transaction excludes a pending interrupt of the master; the lengths on both
  sides agree up to the block in the register; and the slave's buffer is full
  only while its callback waits for room (`Blocked`).
* **Provisioning.** `Teardown`: what each step of the stop task has taken down
  already. `Pending`: the newest event that is not handled says what the driver
  does, and once all are handled `wifi_state` does.
* **iperf, CoAP, echo.** The buffer is the last run's while a traffic task
  lives and none exists otherwise; a block that was asked for, or is on its
  way, follows one that was shown; the bytes of each connection balance.

### Only model-checked

* All liveness properties, among them `CallsReturn` and `OsTimerFreed`: under
  fairness, out of the prover's reach.
* `CopiesAgree` (`Nvs`): it holds without power loss and needs which copies each
  step of nested compactions has yet to move or erase.
* `QueuedHasAction`: it needs that the packets handed over are the first of the
  list and in the order of their actions, and fails at a wrap of the clock
  (`MdnsClockWrap`).
* `ReadBack` (`MdnsWire`): what the reader makes of a packet is a recursion over
  its bytes; what it computes is an induction over data.
* The properties that are violated.

## 5. What is left out

* `Nvs`: CRCs (written, never checked when reading); the integer types (one
  stands for all); concurrent callers, which the code does not guard against;
  flash operations that fail (their result is discarded) or are cut in the
  middle.
* `EspTimer`: time is which armed timer expires next; `esp_timer_get_time`
  keeps no state.
* mDNS: failures of `malloc` outside `mdns_init`, upper case in names, the
  contents of TXT values, the debug print (which only writes text), and the wrap
  of an 8-bit length while a string is written (mdns.c:350; what it returns is
  in the model).
* Examples: an `accept` of the echo server that fails (tcp_server.c:86), lost CoAP
  notifications, and interleavings within a CoAP handler, which runs in the one
  task of libcoap; rates, byte counts and console parsing of iperf; sequence numbers
  of ESP-NOW frames, which nothing reads; libcoap, protocomm, lwIP, the Wi-Fi
  driver and the bootloader, which are external and modelled from how the code
  uses them.

Not modelled: bindings (foreign-function declarations and one-line wrappers),
the build configuration, linker stubs, and the other examples (HTTP client,
Modbus, MQTT, OpenSSL, consoles, peripherals): straight-line demonstrations of
one vendored library each, whose state is in the library. The vendored SDK
itself is the work of others; FreeRTOS timers and the NOR flash appear as
external parts.

## 6. Plan

Done: every component of the inventory that has state of its own, and theorems
about all of them. Next, in this order:

1. Proofs: `QueuedHasAction` for a clock that does not wrap; `CopiesAgree`.
2. `NvsMap`, an abstract key-value store (a function from namespace, type and
   key to a value, with atomic calls), and the conditions under which `Nvs`
   implements it: entries whose table word is right, one namespace, no power
   loss inside a setter.
3. `MdnsSearch` with the wrap of the clock and the 8-bit limit of results;
   `MdnsResponder` with failing allocation and two tasks adding one service.
4. `EspTimer`: that a periodic timer keeps firing, and where the state is
   stored too late for it.
5. `Nvs` with two callers.
