# Models of mini_service_discover

TLA+ models of the service discovery of this repository, the TLC runs that check
them, and TLAPS proofs of their safety properties and refinements. Line numbers are those of the sources
the models were translated from; `PROJECT.json` maps every definition to its lines.

## 1. The system

A *daemon* holds registered services. A *server* registers services with it and
takes them back, a *client* asks it for services by name. All three exist in
three languages (C, Go, Java for Android) and speak one protocol: a request or a
reply is a UDP datagram of 1024 bytes, a header with an action, a length and a
checksum, and a JSON text. A program that does not know where the daemon is sends
its request to the addresses .1 to .254 of its network one by one, because
Android drops broadcasts (`dev.txt`). A reply does not say which request it
answers.

| part | state | operations | hard because |
|---|---|---|---|
| C daemon, `c/provider/daemon.c` | the list, the loop | register, unregister, inquiry, end on a failed read | an inquiry indexes the whole list |
| C list, `c/provider/comm/list.c` | nodes, `head`, `tail` | `list_add`, `list_remove`, `list_get`, `deinit_list` | `tail` goes stale, nodes leak |
| C library, `c/provider/server.c`, `client.c` | a `udp_client` per call, an unjoined thread | `register_service`, `unregister_service`, `inquiry_service` | memory is freed under the thread; sockets are not closed; several daemons answer |
| Go daemon, `daemon.go`, `comm/provider.go` | `container/list` | the same three requests | nil slots in the result slice; a head is believed before it is checked |
| Go server, `server.go` | `recEnd`, `subIP`, the channel `broadcastQuit`, one socket | `RegisterService`, `UnRegisterService`, `Quit` | a goroutine per call, late replies |
| Go client, `client.go` | the same | `InquiryService`, `Quit` | the same, and many replies per call |
| Android daemon, `ProviderServer.java`, `ServiceInfoList.java` | `LinkedList`, the socket | the same three requests, `stop` | positions of the whole list; the socket closed under the loop; an exception nobody catches |
| Android client, `InquiryClient.java`, `UDPClient.java` | fields shared by all threads | `runSearch`, per click | unlocked fields, one `dataPacket` for two threads, a list without a lock |
| Android registration, `RegisterClient.java` | the same, `succ` in place of the list | `runRegister` | the same |
| protocol, `protocal.c`, `protocal.go`, `Protocal.java` | none | encode, decode | checksum over signed and unsigned bytes, truncation |
| sockets, `udp.c`, `udp.go`, `UDPServer.java` | socket, buffer, peer address | read, write, scan, choice of a network | timeouts; short datagrams are glued together; any failed read ends the C daemon |

What makes each part correct:

- a daemon keeps at most one service per device and service name, says truthfully
  what became of a deregistration, answers an inquiry with the registered services
  of that name and nothing else, and survives;
- the list is a sequence whatever its pointers go through;
- its port makes one packet of one datagram, refuses what has been damaged and
  nothing else, and replies to whoever asked;
- a call of a library returns, tells its caller what became of *this* request,
  leaves no thread behind that shares its memory, and asks the whole network;
- a search on Android ends, leaves the button working, and reports what it found.

## 2. Modules

| module | models |
|---|---|
| `Protocal` | the requests and replies all parts exchange |
| `ServiceList` | what the three lists do, as operators on sequences |
| `SeqList` | the abstract specification of `list.h`: calls that take effect in one step |
| `CList` | `list.c` with its pointers, one iteration per step; implements `SeqList` |
| `ServiceHolder` | the abstract specification of a daemon: a set of services; three strengths of its promise about inquiries |
| `CDaemon` | `daemon.c`; implements `ServiceHolder!AnsweringSpec` |
| `GoDaemon` | `daemon.go` with `provider.go`; implements `ServiceHolder!CompleteSpec` |
| `JavaDaemon` | `ProviderServer.java` with `ServiceInfoList.java`; implements `ServiceHolder!TruthfulSpec` |
| `Codec` | what the three codecs do to long texts, and the three checksums |
| `CPort` | `udp_server_read` and `udp_server_write` below `server_loop`, with programs in three languages and senders that do not pad |
| `MCCPort` | short texts for `CPort` |
| `Interfaces` | which network a C or a Go program picks among its interfaces |
| `GoServer` | `server.go` and the goroutine it starts, with the network |
| `GoDiscovery` | `GoServer` composed with `GoDaemon` |
| `GoClient` | `client.go` with Go daemons whose lists do not change, and which may die |
| `CClient` | `server.c` and `client.c` with daemons in one step per request |
| `JavaClient` | `InquiryClient.java` and `RegisterClient.java` over `UDPClient.java`, and the clicks of their activities |
| `ServiceListProofs` | lemmas about the operators of `ServiceList` and `Protocal` |
| `CDaemonProofs` | theorems about `CDaemon`, and about `CList`, the list it holds |
| `GoDaemonProofs` | theorems about `GoDaemon`, and about `GoClient`, which asks it |
| `JavaDaemonProofs`, `GoDiscoveryProofs`, `CClientProofs`, `CPortProofs`, `JavaClientProofs` | theorems about the module of that name |

```
Protocal <- ServiceList <- CDaemon, GoDaemon, JavaDaemon, SeqList, CList,
                           GoServer, GoClient, CClient, JavaClient
Interfaces <- CClient, GoClient
Codec <- CPort <- MCCPort
ServiceHolder <= CDaemon, GoDaemon, JavaDaemon      (INSTANCE, refinement)
SeqList <= CList                                    (INSTANCE, refinement)
GoServer + GoDaemon -> GoDiscovery
X <- XProofs for X = CDaemon, GoDaemon, JavaDaemon, GoDiscovery, CClient, CPort, JavaClient
CList <- CDaemonProofs,  GoClient <- GoDaemonProofs
ServiceListProofs <- all other proof modules but CPortProofs
```

Two proof modules extend two models each. For that the top-level names of `CList`
begin with `List` (`ListInit`, `ListSpec`, `ListTypeOK`) and those of `GoClient` with
`Client`; everywhere else they are `Init`, `Spec` and `TypeOK`.

A definition named `...` whose comment begins with "Mutant of" is a deliberately
wrong variant of its neighbour; `PROJECT.json` names the property that tells the
two apart. No other definition uses it.

Where the constants are model values, numbers and strings the configurations
instantiate the modules directly; `CPort` needs sequences, which `MCCPort` gives it.

### How state and actions correspond to the code

**Protocal.** A datagram is the record it decodes to. The fields `ip`, `port` and
`info` of a service are never looked at by any program, so one value of `Info`
stands for the three. It starts where a datagram has been accepted; what comes
before, and bytes, are the subject of `CPort` and `Codec`.

**Daemons.** `req` is the request between the read and the end of its handler,
`sent` the replies written for it. Registration and deregistration are one action
each, for there is one thread and only the last step is visible. An inquiry is an
action per reply, since its loop is where the daemons differ: `CDaemon` has the
loop around `list_get(list, name, i++)`; `GoDaemon` counts, fills a slice (`res`)
and sends it, and dies of a nil slot; `JavaDaemon` counts and passes over nulls,
and `Stop` may close the socket at any moment. `Discard` is a datagram with a
wrong checksum or another action. `ReceiveTooLong` is a head with a length that does not
fit the buffer: Go slices the buffer by it (`fits` is false from then on, `panicked`
true), Java runs past the end of its array, and both processes die (`dead` in
`JavaDaemon`).

**CList.** Addresses are numbers handed out by `get_node`; `next` and `info` are
functions on them. `chain` is no variable of the program: it is the sequence of
nodes that the linking and unlinking steps mean the list to have, which the
pointers are compared with. `list_remove` leaks the node it unlinks, in the
program as in the model.

**Codec, CPort.** A text is a sequence of bytes; the JSON around the texts is ASCII
and the same for writer and reader, so only the bytes of the texts are summed.
`Field` is the truncation of each language: C reads on behind a buffer it has filled,
so it may build several packets (`Behind`), Go cuts, Java does nothing. A datagram
carries its length and its packet; `received`, `r_len` and `addrfrom` are the read
under way, one `recvfrom` a step, and `Handle` is its end with the request served.
`SendShort` stands for senders that do not pad. `End` is any failed read, which ends
the daemon; `Start` starts it anew with an empty list. `wanted`, `claimed` and `found`
record what the programs asked for, were told and found, for the properties.

**Interfaces.** A machine's interfaces are a sequence, in the order of the kernel. C
takes the first that is not `lo`, Go the first with a prefix of 24 bits; a scan reaches
a daemon only if the network picked is the daemons'.

**GoServer, GoClient.** `main` is the program counter of the caller, `scan` that of
the goroutine; `recEnd`, `quit` (the buffer of `broadcastQuit`), `subIP` and `finish`
are the code's. The statement `go` is a step of its own and so is `recEnd = false`
after it. The fields `call` of datagrams and the variables `call` and `written` only
serve properties. `net` holds the datagrams in flight or in a socket's queue, as a
set: any may be next, and any may be lost. In `GoDiscovery` the daemon is the module
`GoDaemon`. In `GoClient` a daemon is a list (`held`) that answers in one step:
`Slots` is the slice `GetAll` fills, `Sent` what is sent of it before the first nil
slot, and if there is one (`Panics`) the daemon is dead afterwards; `died` records
during which call, and `NobodyAnswers` is a request to a dead one.

**CClient.** Each call has its own `udp_client`, thread and socket, indexed by the
number of the call. A packet that has been freed is `NULL` in `data`, a freed
`udp_client` is in `client_freed`; a thread that touches either sets `fault`, and the
model stops there, since what C does then is undefined. `Open` is the sockets not yet
closed: only an inquiry closes its own, and a call that finds none left fails at once
(`NoClient`).

**JavaClient.** A click is a thread in `runSearch` or `runRegister` (`client` tells
which), and a scan one thread per search. `SetData`, `MakeThread` and `StartThread` are
the three statements that use the fields `sendData` and `thread`, which overlapping
searches share: a thread may be started twice, which throws, or never.
Assigning the field `dataPacket` and using it are separate steps of both threads,
so either may use the packet of the other: a request may be received into the send
buffer (`overwritten`), a reply may go to the buffer of a different search, and a
packet without an address may be sent, which throws and kills the process
(`crashed`), as `clear` may by modifying the list it iterates over. Adding a service is
two steps, `RemoveSame` and `AddLast`, for the list has no lock. What a `LinkedList`
does when two threads are in it at a time is not defined, so `Change` lets a disturbed
step leave any of the services it should leave, in any order and number up to the
length, and from then on (`torn`) every use of the list may throw. `info` is the service
a thread is about to add. In the model of the registration there is no list.

## 3. Runs

| run | checks | bounds |
|---|---|---|
| `CDaemon` | the C daemon against its invariants and `AnsweringSpec` | 2 devices, 2 names, 2 descriptions |
| `GoDaemon` | the Go daemon against its invariants and `CompleteSpec`; what it dies of | the same |
| `JavaDaemon` | the Android daemon against its invariants and `TruthfulSpec` | the same |
| `CList` | the pointer list against `SeqList` | 2 devices, 2 names, 4 nodes, index up to 3 |
| `GoDiscovery` | a Go server and the Go daemon over a network: joining, no duplication, termination; truth of results if replies are timely | 2 devices, 3 addresses, 3 calls |
| `CPort` | the port of the C daemon under datagrams of all lengths, failing reads and restarts, and texts of three languages: bearings of the reads, truth of successes, who refuses whose packets, what arrives of a text | packets of 2 bytes, 3 datagrams, 2 starts; texts of up to 4 bytes of 3 values, buffers of 3, sums modulo 8 |
| `CClient` | the C library with two daemons: use of freed memory and termination under three timings; truth of results in a quick scan, also with other interfaces and few sockets | 2 devices, 3 addresses, 2 calls |
| `GoClient` | a Go inquiry joins its scan under any delay and loss; with one daemon and timely replies it returns what leads the daemon's list, in the network it picks, and misses something only if the daemon has died | 2 devices, 2 names, 3 addresses, up to 2 daemons of up to 3 services, 2 calls |
| `JavaClient` | the Android clients under the race for `dataPacket` and in a list without a lock: nothing untrue in the list, true successes and termination; one search at a time and nothing listed twice if clicks come apart | 2 devices, 2 addresses, 2 clicks |

Why the bounds are enough. A list over two devices and two names has up to four
entries in every order, so matching services can be leading, trailing, split by
another one, or absent, and re-registration can change any of them. The pointer
code tells apart only the first, a middle, the last and the only node; four
allocations with the leak reach a stale tail, its repair, and a third node after
it. A scan treats its first, its inner and its last address differently, so three
addresses show all of it, with daemons at each kind of place across the runs. A
flag or a reply left behind by one call acts on the next, so two calls show it and
a third comes after the damage. For the Android client two clicks are enough for
an overlap, and two services for the faulty `clear`. Three services of two names in the
list of a daemon show a Go inquiry every shape of the slice: full, with a nil slot
after some that were sent, and with one in front. Of datagrams the port tells apart
empty, short and whole ones; three are enough for a short one, the request it spoils
and the one after. Of the bytes only their sign matters, and of the modulus that it
is a multiple of the range of a byte, so bytes of two bits and a sum of three show the
carry that makes an even number of bytes outside ASCII go unnoticed (for the code's
sizes, a multiple of 256).

Some initial states are left out to keep several timings in one run; the comments of
the `Init` definitions say so. `CClient`: only a quick scan starts with services at the
daemons (the calls themselves register some in any case), with unusual interfaces or
with few sockets, and only for a quick scan is a network without losses told from one
with. `GoClient`: several daemons, late ones, or those of a client with unusual
interfaces hold one service at most. `JavaClient`: overlapping clicks are those of the
inquiry, scan up to the daemon's address only and find one service.

`MaxCalls`, `MaxHeld`, `MaxNodes`, `MaxIndex`, `MaxSent`, `MaxStarts` and the set `Click` are bounds
of the models; the numbers of the code made smaller are the 254 addresses (`LastSub`)
and the sizes in `MCCPort` and `CPort.cfg`. All runs check for
deadlocks: the actions `Over`, `Dead` and `Ended` stand for a program that has ended.

### Where the code disagrees with what is said of it

These runs end in a counterexample; each is a behaviour of the code.

| run | what it shows |
|---|---|
| `CDaemonAllAnswered` | with another service in front, the C daemon stops before a matching service |
| `GoDaemonPanic` | in the same situation a search makes the Go daemon dereference a nil slot and end |
| `GoStaleReply` | a late reply to a registration is returned as the success of a deregistration |

The first two are one idea ("the index of a matching service") taken for another
("the position in the list"). The Android daemon makes the same mistake and passes
over the nulls, so it may send some of the services or nothing at all. Hence
`ServiceHolder` has three specifications, and each daemon implements another.

Behaviours of the same kind that the models show but no run is spent on, because
the repository says nothing definite about them; the properties name them as
conditions:

- the scan of the C library stops at the first reply, so a daemon further up may
  not be asked (`Asked` in `ResultTellsTruth` and `InquiryFindsAsked`);
- a head that announces more than the buffer holds ends the Go and the Android daemon
  (`PanicsOnlyWhenScattered` names it beside the inquiry of `GoDaemonPanic`);
- an inquiry that ends a Go daemon returns the services in front of the nil slot, and
  the next one finds nobody (`InquiryIsTrue` says that nothing is missed otherwise);
- searches of the Android client that overlap can list a service twice, or end the
  process by an exception of the list (`ListIsTrue` says the first only of clicks that
  come apart);
- a refusal ends a Go inquiry and leaves another daemon's services in the socket,
  where the next inquiry reads them (`InquiryIsTrue` speaks of one daemon);
- the Android client never lowers `inquirySucc`, so a search that found nothing is
  reported with the success of an earlier one (`ListIsTrue` only asks that the
  success told has been true of the daemon);
- a goroutine may look at `recEnd` before its call has lowered it, and end without
  having sent anything (the first call only is sure to ask, in `ResultIsTrue` and
  `InquiryIsTrue`);
- the C library touches freed memory if its scan outlasts the read timeout
  (`FaultNeedsSlowScan`);
- registrations in C use up a socket each (`ResultTellsTruth` says when calls fail);
- texts outside ASCII are refused between languages that sum bytes differently, and
  by C from C (`RefusedIff`), and texts of 100 bytes or more arrive from C with what
  lies behind the buffer (`ServicesArrive`);
- after a datagram that is not 1024 bytes long the next caller gets the answer to
  somebody else's request (`SuccessIsTrue` excludes it by `short`).

## 4. Fairness and timing

Threads, goroutines and handlers keep taking steps that they can take (weak
fairness per thread): a scheduler gives no less. Nothing obliges a request to be
made, a datagram to be lost, a socket to be closed or a program to quit. A read
returns, by a reply or by its deadline of 500 ms, so the disjunction of the two
is fair. The network is not fair: whatever is lost is lost.

How long a read waits decides much, so it is part of the environment that `Init`
chooses and no step changes, and one run has all the cases. `timely` in the Go
modules: nothing that could still bring a reply is under way when a read times out
(and in `GoClient` nothing is lost); otherwise a read may time out at any moment.
`timing` in `CClient`: `"quick"`, the whole scan and its answers take less than the
timeout; `"steady"`, answers do and so does one step of the scan; `"any"`. `apart` in
`JavaClient`: no second click falls between the test and the setting of
`runSearchFinish`. A property that needs one of these has it as a premise; the
others hold in every environment. In `CPort` a read of a program times out only when
its request has been answered or passed over. Termination is checked of `GoDiscovery`,
`CClient` and `JavaClient`, where two threads and a network can keep each other waiting;
the other modules state no fairness, and that none of them blocks is checked only as the
absence of deadlocks.

## 5. Proofs

Every invariant, every action property and every refinement that a passing run checks
is also a theorem, for every set of devices, names and descriptions and for every
number of calls, clicks, nodes, addresses, sockets, datagrams and starts. What the
runs alone show is termination: `EveryCallReturns` of `GoDiscovery` and `CClient` and
`EverySearchEnds`. Liveness under fairness is out of the provers' reach.

The assumptions are those the modules name: addresses and bounds are numbers, the
daemon's address is one of the scan, the null pointer is no service, request, packet or
datagram, and an Android program has a service to register. No timing is assumed that
is not a premise of the property itself.

The argument is everywhere the same: few of the properties are inductive, so each
proof module has inductive invariants that are shown to hold initially and to be kept
by every action (one step of the proof per action), and the theorems follow from them.
The later ones of a module build on the earlier. An action property then
follows from what the invariants say of the state before the step.

**The daemons** (`CDaemonProofs`, `GoDaemonProofs`, `JavaDaemonProofs`).
Type correctness, at most one service per key, and what an inquiry has sent
(`InquirySendsPrefix`, `InquirySendsSlots`, `InquirySendsSeen`); for Go, that it dies
only of a head that announces too much or of an inquiry whose services are not all in
front (`PanicsOnlyWhenScattered`); for
C and Android, that services in front are all sent (`LeadingServicesAnswered`).
Which replies may follow depends on those already sent, on the index, and on the list
having no key twice, so `IndInv` conjoins types, unique keys and the description of the
replies. Under it every step of a daemon is a step of `ServiceHolder` or changes
nothing there (`CDaemonImplementsAnswering`, `GoDaemonImplementsComplete`,
`JavaDaemonImplementsTruthful`): a reply is a matching service that has not been sent,
because positions are visited once and the list holds nothing twice; a Go inquiry that
comes to its end has had no nil slot, so as many matching services as counted stand
in front, and all have been sent. `ServiceListProofs` proves what the list operators return
and preserve; its counting lemmas are `GetCountProperties` and `LeadingProperties`.

**The list in memory** (`CDaemonProofs`). `ListInd` says that `chain` never holds a node
twice, that the pointers spell it, that a walk stands where `prev`, `node` and `at` say and
has passed no node with the key, that nothing, not even a stale `tail`, leads to the node
about to be linked, and that only `deinit_list` frees. From it `ListTypeOK`, `PointersSpellList`, `NoDanglingPointers`, and the
refinement `ListImplementsSeqList`: a walk changes nothing until it ends, and ends as
`ListRemove` or `ListGet` would on the list it has spelled; `list_add` takes effect where
its `list_remove` ends. So the operator on sequences that `CDaemon` uses is what
`list.c` does.

**The Go server** (`GoDiscoveryProofs`). `IndInv`: a datagram can be sent once only
because the scan has not yet been at the daemon's address (`Unsent`), because that
scan is the one of the call under way (`ScanEndsWithItsCall`), and because request
and reply take each other's place (`InOnePlace`). `TypeInv` adds that what is in the world is
a datagram of a call that has begun, and takes the daemon's types from its module
(`SameVocabulary`: the copy of `ServiceList` in the instance of `GoDaemon` is this one).
`ResultInv` then gives `ResultIsTrue`: when replies are timely everything in the world belongs to
the call under way and a reply is true of the daemon's list (`Timely`), for the call does
not give up before the world is empty; and the first call finds `recEnd` down, so its scan has been
through the addresses up to `subIP` in order (`FirstScan`). A
reply that comes late breaks the first (`GoStaleReply` is the counterexample), a later
call the second.

**The Go client** (`GoDaemonProofs`). `ClientInd` has the same three parts for an
inquiry: `ClientBase`, types and one scan per call; `CallIsTrue`, with one daemon
and timely replies nothing of a call outlives it, and a daemon that has been asked has the
request still to come, or has refused, or what has been read (`Told`) and what is in flight is
together what is `Due`: what it sends of its slice, and nothing if an earlier call killed it
(`Progress`); `FirstCallAsks`, as above. `AnswerProperties` says of every list that what is
sent before the first nil slot is the services of the name that lead it, and that there
is a nil slot unless these are all. Hence `ClientTypeOK`, `ScanEndsWithItsCall` and
`InquiryIsTrue`.

**The C library** (`CClientProofs`). For `FaultNeedsSlowScan` the invariant says that a thread
has ended when its call stops reading (`ThreadOutlasted`), if the timing is that of the
theorem, and that nothing has been freed while it reads. Four more build on it: `TypeInv`,
with what may stand in an answer; `SocketsInv`, a socket that is still open was opened by a
registration or deregistration, or by the inquiry under way, so a failing call has as many
such calls before it as there are sockets; `QuickInv`, in a quick scan a call is alone with its
thread and its datagrams, and the addresses asked are those the thread is past; `HostsInv`, what the daemons asked hold, by the kind of the call (`Registering`,
`Unregistering`, `Inquiring`): a daemon
asked has the request still to come, or has done it and its answer is on its way or in the
result, in whatever order answers come. Hence
`TypeOK`, `ResultTellsTruth` and `InquiryFindsAsked`.

**The port of the C daemon** (`CPortProofs`). `BufferOK`, and from it `SuccessIsTrue`: while
all datagrams are whole packets, a read holds one datagram, so the packet served is the
one of the call the reply goes to (`OfItsCall`), and no name leaves the list while the
daemon runs. `PortInv` gives `TypeOK`; it says that every packet in a socket, in the
buffer or in a reply carries the sum its writer computes (`AllHonest`), which gives
`RefusedIff`, and texts of a service wanted as far as they fit (`Arrived`), which gives
`ServicesArrive`. That the signed and the unsigned sum
of a text differ by `ByteRange` for each byte outside ASCII holds for texts of any length: not
by an induction theorem, which the provers cannot instantiate, but by the least
length at which it would fail (`LeastNatural`), where the text without its last byte
contradicts it.

**The Android client** (`JavaClientProofs`). `OneSearchAtATime`, since the flag lets one click
past the test and a search joins the thread it has made itself (`OwnThread`);
`ListIsTrue`, in which every reply on its way or in a buffer must be true (`TrueReply`),
whosever packet it was received into, and so must the services about to be added be
(`AdditionOK`); that none is listed twice if clicks come apart rests on
`OneSearchAtATime`, which leaves a thread in the list alone there (`AloneInList`); and `TypeOK`, by `FieldsInv`, which says which of the
shared fields have been assigned at each statement of the threads (`Given`).

## 6. What is not modelled

- The JSON around the texts, cJSON, and characters of several bytes that truncation
  cuts in two, which Go and Java replace by another character.
- The gluing of short datagrams in `udp.go`: it is that of `udp.c`, which `CPort` models.
- `get_local_ipv4_broadcast_addr` and the broadcast mode of C and Java: every caller
  passes 0 or false.
- `malloc` and `pthread_create` failing.
- Foreign traffic beyond requests that a daemon discards and datagrams that are not
  whole packets; in particular nobody answers a client but the daemons.
- In `GoClient` and in the inquiries of `JavaClient` the daemons hold the same services
  throughout; registrations during a search are not modelled. So a service left in the
  Android list by an earlier search is one that is still registered. The services an
  Android client looks for lead the list of its daemon.
- Heads whose length does not fit the buffer, but for the Go and the Android daemon; in
  particular nobody sends such a head in `GoDiscovery`, nor do replies carry one. The C
  daemon sums what lies behind its buffer then, and the models take that for a wrong
  checksum.
- Requests of which a field is missing in the JSON. All three libraries write all of
  them.
- The activities of Android reading the list while a search changes it, but for the
  notice at the end of each search.
- The activity of the Android daemon, manifests, build files, the example programs.

## 7. Plan

Done: the lists, the three daemons with their abstract specification, the port of the
C daemon with the codecs, the Go server with its daemon, the Go, C and Android clients,
the choice of a network, and the proofs of section 5. Next, in this order:

1. Proofs: that the three promises of `ServiceHolder` are ordered by strength.
2. An abstract specification of a library call (asked, answered, returned) that
   `GoDiscovery`, `GoClient` and `CClient` implement under timely replies, in place of three
   separate action properties, with the refinements proved from the invariants above.
3. `CClient` and `GoClient` composed with the daemons' modules in place of answers in one
   step, so that registrations fall between the replies of an inquiry.
4. A Go server on the other side of `CPort`, so that a stale reply and a short datagram
   meet in one behaviour.
