# TLA+ models of Souliss

Souliss is a framework for home automation on small microcontrollers. A node is
one cooperative program: a sketch with `setup()` and `loop()`, whose phases run
the logic of the attached devices (the *typicals*), process frames, and send what
changed. Nodes share nothing but messages: MaCaco (`frame/MaCaco`) reads and writes
the other nodes' *memory map* over vNet (`frame/vNet`), a network layer over radio,
Ethernet and RS485. One node, the gateway, subscribes to all others and serves the
user interfaces.

This directory holds the models of the parts whose difficulty is in the order of
events: what is lost, repeated or overtaken on the network, what reboots, what two
writers of one byte do to each other, what a counter does at its limit. All paths
in this text and in `PROJECT.json` are relative to the repository's root.

## 1. Inventory

| component | state | operations | interacts with | hard because | must hold |
|---|---|---|---|---|---|
| **Outgoing subscriptions** (`MaCaco_subscribe`, `Souliss_CommunicationChannels`, joins and answers in `MaCaco_peruse`) | node table ADDRESSES, HEALTHY bytes, `subscr_count/status/outaddr/battery`, `roundrob_2`, data of the peers | one channel per round; credit, debit, repeat of a request; join; store an answer | the peers' incoming subscriptions, vNet, EEPROM | loss, repetition and reordering of frames, reboots of both sides, bytes at their limits | data under the right index, no early failure, convergence |
| **Incoming subscriptions** (`MaCaco_peruse` SUBSCRREQ/STATEREQ, `MaCaco_subAnswer`, `MaCaco_PassThrough_subAnswer`) | five parallel arrays `subscr_*`, `subscr_lastindex` | request, overwrite, round over all entries, deletion of a failed one | outputs of the logic, vNet | table full, failures in the middle of a round, columns that must stay together | one entry per subscriber, everyone is served |
| **PERSISTENCE / LASTIN** (`MaCaco.cpp`, `base/Persistence.cpp`, `base/LastIn.cpp`) | index list of 5 nodes, data of nodes or entries | store a peer's data, store local data, is-data, read, clear | subscriptions on one side, an external interface in the sketch on the other | producer faster than the reader, several entries of a node | nothing unread is forgotten |
| **Typicals T2n** (`base/T2n.cpp`) | IN, OUT, AUXIN of a slot, remembered pins | logic, timer | buttons, limit switches, frames, `data_changed` | one mailbox for all writers, timer shared by two purposes | no direct reversal, bounded run, justified end states |
| **Typicals T4n and watchdog** (`base/T4n.cpp`, `Souliss_Watchdog`) | IN, OUT, AUXIN of the alarm, one byte of the watchdog, on each node of a ring | logic of main and peers, timer, watchdog round | FORCE frames between nodes | mailbox races, lost frames, nodes that die | alarms are neither invented nor lost |
| **Scheduler** (`base/SpeakEasy.h`) | two timers, two phase counters | fast round, slow round | everything a sketch does | wrap of `millis()` and of the phases, long rounds | rounds come in time |
| **Typicals T1n** (`base/T1n.cpp`) | a slot, or one per colour | logic, timer | buttons, sensors, a step relay, subscribers | a timer in the mailbox, modes, pulses that are missed | times are kept, manual mode holds, pulses are honest |
| **Typicals T3n, T5n, T6n** (`base/T3n.cpp`, `T5n.cpp`, `T6n.cpp`) | a slot and two more per value | logic, timer, import of a measure | sensors, users | setpoints and modes change between rounds, dead bands, NaN, 0.0 as "nothing" | coils agree with what is published, measures are tracked |
| **Inputs** (`base/LocalIO.cpp`) | `InPin` per pin, one shared start time | edge, two-state, filter, hold, keep-hold, steps helpers | typicals | several buttons share a timer that wraps | nothing long comes early |
| **Typicals discovery** (`Souliss_GetTypicals`, TYPREQ/TYPANS) | one pending request, round robin, timeout | request for all, for one, round, answer | user interfaces, peers | one record for all, answers that are late or lost | nobody is forgotten, polls end |
| **Dynamic addressing and start-up** (`base/NetworkSetup.cpp`, `MaCaco.cpp`, `tools/store`) | open request with a random key, proposed address, node table, EEPROM | ask for a subnet, ask for an address, propose, set, join, store | the node table, action messages in the same queue | two nodes at once, repeated answers, restarts in the middle | addresses are unique, kept, and reached in the end |
| **vNet** (`frame/vNet/vNet.cpp`) | routing tables, addresses and media | send, retrieve, learn, bridge, repeat a broadcast | drivers | several paths, copies that look like originals | broadcasts reach all, replies find back, traffic ends |
| **RS485 driver** (`vNetDriver_usart.cpp`) | one buffer, bus state, retries | poll, parse, tries of a send | other nodes on the bus | pieces of frames, old bytes, a sender that reads into the same buffer | a frame is delivered once and in order |
| Publish/subscribe (`base/Communication.cpp`) | one slot of 15 bytes | publish, subscribe, reset | dynamic addressing uses the same slot | overwritten events | only its overwriting is modelled |
| Sleeping nodes (`base/Sleeping.h`) | counters, a flag set by interrupts | sleep, wake | the sketch | wake-up sources | not modelled |
| User mode, HTTP/XML/Modbus interfaces, webhook | buffers of text | parse, answer | memory map | parsing, little ordering | not modelled |
| Radio and Ethernet drivers, uIP, boards, tools, hardware | chip registers | I/O | vNet | vendored, or pure I/O | external |

`PROJECT.json` lists the same components with their status, and under `hazards` what
each is exposed to, at its line, with the property that covers it or the reason none
does yet.

## 2. Modules

    Channel --> Subscription --> MCSubscription
                 |      \--> SubscriptionProofs
                 \-- refines --> Replica

    Slot --> T2n --> MCTypicals (with T1n, T3n, T5n as instances) --> TypicalsProofs
               \--> T2nProofs
    AntiTheft --> MCAntiTheft (a pair, and a ring of three)
       \--> AntiTheftProofs

    SubscrTable --> MCSubscrTable --> MCDynamic (with MCSubscription, one part at a time)
      \--> SubscrTableProofs

    NodeIndex --> Persistence --\
              \-> LastIn --------> MCNode (one part at a time)
    Discovery, Scheduler, Buttons, Serial --> MCNode
    Persistence, LastIn, Discovery, Scheduler, Buttons --> NodeProofs

    VNet --> MCVNet --> MCNetwork (one half at a time)
      \                /
    Addressing -------/
      \--> NetworkProofs (both, each by itself) --> ReplyProofs (VNet)

The parts of `MCNode` share no variable: a run of it is the union of the state graphs
of its parts, told apart by `part`, in which the resting parts keep an initial state.
They are checked in one run because each is small and none depends on another; the
same holds of the parts of `MCDynamic`, the halves of `MCNetwork` and the slots of `MCTypicals`. Modules whose
state is shared (`Subscription`, which contains the channels, the joins and the peers'
side; `Addressing`, which contains the gateway, the nodes and the queue they share with
action messages; `AntiTheft`, the watchdogs and the alarms) are composed for real.

### Channel, Subscription, Replica: the gateway and its peers

`Channel` is what one visit of `MaCaco_subscribe` makes of one channel: HEALTHY and
`subscr_count` are bytes; an answer since the last visit credits health and lengthens
the delay, its absence debits, and when the delay has expired a request goes out. It
is written as functions of the channel's record, so that `Subscription` and the proofs
use the same text.

`Subscription` has one action per call of the gateway's and the peers' loops:
`Souliss_CommunicationChannels` (one channel of the round robin, with the setup of a
channel on its first visit, with `ok` for a transmission that vNet reports as done),
`RecvJoin`, `RecvSubscrAns`, `RecvSubscrReq`, `MaCaco_subAnswer`,
`Souliss_JoinNetwork`, `Souliss_JoinAndReset`, the two requests of a user interface
that touch the bookkeeping (`UserDataReq`, `UserHealtyReq`), and reboots of either
side. A node is single-threaded, so a call is atomic; everything between calls
interleaves. The network is a set of frames: a frame stays when it is delivered
(`keep`, a duplicate), is taken, or is lost, and the order is free. Outputs are pairs
of producer and version, which is what lets the properties say whose data is stored.

`Replica` is the abstract specification: a lossy, unordered copy of each peer's
outputs. `Replicates` says that `Subscription` implements it, with `rep` mapped to what
a reader finds under the index the peer's address has.

The byte after the HEALTHY area is part of the state (`HealthyByte`) because the code
writes it: see the findings.

### SubscrTable: who gets the changes of a node

`subscr_addr` is modelled byte by byte, since the deletion of a failed subscriber is a
`memmove` whose length counts bytes; of the other columns one, `subscr_funcode`, is
kept to see whether they stay together. A round (`MaCaco_subAnswer` and
`MaCaco_PassThrough_subAnswer` have the same loop) takes one step per entry with
nothing in between. A subscriber is behind IP when its address is (`OverIP`, what
`vNet_GetMedia` says), also if it is mixed from two. `owed`, `passed`, `deletions` and
`asked` are history variables: who has yet to be tried in this round, who stood right
behind an entry that was deleted in it, how often bytes have moved, and what each subscriber
last asked for. A deletion separates the columns for good, so `OneEntryEach` and
`KindMatches` speak of the table before the first one; `OnlyNextMissed` speaks of all
rounds, with deletions in them and before them, and `EveryoneTried`, which it weakens,
is a finding.

### NodeIndex, Persistence, LastIn: data for external protocols

`NodeIndex` is the list of unread nodes, its searches and its layout, with the byte
behind it. `Persistence` and `LastIn` put the two modes on top: `PeerData`/`Data` for a
SUBSCRANS, `LocalData` for the gateway's own outputs, `Read` for one turn of the
sketch's loop (is-data, read, clear). Data are version numbers; `seen`, `best`, `last`
and `overwritten` are history.

### Slot, T1n, T2n, T3n, T5n: typicals

`Slot` is what every typical has: IN, OUT and AUXIN of a slot, the trigger, a command
of anybody (`Command`), and the phases, which alternate in any ratio but for the rule
that the timer runs after a logic (`due`): a sketch calls the logic in a fast phase and
the timer in a slower one. `Communicate` sends the outputs when the trigger is raised;
it is what `OutputsKnown` is about.

`T2n` is one slot that is a T21 or a T22 (`TYP_s`): `Souliss_Logic_T21/T22` are functions
from slot to slot; `Logic` reads the switches, runs one and drives the coils; `User` is
any command, from the network or a button; the door (`Move`) goes one position in
either direction at any time, so it also bounces, is pushed by hand, and never reaches
a switch. The timer's constants are the real ones. `ran` is history.

`T1n` has T11, T12, T13, T14, T15, T16, T18, T19, T1A and T1B in the same form. The
colours of T15 and T16 and the brightness of T19 live in the slots that follow (`IN_c`,
`OUT_c`, `AUXIN_c`). T18 has the step relay itself beside it (`contact`), which may
miss a pulse or be worked by hand. `byUser` and `left` are history.

`T3n` is T31: its control byte as a set of bits, the setpoint and the measure as numbers
(quarters of a degree), a user, a sensor and a room. `T5n` has T51 and T61, which the
other analog typicals are aliases of; NaN and 0.0 are values of their own.

`MCTypicals` puts any of the fifteen in one slot.

### AntiTheft: the alarm of several nodes

Main (T41) and peers (T42) of the sketches in `examples/wireless/e03_AntiTheft_*`: a
ring of watchdogs and alarms written into the main's input. `Logic`,
`Souliss_Watchdog`, `Souliss_T41_Timer` and `Receive` are the phases and frames of a
node. Sensors, users, the radio and power failures are the environment.

### Scheduler: rounds and phases

One pass of `loop()` is a fast round, a slow round, or nothing; a round may take up to
`MAXBODY` ms. `now` wraps at `WRAP`, as `millis()` does at 2^32, and starts anywhere.

### Discovery: the poll of the typicals

`TYPREQ_All` and `TYPREQ_One` are requests of user interfaces, `Souliss_GetTypicals` is
one call of the sketch, with its four ways through (the timeout is out, the peer has
answered, the peer is asked, the table has ended); frames are lost, and answers come
late, also those to the request before. `asker`, `told`, `polled`, `passed`, `late` and
`replaced` are history: who asked, whom the asker has heard of, who was asked, whom the
timeout passed over, and whether another interface took the record over.

### Buttons: helpers that share a start time

A sketch calls one helper for each pin and round, in order (`next`), with `DigInFilter`,
`DigInHold`, `DigKeepHold` or `DigInHoldSteps` at each pin; between calls, the buttons go
as they like. `elapsed` is `millis() - souliss_time`, the one difference that all pins
read. `held`, `since`, `said` and `stepped` are history per pin. `Honest` says what the
call of one button may do; its clause on the lights of a group depends on whether the
group has another button (`OnlyButton`). With two, which nothing in the helper
excludes, the second may switch the group off while the first is held, and the next
step of the first then lights up again what had been on before.

### Addressing: nodes that ask for an address

A node without an address asks for a subnet, then for an address in it; the gateway
keeps one request open, told by the random key of the node (`randomkeyid`), and
proposes the first address that is not in its table. The answer is a write to the
QUEUE of every node, where an action message may overwrite it before the node has
looked (`ACTIONMSG`); answers leave the nodes time to look between two of them
(`due`, the gateway's flood protection). `JOIN` records an address and closes the request. Nodes and the
gateway restart, with what their EEPROM gives back: the gateway's table is written with
two-byte entries one byte apart (`Restored`). Frames come in order or are lost.

### VNet: bridges, repeaters and routes

A network is a constant (`MCVNet`): the addresses of each device, one for each medium it
has, which devices are supernodes, and who does not hear whom by radio. `Send` starts a
message; `vNet_RetrieveData` is a device that takes a frame: it learns a route from
the source (`vNet_ParseFrame`), then, with that route, processes, bridges or repeats it. No frame tells a
copy from an original, so what ends the traffic is what the properties are about.

### Serial: frames on RS485

A wire of bytes; other nodes put tokens and frames on it, whole, cut off or with one
byte changed. `Poll` reads any number of bytes that are there into the one buffer and
parses; `CallSend`, `Claim`, `Yield` and `TakeSlot` are a send with its token and its wait, which
reads what comes in meanwhile into the same buffer. The CRC is ideal: only frames that
were sent carry the right one.

## 3. What is checked

Deadlock is checked except in the runs of `MCNode` and `MCNetwork` and the findings
about their parts: when the bounds are used up and everything has been read, asked,
sent or joined, those parts have nothing more to do.

| run | instance | question and answer |
|---|---|---|
| `sub_dynamic` | 2 peers that join while nobody has subscribed them (START_PeerJoin), 1 change, 1 fault or user request, 2 frames in flight, healthy constants on a small scale with the order of the real ones; or a table of 4 entries with 5 requesters and no deletion, or with 4 requesters, 2 behind IP, and 2 deletions | no cross-talk, unique addresses, no early failure, and `Replicates`; one entry each and kinds that match before the first deletion, nobody missed but those right behind a deleted entry |
| `sub_liveness` | 1 peer that joins for ever (SLOW_PeerJoin), 1 change, 2 faults, 5 frames in flight | after the last fault the gateway gets the peer's outputs |
| `typicals` | 15 typicals, a door of 3 positions, 3 commands, real timers | doors: bounded runs, reversal only through a full stop, justified ends; lights: times kept, manual mode holds, honest pulses, off is dark; thermostat: never both coils, coils agree with what is published; values are tracked; subscribers know the state; everything comes to rest |
| `theft` | main and 1 peer with loss, 1 fault, 2 commands, delayed alarm and arming; or a ring of 3 nodes, one of them off | no false alarm, latched alarm, countdown; the dead node raises the alarm |
| `node` | PERSISTENCE or LASTIN with 3 entries, 3 peers and the gateway, 2 data each; a poll of up to 2 peers, 2 interfaces; rounds of 3 and 8 ms with a wrap at 24; 2 buttons, a group of 3 lights; 2 serial frames, 1 token, 1 damaged frame, 2 sends | unread data stays found and is read; polls end and forget nobody; rounds are in time; no press is long early; frames are delivered once and in order |
| `network` | 2 nodes that ask for addresses, one with and one without EEPROM, 2 faults; or one of three networks with up to 3 messages | addresses unique, kept and reached; broadcasts reach all, replies find back, traffic ends |
| `theft_chain_alarm` | 2 nodes, no loss | finding |
| `table_mixes` | 4 requesters, 4 entries, 2 behind IP | finding |
| `persist_local` | as in `node` | finding |
| `held_repeats` | 2 buttons with `DigKeepHold` | finding |
| `first_asked` | as in `node` | finding |
| `failure_skips` | as `table_mixes` | finding |

Why the bounds are enough. Two peers are the least that can be mixed up, and with one
entry of the table left both orders of joining occur. The healthy constants only
matter by their order and by how many requests the initial health pays for; the small
scale keeps both. Peers at static addresses are the case without joins; no run has
them, the proofs cover both. Five requesters and four entries make each overwrite hit
a used entry; `MAXBYTE` is where the index of the overwriting would wrap. Four entries
are the least for a deletion that passes a subscriber: with three the next one's bytes
are copied to the deleted entry but stay in its own as well. Two deletions
(`MaxDeletions`) come in one round or in two, the second over addresses that the first
has mixed. Three entries
of the index list are filled and overflow with two data per node. For the doors nothing
is scaled; three commands are a command, one that contradicts it, and one that comes in
the stop between. Of the lights the timed commands (`TimedCmds`: 1 and 3 rounds), the
sensor's times (`SensorCmds`: 1 and 3), its delays (`Delays`: 0 and 2) and the colours
(`Colours`) are samples of their ranges; the rounds of a dimmer alternate strictly
(`TakesTurns`) and it gets one command less (`FewCommands`), for it has 256 levels.
`Temps` are above, in and below each setpoint's band, `Setpoints` two;
`Values` with a dead band of 1 has steps below, at and above it, 0.0 and NaN. The
watchdog's patience is scaled from 9 rounds to 2, so that its expiry, a kick in time and
a byte that wraps are all in reach.

A poll needs two peers, one passed over and one asked after it, and a timeout (3) that
runs out in either. The scheduler's clock starts at every phase of its wrap. `Holdtime`
2 with gaps of 1 or 2 ms is reached on and beyond its time; `Wrap` is the least that keeps
the difference unambiguous. One serial frame has the byte of a preamble in its
payload; 15 bytes of buffer hold one frame and a part of the next; with marks of 2
bytes (the code: 6) a preamble, a postamble and their halves differ. `USART_MAXRETRY` 1
makes a send fail at the first byte that comes in. Two nodes that ask at once and two
faults are a lost answer and a restart; a frame that is repeated while the first is on its
way is counted once. The networks are two buses bridged by radio, a radio node behind a range
extender, and two bridges in parallel; messages are one broadcast, an answer to it and
another, the broadcasts starting when the network is quiet, so that each one's copies
are its own.

Every property of a passing run has a mutant in `PROJECT.json`: a definition with a
plausible bug under which the property fails.

### Fairness

- `Subscription`: the gateway visits its channels, frames in flight are processed, a
  peer sends its changes and joins as its sketch says, all weakly fair: the phases of
  `loop()` come round for ever. Nothing is assumed of logic, users and faults; their
  number is bounded, and the property speaks of what follows.
- `MCTypicals`: the rounds of the logic and of the timer take turns for ever
  (`WF` of the change of `due`); commands, the door, the sensors and the answers to
  subscribers are not fair.
- `AntiTheft`: weak fairness for each node's phases and frames, and strong fairness for the
  main's logic while its input holds an alarm. The main's own watchdog round clears
  that input. It does so at fixed phases, so in the windows before these phases an alarm
  is erased each time it comes; but a peer that finds its neighbour dead writes the
  alarm again in every watchdog round, and two nodes' clocks drift, so not all of them
  fall into the windows. An alarm of a sensor is sent once, and nothing saves that one
  (`theft_chain_alarm` finds it even with the strong fairness).
- `MCNode`: the sketch's loop asks the buffers for every node again and again, and calls
  `Souliss_GetTypicals` again and again; peers and the network of the poll are not fair.
- `MCNetwork`: frames on their way are taken and nodes go on with their start-up; for
  `VNet`, some device that has got a frame takes it. Losses, restarts and new messages
  are not fair. `MCSubscrTable`, `Scheduler`, `Buttons` and `Serial` need no fairness.

## 4. What the sources say and the code does not do

Six runs have `expect: violation`; the quotes are in `PROJECT.json`, `findings`.

- `table_mixes`: deleting a failed subscriber moves half of the bytes and leaves an
  address made of the bytes of two.
- `persist_local`: the gateway's own data takes a used entry although there is a free
  one, because a test is the wrong way round.
- `theft_chain_alarm`: the main's watchdog round erases a peer's alarm.
- `failure_skips`: the same deletion moves the next subscriber to the entry the round is
  just leaving, so it gets nothing in that round.
- `held_repeats`: a button that is held never repeats its command while another one
  takes the shared start time again and again.
- `first_asked`: a request that finds the timeout of the one before expired does not
  start from the first node.

Other disagreements met while modelling. The models do what the code does here; no
run is kept for them:

- with a full node table the round robin arms one byte behind the healthy area
  (`Communication.cpp:75`, `MaCacoCfg.h:288`), and `SetAsBatteryNode` flags no channel
  (`Communication.cpp:106`);
- the deletion of a failed subscriber also separates the columns of the table
  (`MaCaco.cpp:1282`: only `subscr_addr` moves); after ten overwrites
  requests are refused until the index wraps (`MaCaco.cpp:394`), where the comment speaks
  of starting from the first entry;
- the search for a subnet for a supernode compares with 0 or 1 (`&&` for `&`,
  `MaCaco.cpp:688`), so it proposes the first subnet, in use or not
  (`SupernodeAddress`);
- `Persistence_IsData` sees the first node only (`Persistence.cpp:40`), a full list does
  not overwrite the oldest data (`MaCaco.cpp:1012`), and LASTIN may show older data after
  newer (`MaCaco.cpp:1022`);
- a limit switch event erases a command that waits in IN (`LocalIO.cpp:149`), the
  reversal of T22 stops for 2 timer rounds and not 4 (`T2n.cpp:198`), a stop of T21
  raises no trigger (`T2n.cpp:106`); an alarm event erases the delayed arming
  (`T4n.cpp:126`);
- slow rounds starve when every fast one takes longer than its time base
  (`SpeakEasy.h:87`; `InTime` is checked with shorter ones), and blocks with a
  period over 1000 phases run every 1000 (`SpeakEasy.h:36`);
- lights: once T15 has been off and on again its last state is restored in every round and
  no command gets through (`T1n.cpp:492`); T19's good night reloads its timer from the
  mailbox it has reset, and the byte wraps (`T1n.cpp:1308`), which `ComesToRest` leaves out;
  T16 takes a brightness command while it is off (`T1n.cpp:733`); a T11 that is toggled
  off keeps its timer for the next On (`T1n.cpp:130`);
- analog values: 0.0 is never taken, and a sensor's NaN is stored but not published
  (`T5n.cpp:46`); `Tracks` exempts the first, `OutputsKnown` the second; T32 resets its
  first input twice and its second never (`T3n.cpp:378`);
- EEPROM: n addresses of two bytes are written one byte apart, so a restart of the gateway
  reads back part of its table (`tools/store/store.cpp:157`); `AddressesUnique` exempts
  the restarts that lose an address this way, and those of a node without EEPROM while
  a frame with its key is on its way;
- RS485: after a send that failed the next one transmits on a busy bus
  (`vNetDriver_usart.cpp:243`), bytes read while sending are parsed only when more come
  (`:380`), of two frames in one poll the second is lost (`:598`), and the test for the
  postamble may read behind the buffer (`:440`); `Delivered` asks for every frame only
  when they come one at a time;
- vNet: bridges in parallel need `VNET_LOOPS`, without it a broadcast circles for ever
  (`vNet.cpp:1296`); the scan of a full do-not-route table ends behind it
  (`vNet.cpp:1218`);
- `sleepInit` assigns the timer's mode over the input's in combined mode
  (`Sleeping.h:222`);
- with `START_PeerJoin` a peer stops joining once it is subscribed, so a gateway that
  restarts without EEPROM does not get it back; `Converges` is checked with
  `SLOW_PeerJoin`.

## 5. What is proved

`tlapm` checks the following for every value of the constants the `ASSUME`s allow: any
number of peers, any bounds, any healthy constants in the right order.

`SubscriptionProofs`:
- `TypeCorrect`: `Spec => []TypeOK`. The arithmetic of `Channel` is proved first, in
  lemmas about one visit, from the order of the four constants alone.
- `NoEarlyFailureHolds`: needs the relation between what was missed and what is left of
  the health, which each visit preserves: a debit comes with a request that is counted,
  a credit clears the count.
- `AddressesUniqueHolds`: the scan of the table by a join is the whole argument, with
  the initial addresses distinct by assumption.
- `NoCrossTalkHolds`: the strengthening says that stored data carries its peer's name
  at an index that is in use and that answers in flight carry the name of their sender;
  an answer finds the index by address, and addresses are unique and never move.

- `Implements == Spec => Replicates`, step simulation under the invariant above: answers
  are publications, storing one is `Apply`, losing one is `Drop`, a restart of the
  gateway is `Forget`, all else stutters.

`NodeProofs`, of what a node does by itself. It begins with what the searches of the buffers return (`FindFirst`,
`FindListed`, `EntryForDataFree`) and that a write or a clearing forgets at most one
node (`WriteKeeps`, `ClearedKeeps`). A search stops at the least position that fits;
that there is one is `LeastElement`, from the well-foundedness of strict inclusion of
finite sets.
- `PersistenceTypeCorrect`: also the byte behind the list, which the gateway's own data
  may write, never holds anything but a node or the null value.
- `NoticeKeptHolds`: `NoticeKept` is inductive together with the types. A write forgets
  only the node it overwrites; a reading clears only the node the interface was told of.
- `LastInTypeCorrect`: LASTIN never writes the byte behind its list.
- `LastDataKeptHolds`: needs `NoneAhead`, that no entry and no reader has data newer
  than the node's last: otherwise reading an old entry could not be told from having
  read the last data.
- `InTimeHolds`, for every wrap of the clock, all time bases and any period. It assumes
  `FitsInBase`: a pass is not longer than the fast time base (otherwise the slow rounds
  starve, see section 4), and the shift of a block is a phase there is. The invariant
  (`SchedInv`) ties the history to the clock (what has elapsed is the difference that
  the node computes, so that no wait laps `millis()`), says that a slow round that is
  overdue finds the fast one done, and gives what a block has waited as a function of
  the phase.
- `NoneForgottenHolds`, for any number of peers and interfaces and any losses. The
  invariant (`PollInv`) has two halves, each up to the excuse the property allows: what
  an answer in flight or in the table has brought its asker, and, in the order of the
  round, that every entry before the current one is covered.
- `NothingEarlyHolds`, for any number of pins, any hold time and any wrap: one conjunct
  per helper relates the state of the pin and the shared difference `elapsed` to how
  long the pin has been held (the difference never exceeds it), and for the steps what has come
  on to the quotient of that time.

`AntiTheftProofs`, for any number of nodes, faults and commands, and any delays:
- `TypeCorrect`.
- `NoFalseAlarmHolds`: needs that a watchdog that has not expired pays for the kicks that
  were missed (`Tolerant`), and that as long as nothing has happened there is no alarm
  anywhere, in an input, on the way or in the countdown (`Quiet`).
- `AlarmLatchedHolds`, `CountdownRunsHolds`: action properties from the same invariant.

`TypicalsProofs`, of one slot with any of the typicals in it, for any number of commands
and any travel of the door; the commands themselves, the times of the sensors and the
measures are those of the modules (`UserCommands`, `SensorCmds`, `Temps`, `Values`):
- `NeverBothHolds`, `RegulatesHolds`: the bits of T31's published byte are `Sound` in
  every state, and `Regular` with respect to the published measure and setpoint after a
  round without a command. The lemmas compute the bits of the byte the code adds up.
- `TracksHolds`: what is stored is within the dead band of what was taken, and what is
  stored and not yet known has its trigger.
- `NotEarlyHolds`, `ManualHoldsAlways`: the invariant says for T11, T12 and T1B
  that the timer is `left` (for T12 the countdown in the mailbox), and that what else
  waits in the mailbox is a user's.
- `PulseHonestHolds`: a feedback in OUT that is not the contact's is corrected before
  the next pulse: it is what the pin last wrote.
- `OffIsDarkHolds`: from the types of the levels and the branches of T19.
- `OutputsKnownHolds`: a door that has not told the subscribers its state has a trigger or
  keeps its command, a light has a trigger but for the good night of T16. One lemma per
  logic (`Tells_*`) says that a round publishes what it changes.

`T2nProofs`, for any travel of the door and any number of commands:
- `TypeCorrect`: the slot and the door.
- `RunBoundedHolds`: a motor's run is paid for. The strengthening relates the rounds run
  so far (`ran`) to what is left of the timer, per state of the door, with what a stop
  leaves over for T22.
- `NoReversalHolds`, `TemporaryStopHoldsAlways`, `EndStateJustifiedHolds`: action
  properties from the same invariant, by the branches of the two logics.

`SubscrTableProofs`, for any requesters, behind IP or not, any size of the table and any
number of deletions:
- `TypeCorrect`.
- `OneEntryEachHolds`, until the first deletion: needs that the free entries come last, for a
  search that stops at the first free entry has then seen all used ones.
- `KindMatchesHolds`, until the first deletion: with `OneEntryEach`, a request finds its own
  entry, and an entry is written whole.
- `OnlyNextMissedHolds`: whoever is still owed a turn, and was not right behind a deleted
  entry, has an entry ahead of the round (`OwedAhead`). The lemma `Moves` says why a deletion
  keeps it: of the entries behind the next one, each has moved down by one whole, or
  none of its own bytes was written, though the move may end in the middle of an entry.

`NetworkProofs`, of `Addressing`, for any nodes, table and number of faults:
- `TypeCorrect`.
- `AddressKeptHolds`: an answer is taken by the node with its key only while it has none.
- `AddressesUniqueHolds`: what end nodes have or may still take (from their queue, or from
  an answer on its way) is apart, and in the table but for the open request, whose
  address was in no entry when it was proposed. It is claimed while the table has room and no
  restart of the gateway has forgotten an address.

and of `VNet`, for any network, number of messages and size of the routing tables:
- `BroadcastReachesHolds`: not every network lets a broadcast get to everyone (with
  `VNET_LOOPS` it is repeated twice at most), so the theorem is of the networks that are
  `Covered`: there is a set of devices for each copy (`gets`: told apart by where it is
  heard, over which medium and with what destination) that the device there and the
  copies it repeats account for, and what a sender transmits gets to all others. That is
  a condition on the network alone. The invariant says that a device that has not
  processed a broadcast is still owed it: some copy on its way gets to it. A copy that is
  taken passes the debt on to its repeats, which are all sent in the same step, and
  in a quiet network nobody is owed anything. The order of copies and the routes
  they teach do not matter.
- `BackboneReaches`: a network is covered, with `VNET_LOOPS` or without, when every device
  is on one radio channel or on the bus of a supernode that is (`BackboneCovered`): two
  repeats get to everyone. `TwoBuses` and `Circle` of the `network` run are such
  networks; `Extended` is not, for its radios do not all reach each other, and it is
  covered because the extender repeats over the radio too.

`ReplyProofs`, of `VNet`:
- `RepliesReach`: `ReplyArrives` in any network that is a `Star`: one radio subnet whose
  radios all reach each other, the supernodes on it, and buses of which each has one
  supernode, with the first address of the bus; who is no supernode has one address; a
  routing table has room for all subnets. `TwoBuses` is one (`TwoBusesStar`, proved for
  three routes or more), and every `Star` is a backbone. The invariant (`ReplyInv`) says
  what a frame in such a network looks like (`FramesStar`: what began on a bus is heard on
  the radio from that bus's supernode only), what may have been learnt (`RoutesStar`: a
  route to a bus leads to its supernode, and a subnet has one route), that supernodes know
  the way to a source they or their neighbours have processed, or learn it from a copy
  that they take first (`PathsStar`), and that an answer has arrived or is a frame on a
  path (`RepliesStar`). Inboxes are queues, and that is needed: an answer over the radio
  may be sent before the supernode has learnt the way, but comes after the copy that
  teaches it. The copies from different senders may come in any order.
- The shape is needed by the proof, and not only by it. `Extended` and `Circle` are no stars
  and stay with the run. Where three supernodes reach each other over radio, each with a radio
  subnet of its own, a range extender's copies teach routes that lead round: in such a
  network (`<<101, 1>>`, `<<102, 1>>` and `<<103, 1>>`, a node `<<102, 2>>` that answers a
  broadcast of `<<103, 1>>`) TLC finds an answer that goes from supernode to supernode for
  ever.

Only model-checked:
- `ReplyArrives` in networks that are no `Star`;
- everything under fairness (`Converges`, `ComesToRest`, `RingRaisesAlarm`,
  `EventuallySeen`, `PollEnds`, `EveryoneJoins`, `TrafficEnds`), which is out of the
  prover's reach;
- `Delivered` of `Serial`: what the parser makes of a wire is an induction over its bytes, and
  it does not hold for every value of the constants. A payload may contain a frame of its own,
  and tokens that no frame follows stay in the buffer: with 12 of them and a buffer of 14 bytes
  TLC shows a frame whose first bytes are thrown away with the full buffer. The run
  has one token, and payloads that contain a preamble but no frame;
- the typicals' good ends (`ComesToRest`) and whatever the samples of section 3 leave out.

## 6. Not modelled, and what may come next

Not modelled:

- publish and subscribe of events: one slot of which the last event survives; that it is
  overwritten is part of `Addressing`, what it carries is not;
- sleeping nodes: two counters between two sleeps; a peer that does not answer is part
  of `Subscription`;
- user mode: one test of each frame against a list;
- of vNet, multicast, the Ethernet media, the do-not-route table and the checks of a
  frame's length; of RS485, the times of tokens and slots and a second medium; of the
  thermostats, T32; of MaCaco, AND and OR of registers and force by id or typical;
- text interfaces (HTTP, XML, Modbus), radio and Ethernet drivers, uIP, boards and tools:
  vendored code, parsing and chips, whose difficulty is not in the order of events. They
  are most of the repository's lines.

Next: publish and subscribe with its shared slot; T32; gateways with several media in
`Addressing`; which networks other than a star let replies find back.
