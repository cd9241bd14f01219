# A TLA+ model of h2tests

h2tests measures HTTP/2 settings on constrained nodes. A native daemon,
`slip-bridge` (Contiki's IPv6 stack in one process around a `select` loop), talks
over a serial line to `slip-radio`, the firmware of an 802.15.4 node; on top of
the network they make, shell scripts start servers and clients, sweep the
settings and summarise what was measured.

This directory holds the TLA+ modules that model that code, the configurations
under which TLC checks them, and the proofs TLAPS checks. `PROJECT.json` lists
components, runs, mutants, findings, hazards and theorems, and maps each
definition to the lines it stands for. Paths below are relative to `src/`.

    tlc -workers 2 -config SlipOut.cfg MCSlipOut.tla      # a run
    tlapm SlipOutProofs.tla                               # a proof

## The system

    TUN / uIPv6 / RPL / MAC layer                 (Contiki, not in this repository)
         |  send_packet                ^ callback        ^ packets      ^ addresses
         v                             |                 |              |
    slip-bridge-rdc.c  callbacks ring  +--- slip-bridge-cmds.c ---------+ slip-bridge.c
         |  write_to_slip "!S" "?M"             ^ "!R" "!M"
         v                                      |
    slip-dev.c output queue            slip-dev.c input decoder
         |                                      ^
    =====|============= serial line ============|=================================
         v                                      |
    slip.c (Contiki) -> slip-radio.c packet_ids ring -> slip-net.c, putchar -> UART

| Component | State | Operations | Hard because | Correct when | Modules |
|---|---|---|---|---|---|
| Output queue, `slip-dev.c` 283-414, 462-545 | `slip_buf`, `slip_begin`, `slip_end`, `slip_packet_end`, `slip_packet_count`, the pause timer | `write_to_slip`, `slip_flushbuf`, the select callbacks | short writes inside a packet, packets appended meanwhile, overlapping `memcpy`, overflow, the pause | bytes go out once and in order, packets whole, none stranded | SlipOut |
| Input decoder, `slip-dev.c` 148-281 | `inbuf`, `inbufptr` | `serial_input` | lost bytes, ESC at the end of what can be read, packets longer than `inbuf`, debug output in between, echo | an undamaged packet reaches its handler once and whole | SlipIn |
| Radio's writers, `slip-net.c` 50-69, `slip-radio.c` 184-212 | `debug_frame` | `slip_send_packet`, `putchar` | packets in the middle of a debug line | (see decoder) | SlipIn |
| Transmission sessions, `slip-bridge-rdc.c`, `slip-radio.c` 61-172 | `callbacks`, `callback_pos`; `packet_ids`, `packet_pos` | send, "!S", "!R" | slots reused unseen, ids read late, lost commands and reports, restarts of one end | a report calls the callback of its packet, at most once | TxSession |
| Frame parser, `no-framer.c` | none: it reads a frame's addresses into the packet buffer | `parse` | | a packet goes to the receiver of its own header | not modelled |
| Start-up, `slip-bridge.c` 219-367, `slip-radio.c` 141-153 | `mac_set`, `uip_lladdr`, addresses, DAG | ask, set MAC, set prefix | lost, repeated and late answers | comes up; addresses are the radio's; the root is reachable | Startup |
| Command line, `slip-config.c` | `slip_config_*` | the `getopt` loop | options given twice, optional arguments, 16 bits for `-d` | the program starts with what was asked for, or refuses | SlipConfig, Startup |
| TUN throttle, `tun-bridge.c` 278-311 | `delaymsec`, start time | `handle_fd` | a clock of whole milliseconds that may be set, a difference that wraps | packets at least `basedelay` apart, the host not shut out | Throttle, Bridge |
| Sensor readings, `slip-bridge.c` 269-292, `slip-radio-sky-sensors.c` | `sensors`, `sensor_count` | print in hundredths, cut at ';' | rounding towards zero, entries that held longer texts, joined reports | the page shows what was measured | Sensors, Bridge |
| Console and channel commands, `slip-bridge-cmds.c`, `slip-radio-{cc2420,rf230,mc1322x}.c` | `command_context` | "!G", "?M", "?C", "?S", "!C" | one handler for two sources | context decides what is obeyed | in part: Startup, TxSession, Sensors |
| Web server, `httpd-simple.c`, `slip-bridge.c` 113-214 | pool of connections, static page buffer | `httpd_appcall`, `generate_routes` | timeouts, state used after it is freed, connections sharing the buffer | a block has one owner and comes free; a page lists every entry once | Httpd |
| Experiment driver, result files, `run_experiment.sh` 243-377 | result files, loop variables | sweeps, rows, resume | a kill between the parts of a row, columns that move, exponents and values | every point measured, nothing lost | Sweep |
| Experiment driver, children, `run_experiment.sh` 107-242, 378-547 | the arrays `fds`, `pids`, pipes, output files | launch, wait, quit, close, `finish` | arrays assigned without an index, time limits, signals between a launch and its registration, broken ssh of children and of clients | no child is left; a row has its own experiment's numbers | Experiment |
| Server and client scripts, `scripts/` | temporary files, totals | life cycle, sums | two scripts writing one file, clients that are late, no success at all | sums match the requests made | Experiment, in part Sweep |
| nghttp2 patch, Makefiles, Vagrantfile | | | | | not modelled |

## Modules

- **SlipBytes**: the byte stuffing. A byte is one of the four SLIP bytes or a
  member of `Data`. `Escape` and `Unescape` are the two switches; `Received` is a
  receiver that sees the whole line and stands for Contiki's `slip.c`, which the
  repository does not contain.
- **PacketPipe**: abstract. Packets accepted at one end come out at the other,
  whole, once, in order.
- **SlipOut**: the output queue. `slip_buf` is the sequence of its first
  `slip_end` bytes; the other variables have the numbers they have in C.
  `WriteToSlip`, then `PutByte` for each byte and `EndPacket` are one call of
  `write_to_serial` (the select loop waits for it); `ShortWrite`,
  `PacketWritten` and `WriteFails` are the outcomes of the `write` in
  `slip_flushbuf`, each with all that follows it there; `Overflow` is `err(1)` in
  `slip_send`. The test `slipfd > 0` of `write_to_slip` is left out: the device is open
  from `slip_init` on. Undefined behaviour: the `memcpy` at line 333 copies between areas
  that may overlap. `MoveRest` chooses between a copy that runs up, which is
  harmless, and one that runs down, which sets the history variable `scrambled`.
- **SlipIn**: the other direction. `SlipSendPacket` and `Putchar` give the UART a
  sequence of bytes tagged with the packet they belong to; `Writeb` puts one on
  the line, `Lose` loses it; `ReadByte` and `ReadEscape` are turns of the loop of
  `serial_input`, which may find nothing to read after any of them; `ReadFails` is
  `err(1)`. `handled` records what each END handed to which handler.
- **TxSession**: both rings. Packets are numbered as they are sent, and the slots,
  commands, transmissions and reports carry the number, so that a property can
  compare the callback called with the packet reported. The line loses packets
  but keeps their order: that is what SlipOut and SlipIn establish, and why
  TxSession does not go down to bytes. The `Window` is how many packets the MAC
  layer leaves unanswered: it holds each in a queue buffer, of which there are
  `QUEUEBUF_CONF_NUM` = 4 (both `project-conf.h`), fewer than the 16 slots. With it a
  slot in use is never overwritten within one run of the bridge: what happens
  when a MAC layer leaves more packets unanswered is outside this model, and the
  properties of TxSession do not speak of it.
- **TxPromise**: abstract. What the driver promises the MAC layer: an answer at
  most once, and only while it is waited for.
- **SlipConfig**: `slip_config_handle_arguments` on a command line that `getopt` has
  split: what is refused, the last of repeated options, `-d` without a number and
  its 16 bits (`DelayRange`), and the devices `slip_init` then tries.
- **Startup**: `slip_bridge_process` with its loop (`Start`, `AskAgain`, `GoOn`),
  `slip_bridge_set_mac` (`SetMac`), the radio's answer, losses and restarts. `Start`
  reads the command line and opens the devices, which may be missing; `Refuse`
  ends with the usage. What `uip_ds6_init` and `rpl_init` do (they are
  Contiki's) is `InitStack`: one link-local address, no DAG.
- **Throttle**: `handle_fd` of the tun device. Time passes in `Parts` of a
  millisecond (`Tick`), the clock that the code reads shows whole ones, and the
  difference it computes, `elapsed`, is an int of `IntRange` values that wraps.
  `SetClock` is somebody setting the time. `ReadTun` is a turn of the loop that
  reads a packet and takes the time, `EndDelay` one that finds only the delay over.
- **Sensors**: `send` of the sky radio, with C's division, and
  `slip_bridge_set_sensors`, character by character, since an entry keeps the end
  of what it held before; a report may run into the next (`SensorData`). The `memcpy`
  of line 281 writes a text that is longer than its entry into the next one; the
  texts of the sky radio have at most 8 characters and an entry 32, so that
  `SensorsAssumption` (room for 9 and more) leaves this out.
- **Bridge**: the composition. Start-up, throttle and sensors run in one loop and
  share the state of the start-up: the devices are open from `Start` on, the delay is
  that of the command line, and every restart begins with fresh variables.
- **Sweep**: the four `test_*` functions of `run_experiment.sh` and the part of
  `run_experiment` that writes results. A result file is a sequence of lines, a line
  its first six fields (what `tail -n 1 | awk` can look at) and whether its
  newline is there; histories say which values it shows, how many rows were begun
  in it, and whether they have their times. `Resume` and `StartOver` read the last
  line, `Skip` is the `continue`, `RunExperiment` stands for the server and the
  clients, from which only the times and the totals come back; `WriteTimes` ..
  `WriteNewline` are the six commands that append to the file. `Killed` may come
  between any two of them, `Start` is the next script. A server whose output lacks
  a time (killed before it printed it) makes `printf` write fewer fields.
- **Httpd**: the web server. Each action is one event of uIP and the whole call of
  `httpd_appcall` that handles it: `Connect`, `NewData`, `Acked`, `Rexmit`, `Poll`,
  `PollLate` (the poll that finds the timer expired), `ClosedByClient`, `Aborted`,
  `TimedOut`. `httpd` has the blocks of the pool with the places of their threads
  (which line of the request `handle_input` reads, after which `SEND_STRING`
  `handle_output` waits); `gen` has the static variables of `generate_routes`, which
  all connections share. `Resumed` is the code between one wait and the next. The
  buffer holds rows and headings, not characters; two neighbors fill it. A segment
  has at least one whole token of the request, the two lines of the headers are
  sent as one, and the tables do not change while a page is sent. Outside the
  repository, and so assumed of uIP: it polls only when nothing is unacknowledged, it
  takes the first free connection, asks for lost data again instead of keeping a
  copy, drops a connection that the server closed and whose client acknowledged that
  but never closes itself (FIN_WAIT_2) by its timer, without a call (`Dropped`), and reports the end of a connection that its client closed a second time
  at the last acknowledgement or a reset (`ReportedAgain`), or not (`Forgotten`).
  Histories: `dropped`, the blocks lost with such connections; `got`, what the client has of the page; `mixed`, whose pages were sent
  while another was; `stolen`, that a second report freed a block in use.
- **Experiment**: the processes. A child is the subshell of a process substitution,
  named by the order in which it is launched; `pipe` says whose pipe a descriptor
  is, `proc` whether the child lives, `server` how far its `nghttpd.sh` is. `fds` has
  the texts that the assignments without an index leave in it (`Removed`), which
  decide what `close_all_fds` closes (`Listed`, `AfterAll`). `${fds[@]#$1}` cuts a prefix
  of the text, not a word; `Removed` takes whole words because `ExperimentAssumption`
  allows at most 89 nodes, with which all descriptors have two digits (from 10 to 99):
  with more, taking out 10 would also cut 100 to 109, which is not modelled. `redirect_right` and
  `register_fd` are two steps, since a signal may come between them; `Quit`,
  `WaitLonger`, `QuitAgain`, `ServerGone`, `WaitExpires` are the end of an experiment;
  `finish` is the trap, called once at an exit and twice at a signal (`Signal`).
  `Cleanup` and `SummaryDone` are the clean-up of `nghttpd.sh`, which writes its file in
  two parts; `Summary` and `Totals` what the awk scripts make of a client's
  requests. `iotlab` chooses between a run at home and one in the lab; there,
  the ssh of the router, a bridge or a server breaks (`ConnectionBreaks`), or that of a
  client (`ClientConnectionBreaks`), and clients are late (`ClientsTimeOut`). The
  subshells of `run_in_a8` that hold the clients' ssh are no children in this sense:
  `wait_for_pids` knows them, `finish` does not. In `unseen` are the clients whose end
  the driver did not see, since their ssh broke or time was up: `wait_for_pids` takes
  them for done, while the client on the node may run on, append its record later,
  for fewer requests, or never (`ClientEnds`, `Ended`). Assumed: `>>` of clients on
  different nodes to the one file in their shared directory do not overwrite each
  other, and the driver reads what they wrote.
- **MCSlipOut, MCSlipIn, MCStartup, MCBridge, MCSweep, MCExperiment**: the payloads,
  frames, command lines, readings, ranges and output files of the runs.
- **SlipOutProofs, SlipInProofs, TxSessionProofs, BridgeProofs, SweepProofs,
  HttpdProofs, ExperimentProofs**: the proofs. **ListFacts**: lemmas that several of
  them use.

A definition that differs from the code on purpose stands right before the
definition it is a mutant of, under a comment that names it a fault; nothing
refers to it in the models.

## Runs

| Run | Checks | Bounds |
|---|---|---|
| `slip_out` | `TypeOK`, `BufferOK`, `InOrder`; refines PacketPipe; `EverySent` | `slip_buf` of 8 bytes, 3 packets with each kind of escape: two fit, the third overflows or is appended to a half-written one; both orders of `memcpy` |
| `slip_delay` | finds `DelayBetweenPackets` violated | as above, harmless `memcpy` |
| `slip_in` | `TypeOK`, `IntactHandled`; refines PacketPipe; `EventuallyHandled` | `inbuf` of 4, a report whose id is '\n', a packet of escapes, one that is too long; two packets, two printed characters, two kinds of loss |
| `slip_in_echo` | finds `EchoTakesNothing` violated | verbosity 2, no losses |
| `tx_session` | `TypeOK`, `RightCallback`; implements TxPromise; `Answered` | rings of 2, so that 5 packets go round twice; two losses, a radio reset, a restart of the bridge |
| `startup` | `TypeOK`, `AddressesAreTheRadios`, `RootHasItsAddress`, `ComesUp`, `SpacedApart`, `HostIsHeard`, `ShownAsMeasured`, all of Bridge | 3 packets on their way in each direction, 1 restart, six command lines; and, one kind in each behaviour (`Inputs`), 3 losses, or packets of the host with delays of 0 to 2 ms in parts of a half, an int of 7 values and one setting of the clock, or two reports of three readings |
| `startup_late` | finds `AddressesComeBack` violated | Startup alone, 3 losses |
| `sweep` | `TypeOK`, `NothingSkipped`, `KillsCostLittle`, `OnlyBrokenLinesCostTheFile` | four values in the first and the last sweep, one and two in the others, up to the exponent 24; 2 kills, 1 row without a time, one request |
| `sweep_frame_size` | finds `FrameSizesResume` violated | as above, 1 kill, all times there |
| `httpd` | `TypeOK`, `NoLeak`, `OneOwner`, `PageWhole`, `BlocksComeFree` | 2 blocks as in `project-conf.h`, 3 connections of uIP, so that one is refused or finds a block that was just freed; 2 neighbors, 2 routes, 1 sensor, a buffer that the neighbors fill; 3 connections opened in all, each of which may be dropped |
| `httpd_buffer` | finds `SentAgainAsItWas` violated | 2 connections |
| `experiment` | `TypeOK`, `NothingLeft`, `TimesAreOwn`, `CountsAreOwn`, `ServersEnd` | at home with one client, in the lab with a router, two bridges and two clients; three experiments, the first and the last with the same output files; one request for each client; two broken connections, of children or clients; one experiment whose server, or some of whose clients, the driver does not see end |

The bounds are small because the code is uniform in what they bound: a packet is
treated like any other, a slot like any other, and the interesting cases (full
buffer, wrapped ring, second packet appended, packet too long) all occur. Most of
what does not depend on a liveness argument is also proved for every bound.

Two bounds deserve a word. `Inputs` gives a behaviour of Bridge the host's traffic, or
readings, or losses on the line, but not two of them: these handlers write no
common variable, and no step of BridgeProofs uses that a behaviour has but one of
them. `IntRange` is greater than twice `DelayRange`, as an int of 32 bits is
greater than twice a `uint16_t`; with these seven values the difference wraps in
every run that waits long enough. In `experiment`, `MaxLate` = 1 lets each exception of
its properties occur, and an experiment without it before and after.

### What the violations show

- `slip_delay`: `slip-dev.c:346` announces "a delay between slip packets to avoid
  losing data". The timer is set only if more bytes are queued when a packet ends
  (line 338): one queued just after that starts at once.
- `slip_in_echo`: `slip-dev.c:265` and the usage text (`slip-config.c:152`) speak of
  echoing lines. The echo also empties `inbuf`, whatever it holds: a report "!R"
  with session id 10 is printed and lost, and its callback is never called.
- `startup_late`: the comment at `slip-bridge.c:252` asks that the addresses be
  removed and added back again. An answer to a repeated "?M" that arrives after
  the loop ended removes the border router's address and DAG, and nothing adds
  them back.
- `sweep_frame_size`: `TROUBLESHOOT.md:20` says of all four files that a script goes on
  from the point where the file ends. `test_max_frame_size` writes 2^n into the row
  (`run_experiment.sh:349`), takes that number plus one for its start (line 337) and
  compares exponents with it (line 345): every frame size left is skipped.
- `httpd_buffer`: `httpd-simple.h:45` says that the web server "needs no per-connection
  output buffer". What is sent lies in one static `buf` (`slip-bridge.c:115`), and
  two connections are allowed: if the other connection's page went on since, a
  retransmission sends that page's text.

### What the properties leave out, and why

- `BufferOK`, `InOrder`, `IsPacketPipe` of SlipOut hold until `memcpy` scrambles an
  overlap; a build whose `memcpy` copies upwards never does.
- `IntactHandled` wants both ENDs before a packet to arrive: an ESC whose partner
  is lost swallows the first. A packet that fits and of which no prefix is
  echoed; the rest is `slip_in_echo`'s subject.
- `RightCallback` and `KeepsPromise` hold until a report of an earlier run of the
  bridge is taken for one of this run. Without a restart they hold always; after
  such a report they really fail, and `Answered` with them. Nothing in the protocol
  tells the two runs apart.
- `Answered` excepts packets the line or the radio lost: the driver has no timeout.
- `NothingSkipped` excepts the frame size, which is the subject of `sweep_frame_size`,
  and files with a row that lacks a time: the columns after it move, the next
  script takes another parameter for its mark, and values really are skipped.
  A value counts as shown once its parameters are in the file: a killed script
  leaves half a row that the next one takes for a whole one and writes on behind it.
  `KillsCostLittle` says how much that can spoil: two values for each kill.
- `ComesUp` is about border routers: in bridge mode `mac_set` is never set, and the
  process asks every second for ever. A command line that is refused, or a device
  that is missing, ends the program.
- `SpacedApart` excepts pairs of packets between which the clock was set: back, and the
  delay ends at once (a negative difference), ahead, and it ends early.
- `HostIsHeard` says that neither shuts the host out for good. How long it waits is
  up to the width of the int.
- `ShownAsMeasured` excepts temperatures and humidities between -0.99 and -0.01, whose
  sign is lost (`slip-radio-sky-sensors.c:51`), and the humidity of a report that ran
  into the next one.
- `NothingLeft` excepts a child that a signal keeps from being registered, and the
  bridges of the lab when the driver ends by itself, or by SIGPIPE, before it has
  closed one server: `finish` then runs once and sees only the first text of `fds`.
  Of the clients' ssh (`run_experiment.sh:99`, launched at line 163) `finish` knows
  nothing. A signal while clients run leaves all of them in the lab, with their
  subshells; an end of the driver's own leaves those clients that it had given up
  or whose ssh broke.
- `TimesAreOwn` excepts experiments whose server, or an earlier one with the same
  file, the driver did not see end: its file may still be written.
- `CountsAreOwn` has two parts. A row counts at least the requests of each client that
  the driver saw end, whatever happened to the others. It counts exactly the requests
  of all clients unless there is a client with the same file, in this experiment or an
  earlier one, that the driver did not see end: its ssh broke, or its time was up.
  The row then really lacks that client's requests, or some of them, or an earlier
  experiment's come in. The totals that `summarize-client-results.awk` reports leave out failed
  requests; without a success `summarize-client-totals.awk` divides by zero and the
  row lacks its end, which is what `whole` tells.
- `ServersEnd` excepts a server of the lab that a signal kept from being registered:
  nobody kills its ssh.
- `OneOwner` and `PageWhole` hold until a second report of an end frees a block that is
  another connection's by then: from there on two connections can share it.
- `PageWhole` is about pages sent while no other was. Those that overlap share the
  cursors `nbr`, `r` and `i`, and really skip and repeat rows.
- `NoLeak` and `BlocksComeFree` except the blocks in `dropped`: a client that acknowledges
  the server's close and never closes itself costs a block for good, since uIP ends
  that connection without a call, and nothing else frees the block. Two such clients
  leave the server without a block until it is restarted.
- `BlocksComeFree` is stated for a bounded number of connections. That a block serves
  one connection after the other for ever is not excluded by it, nor meant to be.

The bounds of `sweep` leave the interesting case room: two kills can spoil four of
the nine values, in one file or in two, and a kill can hit the row that follows
the half row of the one before.

### Fairness

- SlipOut: the loop of `write_to_serial` runs to its end; the device takes bytes
  again and again (`WF` of a write that makes progress: EAGAIN for ever is not
  excluded by the code, but by a UART that runs); the select loop polls the timer.
- SlipIn: the UART sends what it was given, select reports what arrived. Nothing
  says that a byte is not lost.
- TxSession: both ends handle what arrives, a transmission ends with its callback.
  No fairness for losses, resets, restarts or sends.
- Sweep: none. Nothing starts a killed script again but its user.
- Httpd: uIP polls a connection at which nothing happens until its ten seconds are
  over. One that waits for an acknowledgement, or has closed, gets what it waits for,
  is given up with a report, or, if only the client's own close is missing, is
  dropped without one: which of them is not said, and a report is not promised.
  None for clients.
- Startup, Bridge: the process runs and its timer expires; both ends read the line;
  time passes. Losses and restarts are bounded in number, without which no protocol
  comes up. Strong fairness for a turn of the loop that finds the delay over: the
  loop calls `handle_fd` in every turn, and the difference stays above the delay for
  days before it wraps.
- Experiment: the driver sends its q, a server that finds one, or the end of its
  pipe, cleans up. None for clients, time limits or signals.

## Proofs

All for every value of the constants that satisfies the named assumptions
(`SlipBytesAssumption`, `SlipOutAssumption`, `SlipInAssumption`,
`TxSessionAssumption`, `SlipConfigAssumption`, `StartupAssumption`,
`ThrottleAssumption`, `SensorsAssumption`, `ReadingsAssumption`, `BridgeAssumption`,
`SweepAssumption`, `HttpdAssumption`, `ExperimentAssumption`); TLC evaluates these on the instances. `SweepAssumption`
contains that 2^0 .. 2^24 are positive numbers: the provers do not know powers.
`ThrottleAssumption` contains that the delays of the command lines are numbers.
`ReadingsAssumption` contains what the 14 and 12 bits of the sensor can mean.

- **ListFacts**. The library's induction theorems take an operator, which no prover
  instantiates. `Induction` is stated of a set instead, that has 0 and with each
  number the next; it comes from the well-foundedness of `<`. With it a recursive
  function is first shown to exist (`Flattened`, for `FlattenSeq`), and then to have
  what is claimed of it (`FlattenedGrows`, `FlattenedHas`). Folds of the other modules
  are treated in the same way where they are used.

- **SlipOutProofs**. `TypeCorrect` is inductive by itself: `slip_begin` stays before
  `slip_packet_end`, that before `slip_end`, that within the buffer; for the copy
  that runs down it needs that its reads stay in the buffer (`StrideInRange`).
  `BytesInOrder` needs only the types: a short write moves bytes from the queue
  to the line (`SplitSuffix`), the end of a packet drops what was written.
  `NothingStranded` needs the invariant `FrameShape`: the ENDs in the buffer are
  the ends of packets, the first of them is `slip_packet_end`, and only an
  unfinished `write_to_serial` may leave bytes after the last. The lemmas `EndsOf..`
  count ENDs when bytes are appended and when a packet is cut off.
- **SlipInProofs**. `TypeCorrect`: `inbufptr` is below the size of `inbuf` whenever a
  byte is stored, because the test for room follows each store.
  `IntactPacketsHandled` is `IntactHandled`, for all packets whose bytes ask for the
  handler that they are meant for (those that do not are the hazard at
  `slip-dev.c:210`; TLC evaluates the same condition on the frames of its run). The
  invariant `DecoderInv` follows each packet that arrives whole and that nothing joins
  to another: it is `Ahead`, with all of its bytes on the line in their places
  (`Placed`), `Begun`, with the first k of them in `inbuf`, unescaped, and the rest first
  on the line, or `Gone`, and handled once. An escape cut off by a loss can take the END
  of a later packet; `EscapesEnd` says that the END of each packet in between
  is still to come.
- **TxSessionProofs**. `TypeCorrect`: both cursors stay in their rings, all ids on
  the line name slots.
  `ReportsFindTheirCallbacks` is `RightCallback`, `PromiseKept` the
  refinement of TxPromise. The invariant `AnswersOK` says that the packets in the
  reports, the radio and the commands are in the order in which they were sent
  (`OrderOK`), and that a packet of this run that is on its way keeps its slots:
  `Kept` says that its callback is still in its slot, with the cursor as many slots
  ahead as there are unanswered packets since, and that those are at least the
  packets behind it on the line (`DownOK`, `PendingOK`, `UpOK`). The window leaves
  no more unanswered packets than slots, so no cursor has gone past one of theirs (`KeptWhenSent`,
  `SlotElsewhere`), and an answer to an earlier packet does not change what is
  unanswered after a later one (`KeptWhenAnswered`). Losses and resets only take
  packets from the line; a restart leaves only packets of an earlier run there, of
  which nothing is said, and one that calls a callback makes the history stale
  for good (`StaleForEver`).
- **BridgeProofs**. Of Startup: `TypeOK /\ AddressesAreTheRadios /\ RootHasItsAddress`
  is inductive: `GoOn` needs that `mac_set` implies the radio's address, `SetMac` that
  answers carry it. `BridgeIsStartup`: the whole program implements Startup, so that
  the three hold of it, too (`ProgramKeepsStartup`). `HostSpaced` is `SpacedApart`: the invariant `SpacingOK`
  says, while a delay runs and nobody has set the clock, how the time that the code
  sees relates to the time that passed (`ClockTells`): they differ by less than one
  millisecond, and the difference does not wrap before the delay is over
  (`AsIntHolds`). `OverMeansSpaced` then needs the `>` of `handle_fd`: with `>=` a packet
  can come a part of a millisecond early. `ReadingsShown` is `ShownAsMeasured`, which
  is inductive by itself; the work is in what the operators on texts do. What the radio
  writes for a number is a sign, at most three digits, a point and two more, and is
  `Hundredths` of the number but for the lost sign (`NumberPlain`, `Rounding`,
  `ReadingPlain`). Such a text has no semicolon, so that the bridge cuts a report where
  the radio joined it (`CutsExist`, `FirstCut`, by induction over the data; `Report`),
  and it has no NUL and fits the entry, so that the page prints what was put there, up
  to the NUL, whatever is left behind that (`EntryShows`).
- **SweepProofs**. `TypeCorrect`, with lemmas on what a write does to a line
  (`ExtendedLine`) and to a file. `AllValuesShown` is `NothingSkipped` for every
  range and every number of kills; its invariant `SweepOK` says what the last line
  of a file stands for (`MarkOK`: every value up to its mark is shown, whichever of
  the six commands the script died after), what the running loop has done (`LoopOK`),
  and that sweeps already passed are complete (`DoneOK`). `FilesKept` is
  `OnlyBrokenLinesCostTheFile`: a last line that is ended and has its times has a mark
  (`BrokenInv`), and a file whose last line has one is continued. `TwoLinesAKill` is `KillsCostLittle`, by counting: `CostOK` bounds the values that
  are passed by without a line of their own by two for each kill; `RowInv` says which
  value the row under way is for, and that none was passed by without a kill. A step
  of the loop passes no such value (`Costs` stays), and a kill adds two at most.
- **HttpdProofs**. `TypeCorrect` contains the bound on the shared buffer: `blen` is at
  most a full buffer and one heading for each block. Its invariant `GeneratorOK` counts
  them: a thread adds its heading without emptying the buffer as it leaves "end", so
  each thread that waits there still has one to add, and only the others can have
  added theirs; `NothingLeaks` and `BlocksHaveOneOwner` are inductive with the types:
  only `Connect` gives a block away, and takes it from those that are not `used`; each
  end that uIP reports frees the block, and the one that it does not report puts it
  into `dropped`, which `Dropped` alone adds to.
  `PagesWhole` is `PageWhole`: the generator's recursion over the rows has a value for
  each length of the tables (`Computes`), and between two blocks of a page that is sent
  alone, what was sent, what the buffer has and what the cursors have yet to reach
  make up the page (`PageInv`).
- **ExperimentProofs**. `TypeCorrect`, by `IInv`: the types, where the driver can be
  with how many children (`ControlOK`), and that each open descriptor is another
  child's (`PipesOK`), so that by the pigeonhole one is free for the next. `NothingIsLeft`
  is `NothingLeft`; its invariant `ListsOK` says which descriptors the array `fds` has:
  each that was registered, in some text, and once a server was closed all in the
  first (`RemovedArray`, about the text that `fds=${fds[@]#$1}` makes). `finish` reads the
  first text, in a list expanded once; `SecondList` shows that after one pass of
  `close_all_fds` the first text has every word that the pass did not close, so that the
  second call, after a signal, ends all of them. `OwnTimes` is `TimesAreOwn`, by
  `ServersOK`: a server whose end the driver has seen has written all of its file, and
  the earlier ones of the same file are done. The
  clients' part of `NothingLeft` is `ClientsRun`: those that run are the current experiment's, at
  its clients or after a signal, or are among those that the driver did not see end.
  `OwnCounts` is `CountsAreOwn`, by `ClientsOK`: from the launch until the row, the file
  has a record of each client that neither runs nor is unseen (`HasSeen`), and if
  nobody with this file is unseen (`AllSeen`), it has no other record, and each counts all
  requests (`Own`). `SumsAddUp` is the sum of the awk script, by induction over how many
  records there are. All of this is for at most 89 nodes (`ExperimentAssumption`).

Only model-checked: the liveness properties (fairness is beyond the prover), and the
refinements of PacketPipe (the receiver is a fold over the whole line, packets of
which some are cut).

## Disagreements without a run

Met while modelling; each is a constant of the program rather than a behaviour, so
that no run is spent on it.

- `slip-config.c:156` says that `-v` is "Equivalent to -v3"; the code sets 2. Line 151
  calls `-v1` the default, which is 0.
- `slip-config.c:158` says "Actual delay is basedelay*(#6LowPAN fragments)"; `handle_fd`
  takes `basedelay` alone.
- The option string has `-D` and `-T`, which the switch refuses, and gives `-H` an
  argument that the usage does not mention.
- `tools/slip-bridge/README.md` lists the commands `!Q` and `!C`, which no handler takes.

## Plan

1. Done: SlipBytes, PacketPipe, SlipOut, SlipIn, TxSession, TxPromise, Startup, Sweep,
   Httpd and their proofs.
2. Done: SlipConfig, Throttle, Sensors; Bridge, which composes them with the
   start-up; BridgeProofs, and the answers in TxSessionProofs.
3. Done: Experiment, the driver's children with the two scripts they run, and
   ExperimentProofs; ListFacts, and with it `IntactPacketsHandled` and `PagesWhole`.
   `ShownAsMeasured` in BridgeProofs.
4. Left to prove: the refinements of PacketPipe.
5. Left to model: the averages of the awk scripts, if only as operators over
   bounded samples; the lists of packets that `send_list` drops, if Contiki's MAC layer
   is modelled beside it.

## Not modelled

- Contiki (the IPv6 stack, RPL, the MAC layer, the radio drivers, `slip.c`), uIP, ssh,
  nghttp2 and its patch: not in the repository, and present as what the code
  assumes of them.
- Console commands that change no state of this code: `?S` and `?M` of the console and
  the answer `!C` print, `?C` and the radios' `!C` forward a number to the driver, `!G`
  hands a repair to RPL. The output of `-v`, of the log format and of the sensors'
  debug lines.
- `parse` of `no-framer.c`: `slip-radio.c` clears the one packet buffer, copies a frame
  into it and parses it in one handler, so that no frame heard in between can leave
  its receiver there; what is left is the reading of a header, which is Contiki's.
- Opening and configuring devices (`devopen`, `tun_alloc`, `ifconf`, `stty_telos`,
  `cleanup`), and `-s null`, a bridge without a radio.
- Averages and deviations (`summarize-*.awk`, `nghttpd.awk`), `consumption.awk`,
  `h2load.sh` and `h2load.awk`: arithmetic on floating-point numbers, or not
  called by the driver.
- Flashing and reserving the nodes of the lab, `open_fd` and `redirect_left` (nothing
  calls them), and runs with only one of `IOTLAB_SERVER` and `IOTLAB_CLIENTS`.
- Makefiles and the Vagrantfile.
