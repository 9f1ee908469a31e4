# A verification project for 0xFFFFE

0xFFFFE is a collection of fuzzing set-ups for embedded and network software.
Most of it wires an existing fuzzer to an existing target; the logic of its own
is in the harnesses: they turn one opaque input into a conversation with a
stateful program, and they decide what the outcome of a run was.  A defect
there does not crash anything.  It makes the fuzzer test something else than
its user believes, or report something else than what happened.  That is what
this project is about.

Paths below are relative to the repository.

## 1. Inventory

| Part | Source | State it keeps | Operations | Status |
|---|---|---|---|---|
| Fuzz transport | `examples/10_afl_mqtt/src/esp_transport_fuzz.c` | input and read offset, reply buffer and two indices, connected, autopilot, mode, fragment size | create, connect, read, write, poll, close, destroy | modelled |
| MQTT harness | `examples/10_afl_mqtt/src/harness.c`, `mocks/include/MockAFL.h` | three flags, loop counter, transport, client | parse flags, AFL loop, run one input | modelled but for `read()` failing |
| FreeRTOS mocks | `examples/10_afl_mqtt/mocks/include/freertos/*.h` | event bits, mutex, threads | set/clear/wait bits, take/give, create/delete task | event groups and deletion modelled; creation and the recursive mutex left out |
| Platform mocks | `examples/10_afl_mqtt/src/platform_host.c`, `mocks/include/esp_event.h` | a tick counter that outlives an input | tick, id, random | left out: stubs |
| Seed generator | `examples/10_afl_mqtt/gen_seeds.py` | the output directory | encode packets, write them plain and with a mode selector | modelled |
| lwIP fuzz application | `examples/09_aflnet_dhcp_server/fuzz_common.c` | the pool of fuzz data, TCP and UDP connections | read data, feed packets, five kinds of callbacks | modelled but for set-up and clock |
| UDP feed | same, and `udp_fuzz_example.py` | one socket each | send, receive with a timeout | receiver modelled |
| boofuzz, IoT parser | `tools/boofuzz/iot_parser_fuzz.py` | process, exit code of the last run | open, send, close, judge | modelled but for the message definitions |
| boofuzz, mDNS | `tools/boofuzz/mdns.py` | none of its own | ping, build questions | left out: all state is boofuzz's |
| Radamsa campaign | `tools/radamsa/run_fuzzer.sh` | four counters, three directories, a log, a temporary file | mutate, run, classify, interrupt | modelled |
| mDNS receiver | `examples/08_afl_mdns_gcov/mdns_parser.py` | the parsed packet, what was looked up for a record, results of searches and browses, own names | questions, records, collisions, answer, clean-up | the function and its loop modelled; what it calls external |
| mDNS test cases | `examples/08_afl_mdns_gcov/make_cases.py` | directories, test cases, coverage counters and report | ask for a script, run it, run its cases, measure | modelled |
| Demo parsers | `projects/sample/iot_parser.c`, `tools/angr/packet_parser.c` | none (pure) | parse | left out: fuzz targets with deliberate defects |
| Other demos | `tools/klee`, `projects/hello_world`, `tools/angr/solution.py`, scripts, CI | none | - | left out: one-shot, stateless |

How they interact:

- The harness owns one transport and one client per input.  The client calls
  the transport through a table of function pointers; the transport plays the
  broker.  It answers out of its reply buffer first and out of the input second,
  so what the client reads depends on what it wrote before.
- lwIP is called with a packet and calls the fuzz application back *while it
  processes that packet*; the application takes what it sends from the same
  pool the packets come from.  The pool is shared state between a function and
  the callbacks it causes.
- The campaigns run a target process per test case and judge it by its exit
  code, with a timeout and, for Radamsa, an interrupt at any moment.
- `mdns_parse_packet` is the C function under test of the mDNS example, kept as
  text in `mdns_parser.py`.  It reads and changes the lists of the mDNS
  component: searches and browses of this host, its services and names, the
  answers that are scheduled.  `make_cases.py` hands that text and the coverage
  of it to a language model, runs the script that comes back, and feeds the
  packets the script writes to the function.  Any number of such campaigns may
  share a directory, and with it the coverage.
- `gen_seeds.py` writes the inputs the MQTT harness starts from; the first byte
  of a `dyn_` seed is what `fuzz_state_t` takes its mode from.

What is hard, and what would be correct:

| Part | Hard | Correct means |
|---|---|---|
| Transport | two indices and a reused buffer over any sequence of writes, short reads, failing reallocations and reconnections; ids behind headers of variable length | no byte lost, doubled, invented or out of order; replies answer the request they were pushed for; reads always progress |
| Harness | state carried over in a persistent loop; three ways out of an input; one mode read at several places | inputs are independent; client and transport agree; flags do what is documented |
| lwIP application | callbacks interleaved with a loop over the same pool; 16-bit lengths over a 200000 byte buffer; a length used after a call | the pool stays in its buffer; every byte is used once; the loop ends |
| FreeRTOS mocks | lost wake-ups, cancelled waiters, a handle published late | no waiter sleeps while its bits stay set; mutexes are released |
| Campaigns | a timeout racing an exit, an interrupt between two steps, an exit code left from an earlier run | each test case is judged by its own outcome, and counted once |
| mDNS receiver | lookups kept from one record to the next, one clean-up for every way out, a section told by counting, a name overwritten before it is judged | what was collected is freed once; known answers are left out of the reply, and no others; results reach those who search for them; names are defended and given up as collisions say |
| mDNS test cases | four programs that fail or never return, several campaigns that look for a free directory at the same time, and whose `gcov` read the same counters and write the same report | no case runs twice, none is left behind; the model sees the coverage of what its campaign has run, unless two `gcov` were at work at once |
| Seeds | lengths of payloads from lengths of headers, a run that is stopped half-way | every whole file is frames a client can read (but for a flag of one), under a name of its own; a twin selects the mode it is for |

`PROJECT.json` lists the hazards line by line, with the properties that would
catch each, or the reason none does.  Small ones without a property are under
"Not modelled" below.

## 2. Modules

| Module | Models |
|---|---|
| `BrokerStream` | abstract: a connection with two byte queues, automatic replies and input |
| `FuzzTransport` | `esp_transport_fuzz.c`, one action per function; implements `BrokerStream` |
| `MqttHarness` | `harness.c` and an arbitrary client, extending `FuzzTransport` |
| `MqttHarness_proofs` | the transport's inductive invariants, replies, polls and reads, and refinement; the harness is a behaviour of the transport, with three safety theorems of its own |
| `FuzzPool` | the pool in `fuzz_common.c`, `input_pkts`, `input_pkt` and the callbacks |
| `FuzzPool_proofs` | its inductive invariant and six safety theorems |
| `AtomicEventGroup` | abstract: an event group whose calls take effect at one instant |
| `EventGroup` | `freertos/event_groups.h` and `vTaskDelete`, as threads; implements `AtomicEventGroup` |
| `EventGroup_proofs` | its inductive invariant, three safety theorems, the refinement |
| `RadamsaCampaign` | `run_fuzzer.sh`, one action per command that leaves something behind |
| `RadamsaCampaign_proofs` | its inductive invariant and four safety theorems |
| `BoofuzzCampaign` | `iot_parser_fuzz.py`, with the session of boofuzz as it is used |
| `BoofuzzCampaign_proofs` | its inductive invariant and four safety theorems |
| `MdnsReceive` | `mdns_parse_packet`, one action per kind of question and record, in the loop of its test |
| `MdnsReceive_proofs` | positions, browses, dropped answers, names, searches, the heap, known answers: eight theorems |
| `SeedPackets` | `gen_seeds.py`: its packet builders, byte for byte, and the list of what it writes |
| `SeedCorpus` | `gen_seeds.py`: the files of that list, stops and further runs; a reader of MQTT |
| `SeedCorpus_proofs` | the builders' packets are read back, so the list's are; the inductive invariant of the files and three safety theorems |
| `CaseCampaign` | `make_cases.py`, any number of campaigns in one directory |
| `CaseCampaign_proofs` | its inductive invariant and six safety theorems |
| `MC*` | command lines, inputs, packets, calls, campaigns and exit codes for TLC |

Operators named `X_Something` that sit before a definition `X` and are marked
"Mutant of" are deliberately wrong variants of it: replacing `X` by one of them
must violate the property `PROJECT.json` pairs it with.  No specification uses
them.

### FuzzTransport

The variables are the fields of `fuzz_state_t`; `(in, in_len)` is the sequence
`in`, and the allocated reply buffer of length `rx_len` is the sequence `rx`.
Bytes are numbers 0..255, as replies are recognised and built byte by byte.
`ret` is what the last call returned.  `out` (what the client has read) and
`replies` (which packet was answered with which frame) are history variables.
`realloc` may fail in `push_rx`.  A client buffer has at least one byte
(`ReadLens`); the code would take a `len` of zero or less too, but no caller
passes one.  A failing `calloc` in the factory is a step of the harness
module.

`parse_varint_remaining` is used for the length of what it consumes only;
`VarintBytes` is that length, as the least index that ends the number.

`Packets` are what the client may write.  `MqttAssumption` says what esp-mqtt, which
is external, writes in one call: nothing, or one control packet (`WellFormed`),
whose first byte tells its kind and whose id, if it has one and was not cut off, is
behind a length of one to four bytes.

### MqttHarness

The module extends `FuzzTransport`, whose `Spec` stays that of a transport used
by anyone; `HarnessSpec` is the program's.  `FlagsAssumption` says that the
transport's `ModeArgs` and `Frags` hold what the flags can say.  Each argument is
one step of `parse_args`.  The client is esp-mqtt, which the
repository only refers to: it is modelled as any program that connects, writes
a CONNECT, reads until it believes to have a CONNACK, then reads, polls and
writes at will, and closes on an error; each step is at most one call on the
transport.  `MaxSteps` stands for the 2048 steps of `run_once` and `AflLoops`
for the 10000 rounds of the AFL loop.  `Behind` is what the bytes behind the
end of an argument may spell as a number: see `--frag` below.

### FuzzPool

Of the data only lengths matter, so the pool is an offset and a length, and a
length field may hold any value of `Raws`.  `pc` says where in `input_pkts` the
single thread is.  lwIP is external: in `stack` (inside `netif->input`) it may
make any callback, in `timeouts` and `timeouts_again` (inside
`sys_check_timeouts`) it makes poll and error callbacks only.  That timers never
deliver data holds because the receive callbacks always return `ERR_OK`, so
lwIP never keeps refused data back for its timer; `FrameIsThere` depends on it.
`MaxCalls` bounds the callbacks per call.  `headers`, `framed` and `fed` are
history: what the bytes taken from the pool were used for.

The written data and the advance of the pool (lines 307-315) are one step: lwIP
makes no callback from `altcp_output`.  `sys_now_offset` is not modelled.

### EventGroup

One group, its mutex (`owner`) and any threads; `pc` says where in a call each
is, and the threads in `blocked` are those on the condition variable.  The word
of bits is the set of its one bits.  `Inside` are the places between lock and
unlock.  A set is two steps, the or and the broadcast, so that others may be
woken spuriously or deleted in between.  The calls are the program's: any
thread makes any call of `Calls` at any time, and deletes any other once.
Deleting a group that is in use is undefined and not a choice of the program.

`pthread_cancel` takes effect at a cancellation point.  Of the calls in the
mocks `pthread_cond_wait` and `pthread_join` are such points and
`pthread_mutex_lock` is none.  A thread that is cancelled in `pthread_cond_wait`
takes the mutex first (`dying`); no clean-up handler is installed, so it ends as
its owner.  That is why `EveryCallEnds` and the second part of `MutexHeld` have
an exception: the harness must not delete a task that waits on bits.  A task
that deletes itself through a handle is not modelled.

### RadamsaCampaign

An input is the number of its run.  `pc` is the command the script is at; the
increment of a counter, the copy and the two log lines are steps of their own,
as the trap on SIGINT runs between commands and `set -e` ends the script when a
copy or a write fails.  `timeout(1)` puts the target in a process group of its
own, so Ctrl+C never reaches it, and the trap runs when it has ended.  `ran` is
history: what the target really did.  The time stamps in the file names are left
out, as the number of the run makes a name unique within a campaign; a copy is
whole or missing.

### BoofuzzCampaign

The connection and the monitor share `last_exit_code` and nothing else.  boofuzz
is external: it takes the test cases in order, skips an element after
`crash_threshold_element` failures, and lets an exception of `send` end its
loop, which `main` then reports (lines 318-323).  `verdict` and `outcome` are
history.  The session's counters do not survive a resumption with `--index`;
what they judged does, in boofuzz's results.  Python reports a signal as a
negative exit code, so the first branch of `post_send` (`> 127`) is only taken
for codes a target returns itself; the second gives the same verdict.

### MdnsReceive

The variables are the locals of `mdns_parse_packet` and the lists it works on.
`content` is the number of the entry that is read next.  An entry is what the
function asks of its bytes: its name, type, class and TTL (`long`: above the
limit the code compares it with), the comparison of its data with ours (`cmp`),
its `target`, and a `form` that says where, if anywhere, its bytes are
malformed.  `packet` keeps the counts of the header apart from the entries, as
they need not agree.  `heap` counts the blocks of each kind that the function
has allocated and neither freed nor handed over; every allocation may fail, and
`got` is how many of a series succeeded.  A question or a record has the number of
strings that were copied for it, and `Strings` counts the pointers to them: a string
is known by the one of a list that points to it, and by which of its four pointers
does.  What the helpers outside the function allocate, such as the results in the
object that collects the changes of a browse, is not counted.  `NULL` is a pointer that is not set, which no name, browse or host is.
`told` and `cut` are history.

`search_result`, `browse_result` and the three buffers keep their values from
one record to the next, as they do in the code: they are set in `ForeignRecord`
only, and `AddressRecord` leaves `search_result` 0 at its end.  Hence a record of
our own names that follows a matched foreign one goes to that one's search, and
is not looked at for collisions.  `SearchesGetWhatMatches` states exactly this.
A search that is ended leaves an empty place in the list, so that the places of
the others stay.

The rest of the mDNS component is not in the repository and is modelled from how
it is used: a look-up returns the first match of a list; a service's instance
defaults to the host's instance, then to its name; a result of a browse is added
if the object the packet collects changes in is for that browse (the code sets
it once per packet), and adds nothing when the instance is missing;
`mdns_priv_query_done` ends the searches that have `MaxResults` results;
`_mdns_init_pcb_probe` may fail for want of memory.  Probing ends between two
packets only.  The configuration switches for IPv4 and IPv6 are on.

### SeedPackets and SeedCorpus

The packets are the bytes that are written; a topic is a number of characters
and of bytes, a payload a length, so that their bytes are all alike.  A name is a
record of its prefixes, stem and number.  `SeedWrites` is the list
of `main` in its order.  `SeedCorpus` has the list as a constant, which the
configuration gives `SeedWrites`: what holds of the files whatever the list is
(`CompleteWhenDone`) can then be told from what holds of this one.  The files are
empty between `open` and the end of the write.  `IsFrames` and `PacketOk` read
frames independently of the encoder, with a length field of two bytes at most, as
no seed is larger, and without judging reason codes.  One seed is no valid packet
(section 3); `Corrected` takes the flag that is wrong off it before it is read.

### CaseCampaign

`pc` is, for each campaign, what it does or waits for.  Reading the report,
asking and getting an answer without a script are one step, as nothing is left
behind between them; what the report says when it is read is what `PromptIsFresh` is
about.  A script writes any number of cases up to `MaxCases` and then fails or
not; the code treats both alike.  `os.listdir` has no order, so `Test` takes any
case that is left.  A crashing test leaves no counters.

`gcov` (line 31) is a process of its own, and that of another campaign in the same
directory may run beside it.  It reads the counters of all cases of all campaigns (`GcovRead`,
into `sum`), opens the one report, which truncates it (`GcovOpen`), and is
done writing it later (`GcovClose`); it may fail before, between and after
(`GcovFail`), which `check=True` makes the end of the campaign.  `report` is what the file
dependably tells of: nothing once it was truncated, and what the writer had read
when it is done, if no other wrote meanwhile.  What two wrote at once is dependable
only if the last of them happened to write over all of it, which is either way.  `torn` has
those that opened the report since it was last whole, so that a half-written report
stays one when its writer fails or is killed, until the next is done.  `overtaken`
says that another `gcov` had read its counters, and was not done, when ours read
them: it may write its older sum over ours.  Two things are assumed of `gcov`: that
reading the counters is one step, so that a case counted while it reads is told of or
not, and that one which ends with 0 has written the report.  Reading the report
(line 47) is one step.

`Kill` stands for Ctrl+C, which ends the program that is waited for too, and for any
exception that is not listed; a campaign started again is a new one in the same directory.

## 3. Runs

| Run | Config | What it shows |
|---|---|---|
| transport | `FuzzTransport.cfg` | every order of calls, all six modes, inputs with and without a selector, fragment sizes 0 and 1, buffers of 1 and 3 bytes, two replies |
| harness | `MqttHarness.cfg` | two rounds of the AFL loop, seven client steps, five command lines |
| frag_flag | `FragFlag.cfg` | violated: `--frag=2` is ignored |
| pool | `FuzzPool.cfg` | series of 0 to 22 bytes and single packets of 0 to 200000, lengths at and beyond every cap, all fuzz types, TCP client and server, UDP server |
| event_group | `EventGroup.cfg` | three threads, two bits, six calls, seven choices of the program or the system |
| radamsa_campaign | `RadamsaCampaign.cfg` | three runs, every outcome, a stop at any command |
| boofuzz_campaign | `BoofuzzCampaign.cfg` | four test cases of two elements, targets that end, hang or do not start, one resumption |
| boofuzz_invalid_input | `InvalidInput.cfg` | violated: exit code 1 is judged a crash |
| mdns_receive | `MdnsReceive.cfg` | two packets: queries with known answers, probes, responses, headers that announce what is not there; any allocation fails |
| mdns_sync_lost | `SyncFreed.cfg` | violated: a response that is malformed at its end changes a browse that is never told |
| seed_corpus | `SeedCorpus.cfg` | every file the script writes, a stop before or inside any write, and a second run |
| case_campaign | `CaseCampaign.cfg` | two campaigns of two runs and of one, with up to two cases and up to one, one killed and started again; their `gcov` read the counters and write the report in steps of their own |

The bounds are enough for what they are for.  Two replies in the transport meet
every combination of an empty, unread, partly read and drained buffer; the
packets include an id behind a one-byte and behind a four-byte header, a
truncated packet, a packet that is not answered and an empty write.  Two AFL
rounds show a second input after each way the first can end; seven steps let the
client connect, fail, and connect again.  The series of the pool sit on both sides of
`minlen` (2 and 6), of the delay and of the length fields; a length of 0, 1, 3,
2048 or 65535 is below, at and above what is left and the buffer of 1514; a
single packet is on both sides of 2^16.  Seven choices let a group be created, two threads
wait, two set or clear, and one delete another, twice; a lost wake-up or a stolen
bit needs two waiters and a setter.  Three runs of a campaign have one before and
one behind the run that is disturbed; four test cases exceed the threshold of the
first element and have one behind it.  For the mDNS receiver the first packet
is the one that matters: up to two questions with up to two known answers, out
of nine and fourteen kinds, a probe of one question and two proposals, or a
response of two or three records in any split over its three sections, so that
each kind of record follows each other kind; the second packet finds names that
were given up, searches with results, and scheduled answers.  Two of the four
initial states have neither an instance of a service nor one of the host, so
that each of the three names can be the one that is given up.  All 126 writes of
the seed generator are modelled, so `MaxStops` is its only bound: a second run
over a directory that was left at any point; the proofs do without it.  In `case_campaign` a second
campaign can come between any two steps of the first; with two runs the first
sees what its own first run and the other have left.  The first has scripts of up to two
cases, so that the other's `gcov` can read between its tests; the other needs one.
Either `gcov` can read, open, end, fail or be killed between any two steps of the
other.  Deadlock is checked in every run but `event_group`, whose threads may stop calling (there `EveryCallEnds` says what may
hang); the other modules that end (`Exited`, `Finished`, `Ended`, `Rest`) say so with a
step of their own.

Fairness.  `MqttHarness` and `FuzzPool` are single threads that run until they
exit, so weak fairness of `Next` is all that is assumed: the process is
scheduled, and the external code returns from each call.  Liveness of the
harness comes from the step counter and liveness of the pool from the header
every round consumes, not from fairness towards any choice.  `FuzzTransport` is
passive and has no fairness.  `EventGroup` has weak fairness per thread, for its
steps inside a call and for a cancellation that is pending; a mutex need not be
fair, as the choices are finite and others cannot take it for ever.  Calls,
deletions and spurious wake-ups are never forced.  In the campaigns the script
runs (its commands end, the target's by its timeout); an interrupt is never
forced.  `CaseCampaign` has
fairness for the campaign's own steps only: none of the programs it calls has a timeout,
so `CampaignEnds` says that a campaign ends or waits for one of them for ever.
`MdnsReceive` and `SeedCorpus` have safety properties only and no fairness: each
is one program without a wait.

Types.  `TypeOK` is proved for every value of the constants in every module that has a
`_proofs` module; `MdnsReceive` and `MqttHarness` have it as a conjunct of
`HeapBalanced` and `NoLeakBetweenInputs`, `SeedCorpus` as one of
`CompleteWhenDone`.  Four properties are proved and not run: `DrainedIsEmpty` and
`ExactlyTheInput` of the transport, `SingleFeedsNobody` of the pool and
`CrashStopsTheCampaign` of `CaseCampaign`.

### Disagreements with the documentation

- `harness.c:50` compares eight bytes with the seven of `"--frag="`, so only an
  argument without a number matches (its number is then read from behind the
  end of the argument).  `--frag=N`, documented in
  `examples/10_afl_mqtt/README.md` lines 57-59 and used at lines 76 and 129,
  has no effect.
- `iot_parser_fuzz.py:65` judges a nonzero exit a crash; its comment in line 63
  says it is not one.
- `mdns_parser.py:677` frees `out_sync_browse` together with the changes it has
  collected when a packet is given up, though the browse's results have been
  changed; the comment in line 223 says it will be freed in `_mdns_browse_sync`.

Each of these is a run.  Others were met without a run of their own:

- `harness.c:74` configures MQTT 5 for `--mode=mqtt5` only; a dynamic selector
  of 4 makes the transport speak MQTT 5 to a 3.1.1 client
  (`examples/10_afl_mqtt/README.md` lines 51-55).  `VersionsAgree` excepts it.
- `fuzz_common.c:735` takes any first argument for a file name, `--udp`
  included; the branch for it (line 747) is unreachable
  (`UDP_FUZZ_README.md` lines 46-49).  `Source` models the choice as it is.
- `run_fuzzer.sh:25`: an interrupt while the target runs is handled when it has
  ended and before it is judged; the trap removes the input, so a failure in
  flight is lost (`tools/radamsa/README.md` line 108, "Save all failure-inducing
  inputs").  `StopLosesOneRun` allows for this one.
- `run_fuzzer.sh:138,146` goes by exit codes, so what a target returns of its own
  is filed as a crash or a timeout (`tools/radamsa/README.md` lines 28-29).
- `esp_transport_fuzz.c:137` answers PINGREQ in every mode, handshake included
  (README lines 37-41), though the harness's client needs a reason to ping, as
  `harness.c:73` disables keepalive.
- The README of the MQTT example (line 73) says the `seeds/v5_*` files have the
  0x04 prefix for the dynamic mode; it is `dyn_v5_*` that have it.  Its AFL
  example (line 112) feeds the whole directory to one mode, the prefixed seeds
  included, whose first byte is then no packet type.  `gen_seeds.py:369` writes no
  dynamic twin of the PINGRESP.
- The docstring of `gen_seeds.py` says "valid MQTT v3.1.1 packets" (line 5) and
  "well-formed cases" (line 15); `publish_qos0_dup.bin` (line 253) and its twin
  begin with 0x38, a PUBLISH with DUP and QoS 0, which MQTT 3.1.1 forbids
  ([MQTT-3.3.1-2]).  `SeedsParse` excepts this flag of this seed, by name
  (`Corrected`), and requires DUP to come with a QoS above 0 in every other;
  without the exception the run finds it violated.
- `mdns.py:112` declares the long options `start_index` and `end_index`, and the
  lines below compare with `--startindex` and `--endindex`, so that a range given by
  them is ignored; `mdns.py:36` takes a ping
  that fails at once for an answer.

Behaviour worth knowing that no document contradicts: `fuzz_poll_read` reports
nothing when only a reply is pending (the converse, `PollThenRead`, holds), and a
reply that was not read before `fuzz_close` is read after the next
`fuzz_connect`.  `BrokerStream` states the latter as what the transport
promises.  Campaigns of `make_cases.py` that share a directory can spoil each other's
report, with no failure at all: A's `gcov` reads, B runs a case, B's `gcov` reads and
writes, A writes its older sum, and B's next prompt lacks B's own case; or B reads
the report (line 47) while A writes it.  A `gcov` that failed or was killed while it wrote leaves
a report of which nothing is dependable to whoever is still running or comes next.  `PromptIsFresh`
excepts just these (`overtaken`, `torn`); with either exception taken out, TLC finds the
sequence.  In the mDNS receiver, a known answer takes a question out of the list; once
the list is empty, the records behind it are treated as those of a response.

## 4. Proofs

Proved for every value of the constants, under the named assumptions of the
modules (constants have their types; lengths are 16 bits; a pool is at most
200000 bytes).

`MqttHarness_proofs`, the transport.  The inductive invariant is `TypeOK /\ DrainedIsEmpty`.
The type alone is not inductive enough: that a buffer read to its end was
emptied is what makes the indices of the next read, and the branch of `push_rx`
that resets, harmless.

- `TypeCorrect`, `BufferIsReset`: the two parts.
- `RepliesFit`: of the history `replies`.  The lemmas say that the number of length
  bytes is found wherever it ends (`VarintFindsTheEnd`), so the id is (`IdIsFound`),
  and that each frame is taken apart as it was put together (`FrameParts`,
  `AnswerFits`).  It rests on `MqttAssumption`: the code does not check what it is
  written, and answers half a packet by what its bytes look like.
- `PolledDataIsRead`: a poll that reports data leaves something unread, which only
  a read takes away.
- `ReadsAreBounded`: from the bounds of `ReadSize` (lemma `ReadSizeBounds`).
- `RawWithoutAutopilot`: an invariant of its own, with the reply buffer empty as
  long as the autopilot is off.
- `Refinement`: every step of the transport is a step of `BrokerStream`, or
  none, under `feed <- Unread(in, in_off)` and `pending <- Unread(rx, rx_off)`.
  The lemmas `UnreadPrefix` and `UnreadConcat` say what reading and appending do
  to the unread part of a buffer; the first part of the invariant supplies their
  hypotheses.

`FuzzPool_proofs`.  The invariant joins `PoolInBounds`, `FrameIsThere`,
`UsedOnce` and `UsedUp` with three facts about where the run is: before the data
is read nothing was used (`BeforeRead`); a single packet is the whole pool until
it is copied, and leaves it empty (`SingleInv`); a packet of a series has a
16-bit length (`FrameSize`).  `RestBounds` shows that the cast to 16 bits is
never lossy.  All callbacks go through one lemma, `CallingInv`: a callback takes
bytes that are there, from the stack only, or takes nothing.

- `TypeCorrect`, `PoolStaysInBounds`, `FrameStaysThere`, `EveryByteOnce`,
  `SinglePacketOnly`, `DataIsUsedUp`.

`EventGroup_proofs`.  The invariant joins `TypeOK`, `MutexHeld` and
`NoLostWakeup` with two facts: without a group nobody is in a call
(`NobodyWithoutGroup`), so creating one disturbs nobody, and only waits reach
`pthread_cond_wait` (`WaitsWait`), so only they are cancelled there.

- `TypeCorrect`, `MutexIsHeld`, `NoWakeupIsLost`: the parts.
- `Refinement`: a call takes effect where it changes or reads the bits; locks,
  broadcasts, wake-ups and sleeps do not show, and a cancelled waiter is gone
  when it starts to take the mutex.  A setter that has not read its result yet
  is mapped to one that has, which is sound because the mutex keeps the bits as
  they are.

`CaseCampaign_proofs`.  No test can go through the orders in which campaigns meet in a
directory, or in which their `gcov` read and write; the proof covers any number of
them.  The invariant has two halves.  `RunsInv` is about the test cases.
`Shapes` are the types.  `OneOwner`: two campaigns that are past `makedirs` are
in different directories, and no campaign that is done with a directory shares it
with one that is in it; it holds because `makedirs` fails if the directory is
there, and not because the search for a free one is any good.  `Progress` says
what has been run of the directory a campaign is in, `Counted` that what a
campaign is done with was counted, and `Chain` orders the shared sets.  `CoverageInv` is
about what `gcov` makes of it.  `SumsAreNew`: whichever `gcov` is at work, what it has read
holds the cases of every campaign that was not overtaken, as it has read the counters
later than that campaign's own; this is what makes it harmless that the report is
rewritten by the others.  `Reported`: once it is whole again, so does the report.

- `TypeCorrect`, `CasesAreRunOnce`, `NothingIsLeftBehind`, `FirstCrashIsTheLast`.
- `CoverageIsFresh`, with the two exceptions of `PromptIsFresh`, for any number of
  campaigns.
- `LoneCoverageIsFresh`: without any exception, for a campaign that is alone in its
  directory, whatever fails and however often it is killed and started again.

`MqttHarness_proofs`, the harness.  The harness creates and destroys the transport, and the client
calls it; the first invariant, `MainInv`, says that it is allocated from `TransportInit`
to `ClientDestroy` and at no other time, with an input and arguments that are among
the constants.

- `UsesTheTransport`: `HarnessSpec => Spec`.  A step of the harness is a step of
  the transport or leaves it alone.
- `TransportInHarness`: hence what is proved of the transport, its refinement
  included, holds in the harness.
- `NothingLeaks`, `EachReadsItsInput`, `SameVersion`: between two inputs nothing is
  allocated (`MainInv`); what the transport was created with is not changed by any
  call (`CallKeeps`), so it is that of this iteration (`IterationInv`, `VersionInv`).

`MdnsReceive_proofs`.  For every packet, every list of searches and browses, and
any failing allocations.

- `ProposalsAreNoAnswers`: the invariant `CountInv` ties the number of the entry
  to `recordIndex`, through the questions and whatever records are skipped; what
  a record is taken for is then told by its place in the packet alone.
- `NoChangeGoesUntold`: the invariant `Untold` says that what a browse has and was not
  told of is in the changes that are collected for it.
- `DroppingIsJustified`, `NamesAreKept`: of each step.  `PacketInv` says what a record
  that is looked at may be; `CollisionIs` ties the three-valued result of the
  comparison to the property's own words, `Beats` and `Yields`.
- `NamesAreDefended`: the invariant `DefendInv` says that the reader of a probe that
  will be answered, as things stand, has won over every record behind it.  It needs
  that a query's records find no search, that names stay as they are while an
  interface is running, and that an interface that starts to probe does not answer.
- `SearchesAreServed`: the invariant `Found` names, for the search in hand, a record of
  this packet that it was found for.  A search with more results matches what it
  has matched (`MatchesGrow`), and the first match of a list exists (`Least`, from
  the theorems about well-founded relations).
- `EveryBlockIsFreed`: the invariant `HeapInv` says that every block is held by
  something that the clean-up goes through: a question or a record of the two lists,
  with the strings that were copied for it, one of the three buffers, or the sync
  object; so a `malloc` that fails half-way through a question leaves nothing that is
  not found, and nothing is freed twice.  `CursorInv`, `StateInv` and `ToldInv` are
  the types.  Strings are counted by their pointers: `ApartFrom` takes one question
  out of a list, `TogetherCount` puts a list behind another, `GroupsCount` says
  how many blocks of a discovery's series are questions, and how many are strings.
- `KnownAnswersAreDropped`: the invariant `KnownInv` says, for each type and service, that
  the list has as many questions as the entries before the reader ask, less the
  records before it that say it, and none below zero.  It needs that questions come
  before records (`Places`), that an entry is classified as the property does, by its
  name alone, and that a question is for one answer only (`MatchesOnce`).  `Hits`
  counts a list's questions for an answer; it goes through the lemmas about pointers,
  `HitsTogether` for a question that is kept, `HitsLess` for one that is answered.
  That a discovery asks once for each service (`AllHits`) needs services of
  different types (`ServicesAssumption`).

`BoofuzzCampaign_proofs`.  `TypeOK` and `JudgedByOwnRun` are not inductive: they need
that the test case in hand is one the campaign has, of an element below its
threshold (`Position`, which also gives the bound of `index`: one test case more for
each resumption), that a target runs only while the script waits (`Process`), that
what `post_send` reads was put there by this test case (`Fresh`), and, for a
campaign that was not stopped, that everything behind `index` was judged or is
skipped (`Judged`; an element once skipped stays skipped until a resumption).

- `TypeCorrect`, `VerdictsAreOwn`, `NoTargetIsLeft`, `NoCaseIsPassedOver`.

`RadamsaCampaign_proofs`.  `RunsAreAccounted` speaks of the loop's head only; the
invariant says for every command how far each of the three books has come.
`Counted(n)`, `Saved(n)` and `Logged(n)` say that the counters, the files and the log
are those of the runs before `n`; `BooksInv` that they are written in this order and that
none is more than one run behind, whatever the script stops at; `Place` ties `i`,
`runs`, `exit_code` and the temporary file to the runs there were.  `OneMore` is what a
run adds to the sets that are counted; cardinalities come from the theorems
about finite sets.

- `TypeCorrect`, `BooksAgree`, `OneRunIsLost`, `LoggedWasSaved`.

`SeedCorpus_proofs`.  The packets first, for every argument of their builders.  Writer
and reader are both recursive (`encoded` divides the length, `FramesFrom` jumps from
packet to packet), and the library's induction theorems are out of the provers'
reach; that the two functions are what their definitions say is proved by the
least counterexample instead (`EncodesToEach`, `CutsFromEach`, from the theorem that
a well-founded relation has a minimal element).

- `LengthIsReadBack`: a length below 2^14 is read as what was written, on both sides
  of 128, where the field grows.
- `PublishParses`, `Publish5Parses`, and lemmas for the other kinds: a packet is read
  back, and so is anything that could be read with the packet in front of it, which
  is what the coalesced seed is.  The hypotheses are those of MQTT: lengths that
  two bytes hold, an id above 0 where there is one, and DUP with a QoS above 0 only.  The
  script checks none of them; its list satisfies them but for one seed, which is the
  next theorem.
- `SeedWritesAreGood`: every write of `SeedWrites` parses and selects its version; of
  `publish_qos0_dup`, what is left without the flag (`DupIsOneBit`).  One
  lemma for each `gen_` function; a payload that is what is left of 127, 128 or 129
  gives the length field that the file's name says (`BoundaryIsRead`).
- `SeedSafety`: the inductive invariant `SeedInv` of the files.  A file is empty or what
  its own write writes (`FilesAreWritten`), the writes of this run are in place
  (`WrittenBefore`), a dynamic seed has had its twin from the start (`TwinsThere`), and only a
  stop leaves a file cut off (`FewCutOff`): a run that starts again opens the files one at a
  time, and each it closes is whole.
- `CompleteWhenDoneHolds`, for any list of writes that satisfies `WritesAssumption`
  (no name twice, each dynamic seed behind its twin), which TLC evaluates for
  the script's list; `SeedsParseHolds` and `TwinsAgreeHolds`, which are claims about that list
  and have `Writes = SeedWrites` as their hypothesis, the value the configuration
  gives.

Model-checked only: liveness (`EveryInputEnds`, `RunEnds`, `EveryCallEnds`,
`CampaignEnds`), which the prover does not treat.  `WritesAssumption` is an assumption
of the proofs; that `SeedWrites` satisfies it is a computation, made by TLC in
`seed_corpus`.

## 5. Not modelled

- What is not in the repository: esp-mqtt, lwIP, the helpers of the mDNS
  component, boofuzz, AFL.  The modules have them do whatever their callers
  must be prepared for.
- `examples/10_afl_mqtt/src/platform_host.c` and the other mocks without state:
  stubs.  The tick counter is carried from one input to the next, so that an input may
  meet other timeouts when it is run again; only the external client reads it, and
  `MqttHarness` lets it take any timeout at any time.
- Creation of tasks and the recursive mutex (`task.h`, `semphr.h`): single calls
  of POSIX.  `task.h:28` stores the handle after the thread was started; no task
  of the harness uses its own.
- `read()` failing in `harness.c:116`: standard input of an AFL run is a regular
  file.
- A datagram that is lost, or comes after the five seconds of `fuzz_common.c:633`:
  the empty result of `read_data_from_udp`, which neither the code nor a property
  tells from a run without data.
- `tools/boofuzz/mdns.py`: the state is the session's; `post_send` returns True
  whatever the ping said, and the options are one call.  A model would be one of
  boofuzz.  `examples/03_boofuzz_iotparser/iot_parser_fuzz.py` is the file that
  `BoofuzzCampaign` models with another default path.
- `udp_fuzz_example.py` sends what it is given and keeps nothing.
- In `mdns_parser.py`, `create_mdns_packet` is an example for the prompt, and the
  test's set-up of services is the initial state.
- `tools/klee`, `tools/angr`, `projects`: programs with deliberate defects for
  other tools to find, without state.

## 6. Plan

The order was: transport and harness, pool, event group, the two campaigns, mDNS
receiver, test cases, seeds; each with its proofs.  What is left is the creation of
tasks, if a task comes to use its own handle.
