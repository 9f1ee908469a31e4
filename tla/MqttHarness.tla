----------------------------- MODULE MqttHarness -----------------------------
(***************************************************************************)
(* examples/10_afl_mqtt/src/harness.c: parse the flags, then, once per     *)
(* iteration of the AFL loop, build a fuzz transport around the input and  *)
(* an MQTT client around the transport, step the client a bounded number   *)
(* of times and destroy both.  The transport is FuzzTransport, whose       *)
(* operations the harness and the client call: Init, Next, Spec and vars   *)
(* are the transport's here.  The client is esp-mqtt, which is not in this *)
(* repository: it is any program that connects, says CONNECT, waits for    *)
(* the answer and then reads, polls and writes, and that closes the        *)
(* connection and starts over on an error.                                 *)
(***************************************************************************)
EXTENDS FuzzTransport

CONSTANTS Argvs,      \* command lines: sequences of flags [flag, value]
          Behind,     \* numbers the bytes behind an argument may spell
          AflLoops,   \* iterations __AFL_LOOP grants (1 without AFL)
          MaxSteps    \* the 2048 of run_once

ASSUME BehindAssumption == Behind \subseteq Int
ASSUME FlagsAssumption ==   \* the transport takes what the flags can say
    0 .. 5 \subseteq ModeArgs /\ {0} \cup (Behind \cap Nat) \subseteq Frags
ASSUME LoopAssumption == AflLoops \in Nat /\ MaxSteps \in Nat \ {0}

VARIABLES pc, argv, arg, g_autopilot, g_mode, g_frag, loops,
          buf,                     \* what this iteration read from stdin
          i,                       \* steps taken by run_once
          client, protocol_ver     \* the client, and the version it speaks

main        == <<argv, arg, g_autopilot, g_mode, g_frag, loops, buf>>
harnessVars == <<vars, main, pc, i, client, protocol_ver>>

HarnessInit ==
    /\ Init
    /\ pc = "args" /\ argv \in Argvs /\ arg = 1 /\ loops = 0 /\ buf = <<>>
    /\ g_autopilot = FALSE /\ g_mode = 0 /\ g_frag = 0
    /\ i = 0 /\ client = "none" /\ protocol_ver = "3.1.1"

-----------------------------------------------------------------------------
(* parse_args: one argument per step, a later one overriding an earlier one. *)

ModeNumber(name) ==
    CASE name = "connected" -> 1 [] name = "subscribe" -> 2 [] name = "qos" -> 3
      [] name = "mqtt5" -> 4     [] name = "dynamic" -> 5   [] OTHER -> 0

\* Eight bytes are compared with the seven of "--frag=": only the flag without a
\* value matches, and the number is then read from behind its end.
FragMatches(a) == a.flag = "--frag" /\ a.value = ""

parse_args ==
    /\ pc = "args" /\ arg <= Len(argv)
    /\ LET a == argv[arg]
       IN  /\ g_autopilot' = (g_autopilot \/ a.flag = "--autopilot")
           /\ g_mode' = IF a.flag = "--mode" THEN ModeNumber(a.value) ELSE g_mode
           /\ IF FragMatches(a)
              THEN \E n \in Behind : g_frag' = IF n < 0 THEN 0 ELSE n
              ELSE UNCHANGED g_frag
    /\ arg' = arg + 1
    /\ UNCHANGED <<vars, argv, pc, loops, buf, i, client, protocol_ver>>

ArgsDone ==
    /\ pc = "args" /\ arg > Len(argv) /\ pc' = "loop"
    /\ UNCHANGED <<vars, main, i, client, protocol_ver>>

-----------------------------------------------------------------------------
(* main and run_once. *)

\* The next round of the AFL loop reads its input, shorter than the buffer.
AflLoop ==
    /\ pc = "loop"
    /\ \/ /\ loops < AflLoops /\ loops' = loops + 1
          /\ buf' \in Inputs /\ pc' = "transport_init"
       \/ loops = AflLoops /\ pc' = "exit" /\ UNCHANGED <<loops, buf>>
    /\ UNCHANGED <<vars, argv, arg, g_autopilot, g_mode, g_frag, i, client, protocol_ver>>

\* Mutant of TransportInit: the transport always answers.
TransportInit_Autopilot ==
    /\ pc = "transport_init"
    /\ \/ /\ esp_transport_fuzz_init(buf, TRUE, g_mode, g_frag)
          /\ pc' = "client_init"
       \/ pc' = "loop" /\ UNCHANGED vars
    /\ UNCHANGED <<main, i, client, protocol_ver>>

TransportInit ==
    /\ pc = "transport_init"
    /\ \/ /\ esp_transport_fuzz_init(buf, g_autopilot, g_mode, g_frag)
          /\ pc' = "client_init"
       \/ pc' = "loop" /\ UNCHANGED vars       \* calloc failed
    /\ UNCHANGED <<main, i, client, protocol_ver>>

\* Mutant of ClientInit: the transport of a client that could not be built is
\* forgotten.
ClientInit_Leak ==
    /\ pc = "client_init"
    /\ \/ client' = "start" /\ pc' = "step" /\ i' = 0
       \/ client' = "none" /\ pc' = "loop" /\ UNCHANGED i
    /\ protocol_ver' = IF g_mode = 4 THEN "5" ELSE "3.1.1"
    /\ UNCHANGED <<vars, main>>

\* Mutant of ClientInit: the configuration leaves the protocol to its default.
ClientInit_NoVersion ==
    /\ pc = "client_init"
    /\ \/ client' = "start" /\ pc' = "step" /\ i' = 0 /\ UNCHANGED vars
       \/ fuzz_destroy /\ client' = "none" /\ pc' = "loop" /\ UNCHANGED i
    /\ protocol_ver' = "3.1.1"
    /\ UNCHANGED main

ClientInit ==
    /\ pc = "client_init"
    /\ \/ client' = "start" /\ pc' = "step" /\ i' = 0 /\ UNCHANGED vars
       \/ fuzz_destroy /\ client' = "none" /\ pc' = "loop" /\ UNCHANGED i
    /\ protocol_ver' = IF g_mode = 4 THEN "5" ELSE "3.1.1"
    /\ UNCHANGED main

-----------------------------------------------------------------------------
(* The client (external): one call on the transport per step. *)

ClientConnect == client = "start" /\ fuzz_connect /\ client' = "hello"

ClientHello ==
    /\ client = "hello" /\ client' = "wait"
    /\ \E p \in Packets : p.kind = "CONNECT" /\ fuzz_write(p)

\* A read that failed aborts the connection; one that did not may complete the
\* CONNACK, be malformed, or need more bytes.
ClientWait ==
    /\ client = "wait"
    /\ \E len \in ReadLens : fuzz_read(len)
    /\ client' \in IF ret'.val < 0 THEN {"abort"} ELSE {"wait", "connected", "abort"}

ClientRun ==
    /\ client = "connected"
    /\ \/ fuzz_poll_read
       \/ \E len \in ReadLens : fuzz_read(len)
       \/ \E p \in Packets : p.kind # "CONNECT" /\ fuzz_write(p)
    /\ client' \in {"connected", "abort"}

ClientAbort == client = "abort" /\ fuzz_close /\ client' = "start"

\* The client may also let a step pass: it waits to reconnect, or for nothing.
ClientIdle == UNCHANGED <<vars, client>>

esp_mqtt_client_fuzz_step ==
    \/ ClientConnect \/ ClientHello \/ ClientWait \/ ClientRun \/ ClientAbort \/ ClientIdle

\* Mutant of Step: the loop has no counter.
Step_Unbounded ==
    /\ pc = "step"
    /\ esp_mqtt_client_fuzz_step
    /\ UNCHANGED <<main, pc, i, protocol_ver>>

Step ==
    /\ pc = "step" /\ i < MaxSteps
    /\ i' = i + 1
    /\ esp_mqtt_client_fuzz_step
    /\ UNCHANGED <<main, pc, protocol_ver>>

\* The client owns the transport and destroys it.
ClientDestroy ==
    /\ pc = "step" /\ i = MaxSteps
    /\ fuzz_destroy
    /\ client' = "none" /\ pc' = "loop"
    /\ UNCHANGED <<main, i, protocol_ver>>

Exited == pc = "exit" /\ UNCHANGED harnessVars

HarnessNext == parse_args \/ ArgsDone \/ AflLoop \/ TransportInit \/ ClientInit
        \/ Step \/ ClientDestroy \/ Exited

\* The harness is one thread that runs until it exits.
HarnessSpec == HarnessInit /\ [][HarnessNext]_harnessVars /\ WF_harnessVars(HarnessNext)

-----------------------------------------------------------------------------
(* Properties. *)

HarnessTypeOK ==
    /\ TypeOK
    /\ pc \in {"args", "loop", "transport_init", "client_init", "step", "exit"}
    /\ g_mode \in 0 .. 5 /\ g_frag \in Nat /\ g_autopilot \in BOOLEAN
    /\ loops \in 0 .. AflLoops /\ i \in 0 .. MaxSteps
    /\ client \in {"none", "start", "hello", "wait", "connected", "abort"}
    /\ protocol_ver \in {"3.1.1", "5"}

\* Nothing is carried from one input to the next: when the loop reads an input
\* no transport is allocated, on any of the ways out of run_once (lines 63-92),
\* and the transport of a client is there as long as the client is.
NoLeakBetweenInputs ==
    /\ HarnessTypeOK
    /\ pc \in {"loop", "transport_init", "exit"} => ~alive /\ client = "none"
    /\ client # "none" => alive

\* What the client of this iteration reads of the input is this iteration's
\* input, in order, without the selector byte that --mode=dynamic consumes, and
\* with nothing mixed in when --autopilot was not given.
ReadsThisInput ==
    alive => LET skip == IF g_mode = 5 /\ buf # <<>> THEN 1 ELSE 0
             IN  /\ in = buf /\ in_off >= skip
                 /\ g_autopilot = FALSE => out = SubSeq(buf, skip + 1, in_off)

\* The client speaks MQTT 5 exactly when the transport answers in MQTT 5, for the
\* modes the command line names (harness.c line 74 and the mode of the transport).
VersionsAgree ==
    client # "none" /\ g_mode # 5 => (protocol_ver = "5" <=> mode = "MQTT5")

\* README.md lines 57-59: "--frag=N: Enables deterministic TCP fragmentation; the
\* transport's read() returns at most N bytes per call".
FragFlagCounts ==
    alive => \A k \in 1 .. Len(argv) :
                argv[k].flag = "--frag" /\ argv[k].value # "" => frag > 0

\* Every input is run to its end and the loop comes back for the next one: no
\* call on the transport blocks, and the client is stepped 2048 times at most.
EveryInputEnds == pc = "transport_init" ~> pc = "loop"
=============================================================================
