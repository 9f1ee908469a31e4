---------------------------- MODULE MCMqttHarness ----------------------------
(* Command lines, inputs and packets for TLC. *)
EXTENDS MqttHarness

Flag(f, v) == [flag |-> f, value |-> v]
Mode(m) == Flag("--mode", m)
Auto    == Flag("--autopilot", "")

MCArgvs == { <<>>,
             <<Auto, Mode("mqtt5")>>,
             <<Mode("connected"), Flag("--frag", ""), Auto>>,
             <<Flag("--verbose", ""), Mode("subscribe")>>,
             <<Mode("nonsense"), Mode("dynamic"), Flag("--frag", "")>> }
FragArgvs == { <<Mode("subscribe"), Auto, Flag("--frag", "2")>> }

MCBehind == {-1, 0, 1}

MCInputs == {<<>>, <<4, 32>>, <<1, 48>>}

MCPackets == {[kind |-> "CONNECT", id |-> <<>>, bytes |-> <<16, 1, 4>>],
              [kind |-> "PUBREL",  id |-> <<0, 2>>, bytes |-> <<98, 2, 0, 2>>]}
=============================================================================
