---------------------------- MODULE SerialConfig ----------------------------
(***************************************************************************)
(* How the serial2002 driver learns what a device has: the device answers  *)
(* poll 31 with one entry per property of each of its channels, in any     *)
(* order, and an entry of kind 0 at the end (do_read_config and            *)
(* check_config in serial2002_lib.c); the driver then numbers the channels *)
(* of each kind (remap_analog, remap_digital in serial2002.c).             *)
(*                                                                         *)
(* The values of the entries are left out: which of them came is what      *)
(* decides.  Serial2002 takes the whole answer as one message.             *)
(***************************************************************************)
EXTENDS Integers, Sequences, FiniteSets, SequencesExt

CONSTANTS
    Channel,        \* the channel numbers devices use, at most 0..30
    MaxEntries      \* bound: entries of an answer

ASSUME ChannelAssumption == Channel \subseteq 0..30
ASSUME EntriesAssumption == MaxEntries \in Nat

\* What an analog channel has to tell: bits, min and max; a counter: bits.
Analog == {0, 1, 2}
Counter == {0}

\* What comes, and not only what makes sense: any property of a channel, which for a
\* digital one is not looked at, and kinds that there are not (6 and 7).
Entries ==
    [kind : {"digital_in", "digital_out", "unknown"}, channel : Channel, cmd : {0}] \cup
    [kind : {"analog_in", "analog_out", "counter_in"}, channel : Channel, cmd : 0..3]

VARIABLES
    phase,          \* "reading", then "accepted" or "refused"
    channel_in,     \* config.channel_in: kind and valid of each channel
    channel_out,    \* config.channel_out
    digital_in,     \* the channels whose config.digital_in is valid
    digital_out,    \* the same of config.digital_out
    remap,          \* per kind: the driver's table, logical index to channel
    reported        \* history: the entries that came

channelVars == <<channel_in, channel_out, digital_in, digital_out>>
configVars == <<phase, channelVars, remap, reported>>

NoTables == [analog_in |-> << >>, analog_out |-> << >>, digital_in |-> << >>,
             digital_out |-> << >>, encoder_in |-> << >>]

Unset == [kind |-> "none", valid |-> {}]

ConfigInit ==
    /\ phase = "reading"
    /\ channel_in = [c \in Channel |-> Unset]
    /\ channel_out = [c \in Channel |-> Unset]
    /\ digital_in = {} /\ digital_out = {}
    /\ remap = NoTables
    /\ reported = {}

-----------------------------------------------------------------------------
(* do_read_config *)

\* Seeded fault: the newest entry decides what a channel is.
update_channel_last_wins(old, e) ==
    [kind |-> e.kind, valid |-> old.valid \cup {e.cmd}]

\* A channel stays of the kind it was first reported as.
update_channel(old, e) ==
    IF old.kind \in {"none", e.kind}
    THEN [kind |-> e.kind, valid |-> old.valid \cup {e.cmd}]
    ELSE old

entry(e) ==
    /\ phase = "reading"
    /\ e \notin reported /\ Cardinality(reported) < MaxEntries
    /\ reported' = reported \cup {e}
    /\ channel_in' = [channel_in EXCEPT ![e.channel] =
          IF e.kind \in {"analog_in", "counter_in"} THEN update_channel(@, e) ELSE @]
    /\ channel_out' = [channel_out EXCEPT ![e.channel] =
          IF e.kind = "analog_out" THEN update_channel(@, e) ELSE @]
    /\ digital_in' = digital_in \cup {c \in {e.channel} : e.kind = "digital_in"}
    /\ digital_out' = digital_out \cup {c \in {e.channel} : e.kind = "digital_out"}
    /\ UNCHANGED <<phase, remap>>

-----------------------------------------------------------------------------
(* check_config: the switch is over the kind of the input with that number; *)
(* the case of the outputs falls through to the counters.                   *)

Incomplete(ch, wanted) == ch.valid # {} /\ ch.valid # wanted

check_fails(c) ==
    CASE channel_in[c].kind = "analog_in"  -> Incomplete(channel_in[c], Analog)
      [] channel_in[c].kind = "analog_out" -> \/ Incomplete(channel_out[c], Analog)
                                              \/ Incomplete(channel_in[c], Counter)
      [] channel_in[c].kind = "counter_in" -> Incomplete(channel_in[c], Counter)
      [] OTHER                             -> FALSE

-----------------------------------------------------------------------------
(* remap_analog and remap_digital: channels in the order of their numbers *)

\* The index of a channel is the number of channels below it.
InOrder(channels) ==
    [i \in 1..Cardinality(channels) |->
        CHOOSE c \in channels : Cardinality({b \in channels : b < c}) = i - 1]

\* Seeded fault: the table of the counters takes every channel that is known.
Remapped_mixed ==
    [analog_in   |-> InOrder({c \in Channel : channel_in[c].kind = "analog_in"}),
     analog_out  |-> InOrder({c \in Channel : channel_out[c].kind = "analog_out"}),
     digital_in  |-> InOrder(digital_in),
     digital_out |-> InOrder(digital_out),
     encoder_in  |-> InOrder({c \in Channel : channel_in[c].kind # "none"})]

Remapped ==
    [analog_in   |-> InOrder({c \in Channel : channel_in[c].kind = "analog_in"}),
     analog_out  |-> InOrder({c \in Channel : channel_out[c].kind = "analog_out"}),
     digital_in  |-> InOrder(digital_in),
     digital_out |-> InOrder(digital_out),
     encoder_in  |-> InOrder({c \in Channel : channel_in[c].kind = "counter_in"})]

\* The entry of kind 0.
end_of_config ==
    /\ phase = "reading"
    /\ IF \E c \in Channel : check_fails(c)
       THEN phase' = "refused" /\ UNCHANGED remap
       ELSE phase' = "accepted" /\ remap' = Remapped
    /\ UNCHANGED <<channelVars, reported>>

\* serial2002_read fails or times out.
read_fails ==
    /\ phase = "reading"
    /\ phase' = "refused"
    /\ UNCHANGED <<channelVars, remap, reported>>

ConfigNext == (\E e \in Entries : entry(e)) \/ end_of_config \/ read_fails

ConfigSpec == ConfigInit /\ [][ConfigNext]_configVars

-----------------------------------------------------------------------------
(* Safety *)

Told(kind, c) == {e.cmd : e \in {f \in reported : f.kind = kind /\ f.channel = c}}
Having(kind) == {c \in Channel : Told(kind, c) # {}}

\* An analog input the driver offers has told its bits, its min and its max,
\* an encoder its bits: a read always has a scale, and a channel the device
\* describes as both is offered as one of them only.
InputsComplete ==
    phase = "accepted" =>
        /\ \A c \in ToSet(remap.analog_in) : Told("analog_in", c) = Analog
        /\ \A c \in ToSet(remap.encoder_in) : Told("counter_in", c) = Counter
        /\ ToSet(remap.analog_in) \cap ToSet(remap.encoder_in) = {}

Contradictory == Having("analog_in") \cap Having("counter_in") # {}

\* Unless the device contradicts itself the order of the entries does not
\* matter: the i-th channel of a kind is the one with the i-th lowest number
\* among all the device told of.
OrderIrrelevant ==
    phase = "accepted" /\ ~Contradictory =>
        /\ remap.analog_in = InOrder(Having("analog_in"))
        /\ remap.analog_out = InOrder(Having("analog_out"))
        /\ remap.encoder_in = InOrder(Having("counter_in"))
        /\ remap.digital_in = InOrder(Having("digital_in"))
        /\ remap.digital_out = InOrder(Having("digital_out"))
=============================================================================
