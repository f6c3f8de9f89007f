----------------------------- MODULE Serial2002 -----------------------------
(***************************************************************************)
(* The serial2002 driver (plugins/serial2002/serial2002.c): the port is    *)
(* opened with the first channel and closed with the last one, its device  *)
(* is asked what channels it has, and a read polls the device for a        *)
(* sample, either for each call or for all inputs at once                  *)
(* (batch_sampling).  A write sends the value of an output, together with  *)
(* what could not be sent before.                                          *)
(*                                                                         *)
(* The driver serves one call at a time; the device, the line and the      *)
(* clock run beside it.  A message is one answer of the device, or what a  *)
(* timeout in the middle of one left of it: SerialLine models the bytes.   *)
(* Time counts the samples the device takes, so that a sample is known by  *)
(* the moment it was taken.                                                *)
(***************************************************************************)
EXTENDS Integers, Sequences, FiniteSets, SequencesExt

CONSTANTS
    NULL,
    Client,         \* handles clients may hold, one channel each
    Inputs,         \* the device's inputs, in the order batch_sampling polls them
    Outputs,        \* the device's analog outputs (digital ones are one byte, never torn)
    BatchModes,     \* the values device->batch.active may be configured to
    Worlds,         \* how the line may behave, and for how long
    MaxPending      \* bound: polls the device has not seen yet

\* mapped: the channels the configuration file maps; may_timeout: poll() may time
\* out.  Bounds: max_faults, answers that get lost or cut and writes that fail;
\* max_time, clock; max_sessions, times the port is opened.
World == [mapped : SUBSET STRING, may_timeout : BOOLEAN, max_faults : Nat,
          max_time : Nat, max_sessions : Nat]

ASSUME InputsAssumption ==
    Inputs \in Seq(ToSet(Inputs)) /\ IsInjective(Inputs) /\ NULL \notin ToSet(Inputs)
ASSUME WorldsAssumption ==
    /\ Worlds \subseteq World /\ MaxPending \in Nat
    /\ \A w \in Worlds : NULL \notin w.mapped /\ w.max_time > 0
ASSUME ClientAssumption == IsFiniteSet(Client)
ASSUME BatchAssumption == BatchModes \subseteq BOOLEAN

Input == ToSet(Inputs)

\* The request for, and the answer with, the device's configuration (poll 31).
CONFIG == "config"

\* What goes to the device, and what it answers to a poll.
Poll(of) == [of |-> of, value |-> NULL]
Value(of, value) == [of |-> of, value |-> value]

\* The first bytes of a value without its last one.
TORN == "torn"

\* An answer whose beginning a timeout threw away, and that beginning, which stays
\* in the read buffer and is there again when the port is opened again.
REST == "rest"
BEGINNING == "beginning"

\* The outputs are channels of their own, and no channel has the name of another message.
ASSUME OutputsAssumption == Outputs \cap (Input \cup {CONFIG, TORN, REST, BEGINNING, NULL}) = {}
ASSUME MessagesAssumption == Input \cap {CONFIG, TORN, REST, BEGINNING} = {}

\* A value that nobody writes, and that no sample has.
GARBLED == -1

\* What a write() that stops inside p may have sent of it.
Beginnings(p) == {<< >>} \cup IF p.of \in Outputs THEN {<<Poll(TORN)>>} ELSE {}

Message(of, at) == [of |-> of, at |-> at]

Polls(of) == [i \in DOMAIN of |-> Poll(of[i])]

VARIABLES
    world,          \* the world this is
    batch_active,   \* device->batch.active
    clock,          \* CLOCK_REALTIME
    faults,         \* number of answers lost or cut and writes that failed
    sessions,       \* number of times the port was opened
    fd,             \* whether the port is open and locked
    count,          \* port.count
    inputs,         \* what the last configuration says: the remap tables
    client,         \* per client: the input it has open, or NULL
    unsent,         \* io.write: polls and values that are not written
    polled,         \* those on the way to the device
    line,           \* answers in the kernel, not read yet
    buffer, pos,    \* io.read: the answers of the last read(), the next of them
    cache,          \* per input: batch.digital and batch.channel, 0 for is_invalid
    expires,        \* batch.expires
    began,          \* history: when the last batch was begun
    call,           \* the call the driver is in
    output,         \* the values of the device's outputs, or NULL
    misunderstood,  \* history: the device has taken a torn value and what came next for one
    asked,          \* history: the values that were to be written last
    last,           \* history: per input, the newest sample a read returned
    returned        \* history: the last read's result

worldVars == <<world, batch_active, clock, faults>>
portVars == <<sessions, fd, count, inputs, client>>
ioVars == <<unsent, polled, line, buffer, pos>>
batchVars == <<cache, expires, began>>
resultVars == <<last, returned>>
outputVars == <<output, misunderstood, asked>>
vars == <<worldVars, portVars, ioVars, batchVars, outputVars, call, resultVars>>

Idle == [op |-> "none", client |-> NULL, of |-> NULL, since |-> 0, expected |-> 0]

Init ==
    /\ world \in Worlds /\ batch_active \in BatchModes
    /\ clock = 1 /\ faults = 0 /\ sessions = 0
    /\ fd = FALSE /\ count = 0 /\ inputs = << >>
    /\ client = [cl \in Client |-> NULL]
    /\ unsent = << >> /\ polled = << >> /\ line = << >> /\ buffer = << >> /\ pos = 0
    /\ cache = [i \in Input |-> 0] /\ expires = 0 /\ began = 0
    /\ call = Idle
    /\ output = [o \in Outputs |-> NULL] /\ asked = output /\ misunderstood = FALSE
    /\ last = [i \in Input |-> 0]
    /\ returned = [status |-> "none", of |-> NULL, at |-> 0, since |-> 0, previous |-> 0]

-----------------------------------------------------------------------------
(* Port I/O *)

\* serial2002_flush: everything is written, or write() fails after n messages and
\* perhaps some bytes of the next, and the buffer keeps all of them.
Flushed(polls) ==
    /\ polled' = polled \o polls
    /\ unsent' = << >>
    /\ UNCHANGED faults

\* Seeded fault: what could not be written is dropped.
FlushFailed_drops(polls) ==
    /\ faults < world.max_faults
    /\ faults' = faults + 1
    /\ \E n \in 0..(Len(polls) - 1) : \E torn \in Beginnings(polls[n + 1]) :
          polled' = polled \o SubSeq(polls, 1, n) \o torn
    /\ unsent' = << >>

FlushFailed(polls) ==
    /\ faults < world.max_faults
    /\ faults' = faults + 1
    /\ Len(unsent) < MaxPending
    /\ \E n \in 0..(Len(polls) - 1) : \E torn \in Beginnings(polls[n + 1]) :
          polled' = polled \o SubSeq(polls, 1, n) \o torn
    /\ unsent' = polls

\* What is left of the buffer may be the beginning of an answer, which only the
\* next bytes of the line make a message.
BeginningLeft == pos < Len(buffer) /\ buffer[pos + 1].of = BEGINNING
Buffered == pos < Len(buffer) /\ ~BeginningLeft
Ready == Buffered \/ line # << >>

NextAnswer ==
    CASE Buffered      -> buffer[pos + 1]
      [] BeginningLeft -> Message(REST, Head(line).at)
      [] OTHER         -> Head(line)

\* Seeded fault: the position stays at the start of a buffer that was filled.
TakeAnswer_again ==
    IF Buffered
    THEN pos' = pos + 1 /\ UNCHANGED <<buffer, line>>
    ELSE pos' = 0 /\ buffer' = line /\ line' = << >>

\* tty_read: from the buffer, which is filled with all there is when it is empty.
TakeAnswer ==
    IF Buffered
    THEN pos' = pos + 1 /\ UNCHANGED <<buffer, line>>
    ELSE pos' = 1 /\ buffer' = line /\ line' = << >>

\* The answer at the head of polled is cut: its rest is a message of its own.
Cut ==
    /\ polled # << >> /\ Head(polled).of \in Input \cup {CONFIG, REST}
    /\ faults < world.max_faults
    /\ faults' = faults + 1
    /\ polled' = <<Poll(REST)>> \o Tail(polled)

\* poll() times out before an answer, or inside one: what came of it is thrown
\* away, but stays in the buffer, behind answers that came together with it.
TimedOut ==
    /\ world.may_timeout /\ ~Ready
    /\ \/ /\ pos' = pos + IF BeginningLeft THEN 2 ELSE 1
          /\ UNCHANGED <<faults, polled, buffer>>
       \/ /\ Cut
          /\ \E with \in {<< >>} \cup {b \in {buffer} : pos = Len(buffer)} :
                buffer' = Append(with, Message(BEGINNING, clock))
          /\ pos' = Len(buffer') + 1
    /\ UNCHANGED <<unsent, line>>

-----------------------------------------------------------------------------
(* Opening and closing channels *)

\* The first channel: device_open opens and locks the port, discard_pending
\* drops what is in the kernel, and the configuration is asked for.  The read
\* buffer keeps its count.
open_port(cl, i) ==
    /\ call = Idle /\ client[cl] = NULL
    /\ count = 0 /\ sessions < world.max_sessions
    /\ sessions' = sessions + 1
    /\ fd' = TRUE
    /\ pos' = 0 /\ line' = << >>
    /\ Flushed(<<Poll(CONFIG)>>) \/ FlushFailed(<<Poll(CONFIG)>>)
    /\ call' = [Idle EXCEPT !.op = "open", !.client = cl, !.of = i]
    /\ UNCHANGED <<world, batch_active, clock, count, inputs, client, buffer, batchVars, outputVars, resultVars>>

\* The channels there are, when config is what the device says of its inputs; a
\* configuration that is not understood has no channels at all.
Known(config) == ToSet(config) \cup IF config = << >> THEN {} ELSE Outputs

\* read_config succeeded: channel_open refuses a channel the device has not got
\* and closes the port again.
opened(config) ==
    /\ inputs' = config
    /\ call' = Idle
    /\ IF call.of \in Known(config)
       THEN /\ count' = count + 1
            /\ client' = [client EXCEPT ![call.client] = call.of]
            /\ UNCHANGED fd
       ELSE fd' = FALSE /\ UNCHANGED <<count, client>>

\* Where the configuration is expected a sample is an entry of some kind, is taken
\* for the end of the configuration, or is refused.  What is left of a message that
\* was cut is any of these, or the part of a configuration that was not thrown away.
InOrderOfInputs(config) ==
    \A j, k \in DOMAIN config : j < k =>
        \E a, b \in DOMAIN Inputs : a < b /\ config[j] = Inputs[a] /\ config[k] = Inputs[b]

Understood ==
    IF NextAnswer.of = REST
    THEN {config \in SeqOf(Input, Len(Inputs)) : InOrderOfInputs(config)}
    ELSE {<< >>}

read_config ==
    /\ call.op = "open" /\ Ready
    /\ TakeAnswer
    /\ IF NextAnswer.of = CONFIG
       THEN opened(Inputs)
       ELSE \/ UNCHANGED <<fd, count, inputs, client, call>>
            \/ \E config \in Understood : opened(config)
            \/ fd' = FALSE /\ call' = Idle /\ UNCHANGED <<count, inputs, client>>
    /\ UNCHANGED <<worldVars, sessions, unsent, polled, batchVars, outputVars, resultVars>>

\* Seeded fault: the port stays open and locked.
read_config_fails_locked ==
    /\ call.op = "open"
    /\ TimedOut
    /\ call' = Idle
    /\ UNCHANGED <<world, batch_active, clock, portVars, batchVars, outputVars, resultVars>>

read_config_fails ==
    /\ call.op = "open"
    /\ TimedOut
    /\ fd' = FALSE
    /\ call' = Idle
    /\ UNCHANGED <<world, batch_active, clock, sessions, count, inputs, client, batchVars,
                   outputVars, resultVars>>

channel_open(cl, i) ==
    /\ call = Idle /\ client[cl] = NULL
    /\ count > 0 /\ i \in Known(inputs)
    /\ count' = count + 1
    /\ client' = [client EXCEPT ![cl] = i]
    /\ UNCHANGED <<worldVars, sessions, fd, inputs, ioVars, batchVars, outputVars, call, resultVars>>

channel_close(cl) ==
    /\ call = Idle /\ client[cl] # NULL
    /\ client' = [client EXCEPT ![cl] = NULL]
    /\ count' = count - 1
    /\ fd' = (count' > 0)
    /\ UNCHANGED <<worldVars, sessions, inputs, ioVars, batchVars, outputVars, call, resultVars>>

-----------------------------------------------------------------------------
(* Reading *)

Returns(status, of, at, since) ==
    /\ returned' = [status |-> status, of |-> of, at |-> at, since |-> since,
                    previous |-> IF of = NULL THEN 0 ELSE last[of]]
    /\ last' = IF status = "OK" /\ at > 0 THEN [last EXCEPT ![of] = at] ELSE last

Reading(cl, op) == [op |-> op, client |-> cl, of |-> client[cl], since |-> clock,
                    expected |-> Len(inputs)]

\* analog_in_read, digital_in_read, encoder_in_read: poll, then wait.
read(cl) ==
    /\ call = Idle /\ client[cl] \in Input /\ ~batch_active
    /\ Len(polled) < MaxPending
    /\ LET polls == Append(unsent, Poll(client[cl]))
       IN  \/ /\ Flushed(polls)
              /\ call' = Reading(cl, "read")
              /\ UNCHANGED resultVars
           \/ /\ FlushFailed(polls)
              /\ Returns("EIO", client[cl], 0, clock)
              /\ UNCHANGED call
    /\ UNCHANGED <<world, batch_active, clock, portVars, line, buffer, pos, batchVars, outputVars>>

\* The messages serial2002_read may take m for: the rest of an answer is a value
\* nobody measured, of some input or of none.
ReadAs(m) ==
    IF m.of = REST THEN {Message(of, GARBLED) : of \in Input \cup {REST}} ELSE {m}

read_answer ==
    /\ call.op = "read" /\ Ready
    /\ TakeAnswer
    /\ call' = Idle
    /\ \E m \in ReadAs(NextAnswer) :
          IF m.of = call.of
          THEN Returns("OK", call.of, m.at, call.since)
          ELSE Returns("ECHRNG", call.of, 0, call.since)
    /\ UNCHANGED <<worldVars, portVars, unsent, polled, batchVars, outputVars>>

\* serial2002_read refuses the rest of an answer, or ignores it, where it is the
\* byte of an event character.
read_rest ==
    /\ call.op \in {"read", "batch"} /\ Ready
    /\ NextAnswer.of = REST
    /\ TakeAnswer
    /\ \/ call' = Idle /\ Returns("EINVAL", call.of, 0, call.since)
       \/ UNCHANGED <<call, resultVars>>
    /\ UNCHANGED <<worldVars, portVars, unsent, polled, batchVars, outputVars>>

\* Seeded fault: a read without batch_sampling waits for ever.
read_fails_in_batch ==
    /\ call.op = "batch"
    /\ TimedOut
    /\ call' = Idle
    /\ Returns("ETIMEDOUT", call.of, 0, call.since)
    /\ UNCHANGED <<world, batch_active, clock, portVars, batchVars, outputVars>>

read_fails ==
    /\ call.op \in {"read", "batch"}
    /\ TimedOut
    /\ call' = Idle
    /\ Returns("ETIMEDOUT", call.of, 0, call.since)
    /\ UNCHANGED <<world, batch_active, clock, portVars, batchVars, outputVars>>

-----------------------------------------------------------------------------
(* Batch sampling *)

\* Seeded fault: samples do not age.
Expired_used_up(i) == cache[i] = 0

\* Seeded fault: an input that has no sample is not sampled again.
Expired_by_time(i) == expires < clock

Expired(i) == expires < clock \/ cache[i] = 0

\* Seeded fault: a sample stays valid until the batch expires.
deliver_again(i, c, since) ==
    /\ Returns("OK", i, c[i], since)
    /\ cache' = c

\* The sample is handed out once.
deliver(i, c, since) ==
    /\ Returns("OK", i, c[i], since)
    /\ cache' = [c EXCEPT ![i] = 0]

batch_hit(cl) ==
    /\ call = Idle /\ client[cl] \in Input /\ batch_active
    /\ ~Expired(client[cl])
    /\ deliver(client[cl], cache, clock)
    /\ UNCHANGED <<worldVars, portVars, ioVars, expires, began, outputVars, call>>

\* The batch has expired: all inputs are invalidated and polled; the result of
\* the flush is not looked at.
batch_sampling(cl) ==
    /\ call = Idle /\ client[cl] \in Input /\ batch_active
    /\ Expired(client[cl])
    /\ Len(polled) < MaxPending
    /\ cache' = [i \in Input |-> IF i \in ToSet(inputs) THEN 0 ELSE cache[i]]
    /\ Flushed(unsent \o Polls(inputs)) \/ FlushFailed(unsent \o Polls(inputs))
    /\ call' = Reading(cl, "batch")
    /\ UNCHANGED <<world, batch_active, clock, portVars, line, buffer, pos, expires, began,
                   outputVars, resultVars>>

\* One answer.  The last one ends the batch, which stays valid as long as it took.
batch_answer ==
    /\ call.op = "batch" /\ Ready
    /\ TakeAnswer
    /\ \E m \in ReadAs(NextAnswer) :
          LET c == IF m.of \in Input THEN [cache EXCEPT ![m.of] = m.at] ELSE cache
          IN  IF call.expected > 1
              THEN /\ call' = [call EXCEPT !.expected = @ - 1]
                   /\ cache' = c
                   /\ UNCHANGED <<expires, began, resultVars>>
              ELSE /\ call' = Idle
                   /\ expires' = clock + (clock - call.since)
                   /\ began' = call.since
                   /\ deliver(call.of, c, call.since)
    /\ UNCHANGED <<worldVars, portVars, unsent, polled, outputVars>>

-----------------------------------------------------------------------------
(* Writing *)

\* analog_out_write, digital_out_write; a value that cannot be sent stays in the
\* buffer, although the call fails.
write(cl, value) ==
    /\ call = Idle /\ client[cl] \in Outputs
    /\ Len(polled) < MaxPending
    /\ LET polls == Append(unsent, Value(client[cl], value))
       IN  Flushed(polls) \/ FlushFailed(polls)
    /\ asked' = [asked EXCEPT ![client[cl]] = value]
    /\ UNCHANGED <<world, batch_active, clock, portVars, line, buffer, pos, batchVars,
                   output, misunderstood, call, resultVars>>

-----------------------------------------------------------------------------
(* The device, the line and the clock (external) *)

device_sets ==
    /\ polled # << >> /\ Head(polled).of \in Outputs
    /\ polled' = Tail(polled)
    /\ output' = [output EXCEPT ![Head(polled).of] = Head(polled).value]
    /\ UNCHANGED <<worldVars, portVars, unsent, line, buffer, pos, batchVars, asked,
                   misunderstood, call, resultVars>>

\* With the message that follows, a torn value makes a value that nobody wrote, of
\* the output whose index is in that message's last byte, or nothing.
device_misunderstands ==
    /\ Len(polled) > 1 /\ Head(polled).of = TORN
    /\ IF polled[2].of = TORN
       THEN polled' = Tail(polled) /\ UNCHANGED <<output, misunderstood>>
       ELSE /\ polled' = Tail(Tail(polled))
            /\ output' \in {output} \cup {[output EXCEPT ![o] = GARBLED] : o \in Outputs}
            /\ misunderstood' = TRUE
    /\ UNCHANGED <<worldVars, portVars, unsent, line, buffer, pos, batchVars, asked, call,
                   resultVars>>

\* An answer arrives, or gets lost, or is cut because the port is opened while the
\* device sends it.
device_answers ==
    /\ polled # << >> /\ Head(polled).of \in Input \cup {CONFIG, REST}
    /\ clock < world.max_time
    /\ clock' = clock + 1
    /\ \/ /\ polled' = Tail(polled)
          /\ line' = IF fd THEN Append(line, Message(Head(polled).of, clock')) ELSE line
          /\ UNCHANGED faults
       \/ /\ faults < world.max_faults
          /\ faults' = faults + 1
          /\ polled' = Tail(polled)
          /\ UNCHANGED line
       \/ ~fd /\ Cut /\ UNCHANGED line
    /\ UNCHANGED <<world, batch_active, portVars, unsent, buffer, pos, batchVars, outputVars, call, resultVars>>

tick ==
    /\ batch_active /\ clock < world.max_time
    /\ clock' = clock + 1
    /\ UNCHANGED <<world, batch_active, faults, portVars, ioVars, batchVars, outputVars, call, resultVars>>

\* The steps a call takes once it is waiting.
HostStep ==
    read_config \/ read_config_fails \/ read_answer \/ read_rest \/ read_fails \/ batch_answer

Next ==
    \/ \E cl \in Client :
          \/ \E i \in world.mapped : open_port(cl, i) \/ channel_open(cl, i)
          \/ channel_close(cl) \/ read(cl) \/ batch_hit(cl) \/ batch_sampling(cl)
          \/ \E value \in {0, 1} : write(cl, value)
    \/ HostStep \/ device_answers \/ device_sets \/ device_misunderstands \/ tick

\* A call that waits goes on when it has an answer or its time is out.
Spec == Init /\ [][Next]_vars /\ WF_vars(HostStep)

-----------------------------------------------------------------------------
(* Safety *)

Answers == [of : Input \cup {CONFIG, REST, BEGINNING}, at : 1..world.max_time]

\* The types of the variables.
TypeOK ==
    /\ clock \in 1..world.max_time /\ faults \in 0..world.max_faults /\ batch_active \in BatchModes
    /\ fd \in BOOLEAN /\ count \in Nat
    /\ client \in [Client -> world.mapped \cup {NULL}]
    /\ inputs \in Seq(Input)
    /\ line \in Seq(Answers) /\ buffer \in Seq(Answers) /\ pos \in Nat
    /\ {polled, unsent} \subseteq
          Seq([of : Input \cup {CONFIG, TORN, REST}, value : {NULL}]
              \cup [of : Outputs, value : {0, 1}])
    /\ {output, asked} \subseteq [Outputs -> {0, 1, NULL, GARBLED}] /\ misunderstood \in BOOLEAN
    /\ cache \in [Input -> {GARBLED} \cup 0..world.max_time]
    /\ last \in [Input -> 0..world.max_time]

\* The port is open and locked exactly while a channel is open, or the first
\* one is being opened; port.count is the number of open channels, also after
\* opens that failed at any point.
PortOpenWhileUsed ==
    /\ count = Cardinality({cl \in Client : client[cl] # NULL})
    /\ fd <=> count > 0 \/ call.op = "open"

\* The last read returned a sample: neither nothing nor what a cut answer left.
Sampled == returned.status = "OK" /\ returned.at > 0

\* Until the port is opened again, two reads never return the same sample, and no
\* read returns an older sample of an input than the reads before it, also when
\* answers come late, get lost or are cut, or answer polls that were sent twice.
NewerEachTime == Sampled /\ sessions = 1 => returned.at > returned.previous

\* No answer is late or lost.
Faultless == ~world.may_timeout /\ world.max_faults = 0

\* A read without batch_sampling returns a sample taken after it was called, and
\* nobody gets ECHRNG, as long as no answer is late or lost.
FreshRead ==
    Faultless => /\ returned.status = "OK" /\ ~batch_active => returned.at > returned.since
                 /\ returned.status # "ECHRNG"

\* It is so until the port is opened again.
FreshUntilReopened == sessions <= 1 => FreshRead

\* A batched read returns a sample of the last batch, and comes no later after
\* the batch began than twice the time the batch took, until the port is opened
\* again: answers left in the buffer are then taken for those of the next batch.
BatchFresh ==
    sessions <= 1 /\ returned.status = "OK" /\ batch_active /\ Faultless =>
        /\ returned.at > began
        /\ \E ended \in began..clock :
              /\ expires = ended + (ended - began)
              /\ returned.since <= expires

\* A read that returns OK has a sample to return, not what is left of an answer.
OkMeansSampled == returned.status = "OK" => returned.at > 0

\* It has one as long as answers are late, but neither lost nor cut by a timeout
\* inside them, until the port is opened again: the rest of an answer counts as an
\* answer of its own, and a batch may end without the sample it is to return.
SampledUnlessLost == faults = 0 /\ sessions = 1 => OkMeansSampled

\* When all is sent, and until the port is opened again, the device has the values
\* that were to be written last, also by writes that failed: these are sent late
\* and may be sent twice, but never after a newer value of the same output.  (It is
\* not so when a write() stopped inside a value, whose first bytes are then sent twice.)
LastWriteWins ==
    sessions <= 1 /\ ~misunderstood /\ unsent = << >> /\ polled = << >> => output = asked

-----------------------------------------------------------------------------
(* Liveness *)

\* No call waits for ever, whatever answers are lost.  (Where nothing times out
\* nothing is lost either, and the bound of the clock is what stops the device.)
CallReturns == world.may_timeout /\ call # Idle ~> call = Idle
=============================================================================
