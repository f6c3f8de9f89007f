---------------------------- MODULE SerialProofs ----------------------------
(***************************************************************************)
(* The serial2002 driver for any number of clients and channels: the port  *)
(* is open exactly while it is needed, wherever opening it fails; samples  *)
(* are never returned twice or out of order, are there when a read says    *)
(* so, and are as new as its mode promises; outputs get what was written   *)
(* last.                                                                   *)
(***************************************************************************)
EXTENDS Serial2002, FiniteSetTheorems, SequenceTheorems, TLAPS

Holding == {cl \in Client : client[cl] # NULL}

PortTypes ==
    /\ world \in Worlds
    /\ client \in [Client -> world.mapped \cup {NULL}]
    /\ count \in Nat /\ fd \in BOOLEAN

CallIsRecord ==
    \E op, cl, of, since, expected :
       call = [op |-> op, client |-> cl, of |-> of, since |-> since, expected |-> expected]

\* While the first channel is being opened nobody has one.
OpeningAlone ==
    call.op = "open" =>
        /\ count = 0
        /\ call.client \in Client /\ client[call.client] = NULL
        /\ call.of \in world.mapped

\* PortOpenWhileUsed does not say that a call that opens the port is the first:
\* without that, its failure would take the port from under other channels.
PortInv == PortTypes /\ CallIsRecord /\ OpeningAlone /\ PortOpenWhileUsed

\* The clients that hold a channel are finitely many.
LEMMA HoldingFinite == IsFiniteSet(Holding)
  BY ClientAssumption, FS_Subset DEF Holding

\* A client that gets a channel makes one more of them.
LEMMA OneMoreHolds ==
    ASSUME PortTypes, count = Cardinality(Holding),
           NEW cl \in Client, NEW i \in world.mapped, client[cl] = NULL,
           world' = world, client' = [client EXCEPT ![cl] = i], count' = count + 1,
           fd' \in BOOLEAN
    PROVE  PortTypes' /\ count' = Cardinality(Holding')
<1>1. i # NULL
  BY WorldsAssumption DEF PortTypes
<1>2. PortTypes'
  BY DEF PortTypes
<1>3. Holding' = Holding \cup {cl} /\ cl \notin Holding
  BY <1>1 DEF PortTypes, Holding
<1> QED
  BY <1>2, <1>3, HoldingFinite, FS_AddElement DEF PortTypes

\* A client that gives its channel back makes one less.
LEMMA OneLessHolds ==
    ASSUME PortTypes, count = Cardinality(Holding),
           NEW cl \in Client, client[cl] # NULL,
           world' = world, client' = [client EXCEPT ![cl] = NULL], count' = count - 1,
           fd' \in BOOLEAN
    PROVE  PortTypes' /\ count' = Cardinality(Holding') /\ count > 0
<1>1. Holding' = Holding \ {cl} /\ cl \in Holding
  BY DEF PortTypes, Holding
<1>2. Cardinality(Holding') = count - 1
  BY <1>1, HoldingFinite, FS_RemoveElement
<1>3. count > 0
  BY <1>1, HoldingFinite, FS_EmptySet DEF PortTypes
<1> QED
  BY <1>2, <1>3 DEF PortTypes

\* No call is in progress after the step.
LEMMA IdleIsRecord ==
    /\ call = Idle => CallIsRecord
    /\ call' = Idle => CallIsRecord'
    /\ call' = call /\ CallIsRecord => CallIsRecord'
  BY DEF Idle, CallIsRecord

\* At first nobody has a channel and the port is closed.
LEMMA PortInit == Init => PortInv
<1> SUFFICES ASSUME Init PROVE PortInv
  OBVIOUS
<1>1. Holding = {}
  BY DEF Init, Holding
<1>2. Cardinality(Holding) = 0
  BY <1>1, FS_EmptySet
<1>3. PortTypes /\ CallIsRecord
  BY IdleIsRecord DEF Init, PortTypes
<1>4. call.op # "open" /\ fd = FALSE /\ count = 0
  BY DEF Init, Idle
<1> QED
  BY <1>2, <1>3, <1>4 DEF PortInv, OpeningAlone, PortOpenWhileUsed, Holding

\* A step that neither opens nor closes, and enters no call that does.
LEMMA PortFrame ==
    ASSUME PortInv, UNCHANGED <<world, fd, count, client>>,
           call'.op # "open", call.op # "open", CallIsRecord'
    PROVE  PortInv'
  BY DEF PortInv, PortTypes, OpeningAlone, PortOpenWhileUsed

\* An open that fails closes the port, of which nobody had a channel.
LEMMA PortCloses ==
    ASSUME PortInv, call.op = "open", call' = Idle, fd' = FALSE,
           UNCHANGED <<world, count, client>>
    PROVE  PortInv'
<1>1. count = 0 /\ count' = Cardinality(Holding')
  BY DEF PortInv, OpeningAlone, PortOpenWhileUsed, Holding
<1>2. call'.op # "open" /\ CallIsRecord'
  BY IdleIsRecord DEF Idle
<1>3. PortTypes'
  BY DEF PortInv, PortTypes
<1> QED
  BY <1>1, <1>2, <1>3 DEF PortInv, OpeningAlone, PortOpenWhileUsed, Holding

\* Opening the first channel: the port is open, and the call is the only one.
LEMMA open_portKeeps ==
    ASSUME PortInv, NEW cl \in Client, NEW i \in world.mapped, open_port(cl, i)
    PROVE  PortInv'
<1>1. /\ count = 0 /\ count' = 0 /\ client[cl] = NULL /\ fd' = TRUE
      /\ UNCHANGED <<world, client>>
      /\ call' = [Idle EXCEPT !.op = "open", !.client = cl, !.of = i]
  BY DEF open_port
<1>2. call'.op = "open" /\ call'.client = cl /\ call'.of = i /\ CallIsRecord'
  BY <1>1 DEF Idle, CallIsRecord
<1> QED
  BY <1>1, <1>2 DEF PortInv, PortTypes, OpeningAlone, PortOpenWhileUsed

\* The end of opening the first channel: it is there, or the port is closed.
LEMMA openedKeeps ==
    ASSUME PortInv, call.op = "open", UNCHANGED world, NEW config, opened(config)
    PROVE  PortInv'
<1>1. /\ call' = Idle /\ call'.op # "open" /\ CallIsRecord'
      /\ count = 0 /\ fd = TRUE /\ fd' \in BOOLEAN
      /\ call.client \in Client /\ client[call.client] = NULL /\ call.of \in world.mapped
      /\ count = Cardinality(Holding)
  BY IdleIsRecord DEF opened, Idle, PortInv, PortTypes, OpeningAlone, PortOpenWhileUsed, Holding
<1>2. CASE call.of \in Known(config)
  <2>1. count' = count + 1 /\ client' = [client EXCEPT ![call.client] = call.of] /\ fd' = fd
    BY <1>2 DEF opened
  <2>2. PortTypes' /\ count' = Cardinality(Holding')
    BY <1>1, <2>1, OneMoreHolds DEF PortInv
  <2> QED
    BY <1>1, <2>1, <2>2 DEF PortInv, OpeningAlone, PortOpenWhileUsed, Holding
<1>3. CASE call.of \notin Known(config)
  <2>1. fd' = FALSE /\ UNCHANGED <<count, client>>
    BY <1>3 DEF opened
  <2> QED
    BY <1>1, <2>1, PortCloses
<1> QED BY <1>2, <1>3

\* An answer that the configuration was waited for ends the open, or the wait
\* goes on.
LEMMA read_configKeeps ==
    ASSUME PortInv, read_config
    PROVE  PortInv'
<1>1. call.op = "open" /\ UNCHANGED world
  BY DEF read_config, worldVars
<1>2. CASE \E config : opened(config)
  BY <1>1, <1>2, openedKeeps
<1>3. CASE UNCHANGED <<fd, count, inputs, client, call>>
  BY <1>1, <1>3, IdleIsRecord DEF PortInv, PortTypes, OpeningAlone, PortOpenWhileUsed
<1>4. CASE fd' = FALSE /\ call' = Idle /\ UNCHANGED <<count, inputs, client>>
  BY <1>1, <1>4, PortCloses
<1> QED
  BY <1>2, <1>3, <1>4 DEF read_config

\* Opening fails: the port is closed, and nobody had a channel.
LEMMA read_config_failsKeeps ==
    ASSUME PortInv, read_config_fails
    PROVE  PortInv'
  BY PortCloses DEF read_config_fails, worldVars

\* One more channel of an open port.
LEMMA channel_openKeeps ==
    ASSUME PortInv, NEW cl \in Client, NEW i \in world.mapped, channel_open(cl, i)
    PROVE  PortInv'
<1>1. /\ call = Idle /\ call' = call /\ client[cl] = NULL /\ count > 0
      /\ UNCHANGED <<world, fd>>
      /\ count' = count + 1 /\ client' = [client EXCEPT ![cl] = i]
  BY DEF channel_open, worldVars
<1>2. PortTypes' /\ count' = Cardinality(Holding')
  BY <1>1, OneMoreHolds DEF PortInv, PortTypes, PortOpenWhileUsed, Holding
<1>3. call'.op # "open" /\ CallIsRecord' /\ fd = TRUE /\ count' > 0
  BY <1>1, IdleIsRecord DEF Idle, PortInv, PortTypes, PortOpenWhileUsed
<1> QED
  BY <1>1, <1>2, <1>3 DEF PortInv, OpeningAlone, PortOpenWhileUsed, Holding

\* One channel less; the port is closed with the last.
LEMMA channel_closeKeeps ==
    ASSUME PortInv, NEW cl \in Client, channel_close(cl)
    PROVE  PortInv'
<1>1. /\ call = Idle /\ call' = call /\ client[cl] # NULL /\ world' = world
      /\ count' = count - 1 /\ client' = [client EXCEPT ![cl] = NULL]
      /\ fd' = (count' > 0) /\ fd' \in BOOLEAN
  BY DEF channel_close, worldVars
<1>2. PortTypes' /\ count' = Cardinality(Holding')
  BY <1>1, OneLessHolds DEF PortInv, PortOpenWhileUsed, Holding
<1>3. call'.op # "open" /\ CallIsRecord'
  BY <1>1, IdleIsRecord DEF Idle
<1> QED
  BY <1>1, <1>2, <1>3 DEF PortInv, OpeningAlone, PortOpenWhileUsed, Holding

\* Every step keeps the invariant.
LEMMA PortStep == PortInv /\ [Next]_vars => PortInv'
<1> SUFFICES ASSUME PortInv, [Next]_vars PROVE PortInv'
  OBVIOUS
<1>1. ASSUME NEW cl \in Client, NEW i \in world.mapped, open_port(cl, i) PROVE PortInv'
  BY <1>1, open_portKeeps
<1>2. ASSUME NEW cl \in Client, NEW i \in world.mapped, channel_open(cl, i) PROVE PortInv'
  BY <1>2, channel_openKeeps
<1>3. ASSUME NEW cl \in Client, channel_close(cl) PROVE PortInv'
  BY <1>3, channel_closeKeeps
<1>4. ASSUME NEW cl \in Client, read(cl) PROVE PortInv'
  BY <1>4, PortFrame, IdleIsRecord DEF read, portVars, Idle, Reading, CallIsRecord
<1>5. ASSUME NEW cl \in Client, batch_hit(cl) PROVE PortInv'
  BY <1>5, PortFrame, IdleIsRecord DEF batch_hit, worldVars, portVars, Idle
<1>6. ASSUME NEW cl \in Client, batch_sampling(cl) PROVE PortInv'
  BY <1>6, PortFrame, IdleIsRecord DEF batch_sampling, portVars, Idle, Reading, CallIsRecord
<1>7. ASSUME NEW cl \in Client, NEW value, write(cl, value) PROVE PortInv'
  BY <1>7, PortFrame, IdleIsRecord DEF write, portVars, Idle
<1>8. CASE read_config
  BY <1>8, read_configKeeps
<1>9. CASE read_config_fails
  BY <1>9, read_config_failsKeeps
<1>10. CASE read_answer
  BY <1>10, PortFrame, IdleIsRecord DEF read_answer, worldVars, portVars, Idle
<1>11. CASE read_fails
  BY <1>11, PortFrame, IdleIsRecord DEF read_fails, worldVars, portVars, Idle
<1>14. CASE read_rest
  BY <1>14, PortFrame, IdleIsRecord DEF read_rest, worldVars, portVars, Idle, PortInv
<1>12. CASE batch_answer
  <2>1. call.op = "batch" /\ UNCHANGED <<world, fd, count, client>>
    BY <1>12 DEF batch_answer, worldVars, portVars
  <2>2. call' = [call EXCEPT !.expected = @ - 1] \/ call' = Idle
    BY <1>12 DEF batch_answer
  <2>3. CallIsRecord' /\ call'.op # "open"
    BY <2>1, <2>2, IdleIsRecord DEF PortInv, CallIsRecord, Idle
  <2> QED
    BY <2>1, <2>3, PortFrame
<1>13. CASE \/ device_answers \/ device_sets \/ device_misunderstands \/ tick
            \/ UNCHANGED vars
  <2>1. UNCHANGED <<world, fd, count, client, call>>
    BY <1>13 DEF device_answers, device_sets, device_misunderstands, tick, vars, worldVars,
                 portVars
  <2> QED
    BY <2>1, IdleIsRecord DEF PortInv, PortTypes, OpeningAlone, PortOpenWhileUsed
<1> QED
  BY <1>1, <1>2, <1>3, <1>4, <1>5, <1>6, <1>7, <1>8, <1>9, <1>10, <1>11, <1>12, <1>13,
     <1>14 DEF Next, HostStep

\* PortOpenWhileUsed of the run, for any number of clients, channels, faults and
\* sessions: the port is open and locked exactly while a channel is open or the
\* first is being opened, and port.count is the number of channels.
THEOREM PortCorrect == Spec => []PortOpenWhileUsed
<1>1. PortInv => PortOpenWhileUsed
  BY DEF PortInv
<1> QED
  BY <1>1, PortInit, PortStep, PTL DEF Spec

-----------------------------------------------------------------------------
(* Samples are read in the order they were taken *)

Sample == [of : Input \cup {CONFIG, REST, BEGINNING}, at : Nat]

SampleTypes ==
    /\ clock \in Nat /\ sessions \in Nat /\ pos \in Nat
    /\ line \in Seq(Sample) /\ buffer \in Seq(Sample)
    /\ cache \in [Input -> Int] /\ last \in [Input -> Nat]

ReadsAnInput ==
    call.op \in {"read", "batch"} => call.of \in Input /\ (call.op = "batch" <=> batch_active)

\* Without batch_sampling nothing is kept.
NothingKept == ~batch_active => \A i \in Input : cache[i] = 0

\* Before the port is opened nothing was read.
NothingBefore ==
    sessions = 0 => call = Idle /\ count = 0 /\ buffer = << >> /\ returned.status = "none"

\* Where the answers stand that are not read yet.
UnreadInBuffer == {j \in DOMAIN buffer : j > pos}
UnreadInLine == DOMAIN line

\* They stand in the order they were taken.
InOrder ==
    /\ \A j, k \in UnreadInBuffer : j < k => buffer[j].at < buffer[k].at
    /\ \A j, k \in UnreadInLine : j < k => line[j].at < line[k].at
    /\ \A j \in UnreadInBuffer, k \in UnreadInLine : buffer[j].at < line[k].at

\* at is newer than all that was read, and not of the future.
Newer(at) == at <= clock /\ \A i \in Input : last[i] < at /\ cache[i] < at

UnreadAreNewer ==
    /\ \A j \in UnreadInBuffer : Newer(buffer[j].at)
    /\ \A k \in UnreadInLine : Newer(line[k].at)

\* What a batch keeps is newer than what was returned.
KeptAreNewer ==
    \A i \in Input :
       /\ last[i] <= clock /\ cache[i] <= clock
       /\ cache[i] <= 0 \/ last[i] < cache[i]

Ordered == InOrder /\ UnreadAreNewer /\ KeptAreNewer

\* NewerEachTime is about the last read only.  That the next one is newer too is in
\* the order of what is not read yet, in the buffer, in the kernel and in the batch.
NewerInv ==
    /\ SampleTypes /\ ReadsAnInput /\ NothingKept /\ NothingBefore
    /\ sessions <= 1 => Ordered
    /\ NewerEachTime

\* At first there is no sample.
LEMMA NewerInit == Init => NewerInv
<1> SUFFICES ASSUME Init PROVE NewerInv
  OBVIOUS
<1>1. SampleTypes /\ NothingBefore /\ ReadsAnInput /\ NothingKept
  BY DEF Init, SampleTypes, NothingBefore, ReadsAnInput, NothingKept, Idle
<1>2. Ordered
  BY DEF Init, Ordered, InOrder, UnreadAreNewer, KeptAreNewer, UnreadInBuffer, UnreadInLine
<1>3. NewerEachTime
  BY DEF Init, NewerEachTime, Sampled
<1> QED
  BY <1>1, <1>2, <1>3 DEF NewerInv

\* tty_read takes the oldest answer there is: what it leaves is newer.
LEMMA TakesOldest ==
    ASSUME SampleTypes, Ready, TakeAnswer
    PROVE  /\ pos' \in Nat /\ line' \in Seq(Sample) /\ buffer' \in Seq(Sample)
           /\ NextAnswer \in Sample
           /\ InOrder /\ UnreadAreNewer =>
                 /\ InOrder' /\ Newer(NextAnswer.at)
                 /\ \A j \in UnreadInBuffer' : NextAnswer.at < buffer'[j].at /\ buffer'[j].at <= clock
                 /\ \A k \in UnreadInLine' : NextAnswer.at < line'[k].at /\ line'[k].at <= clock
<1>1. CASE Buffered
  <2>1. pos' = pos + 1 /\ buffer' = buffer /\ line' = line
    BY <1>1 DEF TakeAnswer
  <2>2. NextAnswer = buffer[pos + 1] /\ pos + 1 \in UnreadInBuffer
    BY <1>1 DEF NextAnswer, Buffered, UnreadInBuffer, SampleTypes
  <2>3. UnreadInBuffer' = {j \in UnreadInBuffer : j > pos + 1} /\ UnreadInLine' = UnreadInLine
    BY <2>1 DEF UnreadInBuffer, UnreadInLine, SampleTypes
  <2>4. NextAnswer \in Sample
    BY <2>2 DEF UnreadInBuffer, SampleTypes
  <2>5. ASSUME InOrder, UnreadAreNewer
        PROVE  /\ InOrder' /\ Newer(NextAnswer.at)
               /\ \A j \in UnreadInBuffer' : NextAnswer.at < buffer[j].at /\ buffer[j].at <= clock
               /\ \A k \in UnreadInLine' : NextAnswer.at < line[k].at /\ line[k].at <= clock
    BY <2>1, <2>2, <2>3, <2>5 DEF InOrder, UnreadAreNewer, Newer, SampleTypes
  <2> QED
    BY <2>1, <2>4, <2>5 DEF SampleTypes
<1>2. CASE ~Buffered
  <2>1. /\ pos' = 1 /\ buffer' = line /\ line' = << >> /\ line # << >>
        /\ NextAnswer \in {Head(line), Message(REST, Head(line).at)}
    BY <1>2 DEF TakeAnswer, Ready, NextAnswer
  <2>2. 1 \in UnreadInLine /\ NextAnswer.at = line[1].at /\ NextAnswer \in Sample
    <3>1. 1 \in UnreadInLine /\ Head(line) = line[1] /\ line[1] \in Sample
      BY <2>1 DEF UnreadInLine, SampleTypes
    <3> QED
      BY <2>1, <3>1 DEF Sample, Message
  <2>3. UnreadInBuffer' = {j \in UnreadInLine : j > 1} /\ UnreadInLine' = {}
    BY <2>1 DEF UnreadInBuffer, UnreadInLine, SampleTypes
  <2>4. ASSUME InOrder, UnreadAreNewer
        PROVE  /\ InOrder' /\ Newer(NextAnswer.at)
               /\ \A j \in UnreadInBuffer' : NextAnswer.at < line[j].at /\ line[j].at <= clock
    BY <2>1, <2>2, <2>3, <2>4 DEF InOrder, UnreadAreNewer, Newer, SampleTypes
  <2> QED
    BY <2>1, <2>2, <2>3, <2>4 DEF SampleTypes
<1> QED BY <1>1, <1>2

\* A call that does not return a sample.
LEMMA NoSample ==
    ASSUME NEW status, NEW of, NEW at, NEW since, status # "OK", Returns(status, of, at, since)
    PROVE  last' = last /\ NewerEachTime'
  BY DEF Returns, NewerEachTime, Sampled

\* A sample that is newer than what was returned before is returned.
LEMMA NewerSample ==
    ASSUME SampleTypes, NEW i \in Input, NEW at \in Int, NEW since, at <= 0 \/ last[i] < at,
           Returns("OK", i, at, since)
    PROVE  /\ last' = IF at > 0 THEN [last EXCEPT ![i] = at] ELSE last
           /\ NewerEachTime'
  BY InputsAssumption DEF Returns, NewerEachTime, Sampled, SampleTypes, Input

\* A client that holds a channel shows that the port was opened.
LEMMA OpenedBefore ==
    ASSUME PortInv, NewerInv, NEW cl \in Client, client[cl] # NULL
    PROVE  sessions # 0
<1>1. cl \in Holding
  BY DEF Holding
<1>2. Cardinality(Holding) # 0
  BY <1>1, HoldingFinite, FS_EmptySet
<1> QED
  BY <1>2 DEF NewerInv, NothingBefore, PortInv, PortOpenWhileUsed, Holding

\* A step after which a sample is neither read nor returned.
LEMMA NewerFrame ==
    ASSUME NewerInv, ReadsAnInput', sessions' = sessions, sessions # 0,
           UNCHANGED <<batch_active, clock, line, cache, last>>,
           pos' \in Nat, buffer' \in Seq(Sample), NewerEachTime',
           (buffer' = buffer /\ pos' >= pos) \/ pos' >= Len(buffer')
    PROVE  NewerInv'
<1>1. SampleTypes' /\ NothingBefore' /\ NothingKept'
  BY DEF NewerInv, SampleTypes, NothingBefore, NothingKept
<1>2. /\ UnreadInBuffer' \subseteq UnreadInBuffer /\ UnreadInLine' = UnreadInLine
      /\ \A j \in UnreadInBuffer' : buffer'[j] = buffer[j]
  BY DEF NewerInv, SampleTypes, UnreadInBuffer, UnreadInLine
<1>3. Ordered => Ordered'
  BY <1>2 DEF Ordered, InOrder, UnreadAreNewer, Newer, KeptAreNewer
<1> QED
  BY <1>1, <1>3 DEF NewerInv

\* A timeout leaves what is in the kernel, and nothing to read in the buffer.
LEMMA TimesOut ==
    ASSUME SampleTypes, TimedOut
    PROVE  /\ pos' \in Nat /\ buffer' \in Seq(Sample) /\ line' = line
           /\ (buffer' = buffer /\ pos' >= pos) \/ pos' >= Len(buffer')
<1>1. CASE pos' = pos + (IF BeginningLeft THEN 2 ELSE 1) /\ buffer' = buffer
  BY <1>1 DEF TimedOut, SampleTypes
<1>2. ASSUME NEW with \in {<< >>} \cup {b \in {buffer} : pos = Len(buffer)},
             buffer' = Append(with, Message(BEGINNING, clock)), pos' = Len(buffer') + 1
      PROVE  pos' \in Nat /\ buffer' \in Seq(Sample) /\ pos' >= Len(buffer')
  <2>1. Message(BEGINNING, clock) \in Sample
    BY DEF Message, Sample, SampleTypes
  <2>2. << >> \in Seq(Sample)
    OBVIOUS
  <2>3. with \in Seq(Sample)
    BY <2>2 DEF SampleTypes
  <2>4. buffer' \in Seq(Sample)
    BY <1>2, <2>1, <2>3
  <2> QED
    BY <1>2, <2>4
<1> QED
  BY <1>1, <1>2 DEF TimedOut

\* The port is opened: what was in the kernel is dropped, and in the first session
\* the buffer is empty.
LEMMA open_portNewer ==
    ASSUME NewerInv, NEW cl \in Client, NEW i, open_port(cl, i)
    PROVE  NewerInv'
<1>1. /\ sessions' = sessions + 1 /\ pos' = 0 /\ line' = << >>
      /\ call' = [Idle EXCEPT !.op = "open", !.client = cl, !.of = i]
      /\ UNCHANGED <<batch_active, clock, buffer, cache, last, returned>>
  BY DEF open_port, batchVars, resultVars
<1>2. SampleTypes' /\ ReadsAnInput' /\ NothingKept' /\ NothingBefore'
  BY <1>1 DEF NewerInv, SampleTypes, ReadsAnInput, NothingKept, NothingBefore, Idle
<1>3. CASE sessions = 0
  <2>1. UnreadInBuffer' = {} /\ UnreadInLine' = {}
    BY <1>1, <1>3 DEF NewerInv, NothingBefore, UnreadInBuffer, UnreadInLine
  <2>2. Ordered'
    BY <1>1, <1>3, <2>1 DEF NewerInv, Ordered, InOrder, UnreadAreNewer, KeptAreNewer
  <2>3. NewerEachTime'
    BY <1>1, <1>3 DEF NewerInv, NothingBefore, NewerEachTime, Sampled
  <2> QED
    BY <1>2, <2>2, <2>3 DEF NewerInv
<1>4. CASE sessions # 0
  <2>1. ~(sessions' <= 1) /\ sessions' # 1
    BY <1>1, <1>4 DEF NewerInv, SampleTypes
  <2> QED
    BY <1>2, <2>1 DEF NewerInv, NewerEachTime
<1> QED BY <1>3, <1>4

\* When nothing newer than the answer taken is known, what is left unread is newer.
LEMMA UnreadStayNewer ==
    ASSUME SampleTypes, SampleTypes', clock' = clock,
           NEW m \in Sample,
           \A i \in Input : last'[i] <= m.at /\ cache'[i] <= m.at,
           \A j \in UnreadInBuffer' : m.at < buffer'[j].at /\ buffer'[j].at <= clock,
           \A k \in UnreadInLine' : m.at < line'[k].at /\ line'[k].at <= clock
    PROVE  UnreadAreNewer'
<1>1. \A j \in UnreadInBuffer' : buffer'[j].at \in Nat
  <2>1. \A j \in UnreadInBuffer' : buffer'[j] \in Sample
    BY DEF SampleTypes, UnreadInBuffer
  <2> QED BY <2>1 DEF Sample
<1>2. \A k \in UnreadInLine' : line'[k].at \in Nat
  <2>1. \A k \in UnreadInLine' : line'[k] \in Sample
    BY DEF SampleTypes, UnreadInLine
  <2> QED BY <2>1 DEF Sample
<1>3. m.at \in Nat /\ \A i \in Input : last'[i] \in Nat /\ cache'[i] \in Int
  BY DEF SampleTypes, Sample
<1> QED
  BY <1>1, <1>2, <1>3 DEF UnreadAreNewer, Newer

\* Nothing known is as new as something newer.
LEMMA NewerIsKnown ==
    ASSUME SampleTypes, NEW m \in Sample, Newer(m.at)
    PROVE  \A i \in Input : last[i] <= m.at /\ cache[i] <= m.at
  BY DEF SampleTypes, Sample, Newer

\* An answer is taken and not kept: one to the wrong poll, or the configuration.
LEMMA TakesForNothing ==
    ASSUME NewerInv, sessions' = sessions, sessions # 0, Ready, TakeAnswer, ReadsAnInput',
           UNCHANGED <<batch_active, clock, cache, last>>, NewerEachTime'
    PROVE  NewerInv'
<1>1. SampleTypes' /\ NothingBefore' /\ NothingKept'
  BY TakesOldest DEF NewerInv, SampleTypes, NothingBefore, NothingKept
<1>2. ASSUME Ordered PROVE Ordered'
  <2>1. KeptAreNewer'
    BY <1>2 DEF Ordered, KeptAreNewer
  <2>2. /\ InOrder' /\ Newer(NextAnswer.at) /\ NextAnswer \in Sample
        /\ \A j \in UnreadInBuffer' : NextAnswer.at < buffer'[j].at /\ buffer'[j].at <= clock
        /\ \A k \in UnreadInLine' : NextAnswer.at < line'[k].at /\ line'[k].at <= clock
    BY <1>2, TakesOldest DEF NewerInv, Ordered
  <2>3. UnreadAreNewer'
    BY <1>1, <2>2, NewerIsKnown, UnreadStayNewer DEF NewerInv
  <2> QED
    BY <2>1, <2>2, <2>3 DEF Ordered
<1> QED
  BY <1>1, <1>2 DEF NewerInv

\* What is read of an answer is the answer, or a value that no sample has.
LEMMA ReadAsWhat ==
    ASSUME NEW n \in Sample, NEW m \in ReadAs(n)
    PROVE  m.at \in Int /\ (m = n \/ m.at = GARBLED)
  BY DEF ReadAs, Message, Sample, GARBLED

\* A read without batch_sampling returns the oldest answer, and it becomes the last.
LEMMA read_answerNewer ==
    ASSUME NewerInv, read_answer
    PROVE  NewerInv'
<1>1. /\ call.op = "read" /\ call' = Idle /\ sessions' = sessions /\ Ready /\ TakeAnswer
      /\ UNCHANGED <<batch_active, clock, cache, count>>
      /\ call.of \in Input /\ ~batch_active /\ sessions # 0
      /\ ReadsAnInput'
  BY DEF read_answer, worldVars, portVars, batchVars, NewerInv, ReadsAnInput, NothingBefore, Idle
<1>2. CASE Returns("ECHRNG", call.of, 0, call.since)
  BY <1>1, <1>2, NoSample, TakesForNothing
<1>4. CASE Returns("OK", call.of, GARBLED, call.since)
  <2>1. last' = last /\ NewerEachTime'
    BY <1>4 DEF Returns, NewerEachTime, Sampled, GARBLED
  <2> QED
    BY <1>1, <2>1, TakesForNothing
<1>3. CASE Returns("OK", call.of, NextAnswer.at, call.since)
  <2>1. Returns("OK", call.of, NextAnswer.at, call.since)
    BY <1>3
  <2>2. /\ NextAnswer \in Sample /\ NextAnswer.at \in Nat
        /\ pos' \in Nat /\ line' \in Seq(Sample) /\ buffer' \in Seq(Sample)
    BY <1>1, TakesOldest DEF NewerInv, Sample
  <2>3. last' = IF NextAnswer.at > 0 THEN [last EXCEPT ![call.of] = NextAnswer.at] ELSE last
    BY <2>1 DEF Returns
  <2>4. SampleTypes' /\ NothingKept' /\ NothingBefore'
    BY <1>1, <2>2, <2>3 DEF NewerInv, SampleTypes, NothingKept, NothingBefore
  <2>5. CASE sessions <= 1
    <3>1. /\ InOrder' /\ Newer(NextAnswer.at)
          /\ \A j \in UnreadInBuffer' : NextAnswer.at < buffer'[j].at /\ buffer'[j].at <= clock
          /\ \A k \in UnreadInLine' : NextAnswer.at < line'[k].at /\ line'[k].at <= clock
      BY <1>1, <2>5, TakesOldest DEF NewerInv, Ordered
    <3>2. UnreadAreNewer'
      <4>1. \A i \in Input : last[i] <= NextAnswer.at /\ cache[i] <= NextAnswer.at
        BY <2>2, <3>1, NewerIsKnown DEF NewerInv
      <4>2. \A i \in Input : last'[i] <= NextAnswer.at /\ cache'[i] <= NextAnswer.at
        BY <1>1, <2>2, <2>3, <4>1 DEF NewerInv, SampleTypes
      <4> QED
        BY <1>1, <2>2, <2>4, <3>1, <4>2, UnreadStayNewer DEF NewerInv
    <3>3. KeptAreNewer'
      BY <1>1, <2>2, <2>3, <2>5, <3>1 DEF NewerInv, SampleTypes, NothingKept, KeptAreNewer, Ordered, Newer
    <3>4. NewerEachTime'
      BY <1>1, <2>1, <2>2, <3>1, NewerSample DEF NewerInv, Newer
    <3> QED
      BY <1>1, <2>4, <3>1, <3>2, <3>3, <3>4 DEF NewerInv, Ordered
  <2>6. CASE ~(sessions <= 1)
    BY <1>1, <2>4, <2>6 DEF NewerInv, NewerEachTime, SampleTypes
  <2> QED BY <2>5, <2>6
<1>5. NextAnswer \in Sample
  BY <1>1, TakesOldest DEF NewerInv
<1>6. PICK m \in ReadAs(NextAnswer) :
         IF m.of = call.of THEN Returns("OK", call.of, m.at, call.since)
         ELSE Returns("ECHRNG", call.of, 0, call.since)
  BY DEF read_answer
<1>7. m = NextAnswer \/ m.at = GARBLED
  BY <1>5, ReadAsWhat
<1> QED BY <1>2, <1>3, <1>4, <1>6, <1>7

\* The rest of an answer is not kept.
LEMMA read_restNewer ==
    ASSUME NewerInv, read_rest
    PROVE  NewerInv'
<1>1. /\ sessions' = sessions /\ Ready /\ TakeAnswer /\ sessions # 0
      /\ UNCHANGED <<batch_active, clock, cache>>
      /\ call' \in {call, Idle}
  BY DEF read_rest, worldVars, portVars, batchVars, NewerInv, NothingBefore, Idle
<1>2. ReadsAnInput'
  BY <1>1 DEF NewerInv, ReadsAnInput, Idle
<1>3. last' = last /\ NewerEachTime'
  BY <1>1, NoSample DEF read_rest, resultVars, NewerInv, NewerEachTime, Sampled
<1> QED
  BY <1>1, <1>2, <1>3, TakesForNothing

\* An answer is kept for its input: it is newer than what was returned of it.
LEMMA AnswerIsKept ==
    ASSUME NewerInv, sessions' = sessions, Ready, TakeAnswer, UNCHANGED <<clock, last>>,
           ReadsAnInput', NothingKept', NothingBefore', NewerEachTime',
           NEW m \in ReadAs(NextAnswer),
           cache' = IF m.of \in Input THEN [cache EXCEPT ![m.of] = m.at] ELSE cache
    PROVE  NewerInv'
<1>1. /\ NextAnswer \in Sample /\ NextAnswer.at \in Nat
      /\ m.at \in Int
      /\ m.at = NextAnswer.at \/ m.at = -1
      /\ pos' \in Nat /\ line' \in Seq(Sample) /\ buffer' \in Seq(Sample)
  BY TakesOldest, ReadAsWhat DEF NewerInv, Sample, GARBLED
<1>2. SampleTypes'
  BY <1>1 DEF NewerInv, SampleTypes
<1>3. ASSUME Ordered PROVE Ordered'
  <2>1. /\ InOrder' /\ Newer(NextAnswer.at)
        /\ \A j \in UnreadInBuffer' : NextAnswer.at < buffer'[j].at /\ buffer'[j].at <= clock
        /\ \A k \in UnreadInLine' : NextAnswer.at < line'[k].at /\ line'[k].at <= clock
    BY <1>3, TakesOldest DEF NewerInv, Ordered
  <2>2. \A i \in Input : last[i] <= NextAnswer.at /\ cache[i] <= NextAnswer.at
    BY <1>1, <2>1, NewerIsKnown DEF NewerInv
  <2>3. \A i \in Input : last'[i] <= NextAnswer.at /\ cache'[i] <= NextAnswer.at
    BY <1>1, <2>2 DEF NewerInv, SampleTypes
  <2>4. UnreadAreNewer'
    BY <1>1, <1>2, <2>1, <2>3, UnreadStayNewer DEF NewerInv
  <2>5. KeptAreNewer'
    BY <1>1, <1>3, <2>1 DEF NewerInv, SampleTypes, Ordered, KeptAreNewer, Newer
  <2> QED
    BY <2>1, <2>4, <2>5 DEF Ordered
<1> QED
  BY <1>2, <1>3 DEF NewerInv

\* What was kept of an input is returned, and not kept any more.
LEMMA KeptIsReturned ==
    ASSUME NewerInv, sessions' = sessions, UNCHANGED <<clock, pos, line, buffer>>,
           ReadsAnInput', NothingKept', NothingBefore',
           NEW i \in Input, NEW since, deliver(i, cache, since)
    PROVE  NewerInv'
<1>1. /\ Returns("OK", i, cache[i], since)
      /\ last' = IF cache[i] > 0 THEN [last EXCEPT ![i] = cache[i]] ELSE last
      /\ cache' = [cache EXCEPT ![i] = 0] /\ cache[i] \in Int
  BY DEF deliver, Returns, NewerInv, SampleTypes
<1>2. SampleTypes'
  BY <1>1 DEF NewerInv, SampleTypes
<1>3. ASSUME Ordered PROVE Ordered' /\ NewerEachTime'
  <2>1. cache[i] <= 0 \/ last[i] < cache[i]
    BY <1>3 DEF Ordered, KeptAreNewer
  <2>2. \A at \in Nat : Newer(at) => Newer(at)'
    BY <1>1, <2>1 DEF Newer, NewerInv, SampleTypes
  <2>3. UnreadInBuffer' = UnreadInBuffer /\ UnreadInLine' = UnreadInLine
    BY DEF UnreadInBuffer, UnreadInLine
  <2>4. /\ \A j \in UnreadInBuffer : buffer[j] \in Sample
        /\ \A k \in UnreadInLine : line[k] \in Sample
    BY DEF UnreadInBuffer, UnreadInLine, NewerInv, SampleTypes
  <2>5. UnreadAreNewer' /\ InOrder'
    BY <1>3, <2>2, <2>3, <2>4 DEF Ordered, UnreadAreNewer, InOrder, Sample
  <2>6. KeptAreNewer'
    BY <1>1, <1>3 DEF Ordered, KeptAreNewer, NewerInv, SampleTypes
  <2>7. NewerEachTime'
    BY <1>1, <2>1, NewerSample DEF NewerInv
  <2> QED
    BY <2>5, <2>6, <2>7 DEF Ordered
<1>4. ~(sessions <= 1) => NewerEachTime'
  BY DEF NewerInv, SampleTypes, NewerEachTime
<1> QED
  BY <1>2, <1>3, <1>4 DEF NewerInv

\* The last answer of a batch is kept, and what is then kept of the input is returned.
LEMMA BatchEnds ==
    ASSUME NewerInv, sessions' = sessions, Ready, TakeAnswer, clock' = clock,
           ReadsAnInput', NothingKept', NothingBefore',
           NEW i \in Input, NEW c, NEW since, deliver(i, c, since),
           NEW m \in ReadAs(NextAnswer),
           c = IF m.of \in Input THEN [cache EXCEPT ![m.of] = m.at] ELSE cache
    PROVE  NewerInv'
<1>1. /\ NextAnswer \in Sample /\ NextAnswer.at \in Nat
      /\ m.at \in Int
      /\ m.at = NextAnswer.at \/ m.at = -1
      /\ pos' \in Nat /\ line' \in Seq(Sample) /\ buffer' \in Seq(Sample)
  BY TakesOldest, ReadAsWhat DEF NewerInv, Sample, GARBLED
<1>2. /\ Returns("OK", i, c[i], since)
      /\ last' = IF c[i] > 0 THEN [last EXCEPT ![i] = c[i]] ELSE last
      /\ cache' = [c EXCEPT ![i] = 0]
  BY DEF deliver, Returns
<1>3. c \in [Input -> Int] /\ c[i] \in Int
  BY <1>1 DEF NewerInv, SampleTypes
<1>4. SampleTypes'
  BY <1>1, <1>2, <1>3 DEF NewerInv, SampleTypes
<1>5. ASSUME Ordered PROVE Ordered' /\ NewerEachTime'
  <2>1. /\ InOrder' /\ Newer(NextAnswer.at)
        /\ \A j \in UnreadInBuffer' : NextAnswer.at < buffer'[j].at /\ buffer'[j].at <= clock
        /\ \A k \in UnreadInLine' : NextAnswer.at < line'[k].at /\ line'[k].at <= clock
    BY <1>5, TakesOldest DEF NewerInv, Ordered
  <2>2. \A j \in Input : last[j] <= NextAnswer.at /\ cache[j] <= NextAnswer.at
    BY <1>1, <2>1, NewerIsKnown DEF NewerInv
  <2>3. \A j \in Input : /\ c[j] <= NextAnswer.at /\ c[j] <= clock
                         /\ c[j] <= 0 \/ last[j] < c[j]
    BY <1>1, <1>5, <2>1, <2>2 DEF NewerInv, SampleTypes, Ordered, KeptAreNewer, Newer
  <2>4. \A j \in Input : last'[j] <= NextAnswer.at /\ cache'[j] <= NextAnswer.at
    BY <1>1, <1>2, <1>3, <2>2, <2>3, SMTT(30) DEF NewerInv, SampleTypes
  <2>5. UnreadAreNewer'
    BY <1>1, <1>4, <2>1, <2>4, UnreadStayNewer DEF NewerInv
  <2>6. KeptAreNewer'
    <3>1. last'[i] \in {c[i], last[i]} /\ cache'[i] = 0
      BY <1>2, <1>3 DEF NewerInv, SampleTypes
    <3>2. \A j \in Input \ {i} : last'[j] = last[j] /\ cache'[j] = c[j]
      BY <1>2, <1>3 DEF NewerInv, SampleTypes
    <3>3. \A j \in Input : last[j] <= clock
      BY <1>5 DEF Ordered, KeptAreNewer
    <3> SUFFICES ASSUME NEW j \in Input
                 PROVE  /\ last'[j] <= clock /\ cache'[j] <= clock
                        /\ cache'[j] <= 0 \/ last'[j] < cache'[j]
      BY DEF KeptAreNewer
    <3>4. CASE j = i
      BY <2>3, <3>1, <3>3, <3>4 DEF NewerInv, SampleTypes
    <3>5. CASE j # i
      <4>1. j \in Input \ {i} /\ last'[j] = last[j] /\ cache'[j] = c[j] /\ clock' = clock
        BY <3>2, <3>5
      <4> QED
        BY <2>3, <3>3, <4>1
    <3> QED BY <3>4, <3>5
  <2>7. NewerEachTime'
    BY <1>2, <1>3, <2>3, NewerSample DEF NewerInv
  <2> QED
    BY <2>1, <2>5, <2>6, <2>7 DEF Ordered
<1>6. ~(sessions <= 1) => NewerEachTime'
  BY DEF NewerInv, SampleTypes, NewerEachTime
<1> QED
  BY <1>4, <1>5, <1>6 DEF NewerInv

\* One answer of a batch.
LEMMA batch_answerNewer ==
    ASSUME NewerInv, CallIsRecord, batch_answer
    PROVE  NewerInv'
<1>1. /\ call.op = "batch" /\ sessions' = sessions /\ Ready /\ TakeAnswer
      /\ UNCHANGED <<batch_active, clock, count>>
      /\ call.of \in Input /\ batch_active /\ sessions # 0
  BY DEF batch_answer, worldVars, portVars, NewerInv, ReadsAnInput, NothingBefore, Idle
<1>2. NothingKept' /\ NothingBefore'
  BY <1>1 DEF NothingKept, NothingBefore
<1> DEFINE kept(m) == IF m.of \in Input THEN [cache EXCEPT ![m.of] = m.at] ELSE cache
<1>5. PICK m \in ReadAs(NextAnswer) :
         IF call.expected > 1
         THEN /\ call' = [call EXCEPT !.expected = @ - 1]
              /\ cache' = kept(m)
              /\ UNCHANGED <<expires, began, resultVars>>
         ELSE /\ call' = Idle
              /\ deliver(call.of, kept(m), call.since)
  BY DEF batch_answer
<1> DEFINE c == kept(m)
<1>3. CASE call.expected > 1
  <2>1. /\ call' = [call EXCEPT !.expected = @ - 1] /\ cache' = c
        /\ UNCHANGED <<last, returned>>
    BY <1>3, <1>5 DEF resultVars
  <2>2. ReadsAnInput'
    BY <1>1, <2>1 DEF ReadsAnInput, CallIsRecord
  <2>3. NewerEachTime'
    BY <1>1, <2>1 DEF NewerInv, NewerEachTime, Sampled
  <2> QED
    BY <1>1, <1>2, <2>1, <2>2, <2>3, AnswerIsKept
<1>4. CASE ~(call.expected > 1)
  <2>1. call' = Idle /\ deliver(call.of, c, call.since)
    BY <1>4, <1>5
  <2>2. ReadsAnInput'
    BY <2>1 DEF ReadsAnInput, Idle
  <2> QED
    BY <1>1, <1>2, <2>1, <2>2, BatchEnds
<1> QED BY <1>3, <1>4

\* A batch begins: what was kept of the inputs is not kept any more.
LEMMA batch_samplingNewer ==
    ASSUME PortInv, NewerInv, NEW cl \in Client, batch_sampling(cl)
    PROVE  NewerInv'
<1>1. /\ client[cl] \in Input /\ batch_active /\ call' = Reading(cl, "batch")
      /\ cache' = [i \in Input |-> IF i \in ToSet(inputs) THEN 0 ELSE cache[i]]
      /\ UNCHANGED <<batch_active, clock, sessions, line, buffer, pos, last, returned>>
  BY DEF batch_sampling, portVars, resultVars
<1>2. client[cl] # NULL
  BY <1>1, InputsAssumption DEF Input
<1>3. sessions # 0 /\ NothingBefore'
  BY <1>1, <1>2, OpenedBefore DEF NothingBefore
<1>4. SampleTypes' /\ ReadsAnInput' /\ NothingKept'
  BY <1>1 DEF NewerInv, SampleTypes, ReadsAnInput, NothingKept, Reading
<1>5. ASSUME Ordered PROVE Ordered'
  <2>1. \A i \in Input : cache'[i] \in {0, cache[i]}
    BY <1>1
  <2>2. KeptAreNewer'
    BY <1>1, <1>5, <2>1 DEF Ordered, KeptAreNewer, NewerInv, SampleTypes
  <2>3. \A at \in Nat : Newer(at) => Newer(at)'
    BY <1>1, <2>1 DEF Newer, NewerInv, SampleTypes
  <2>4. UnreadInBuffer' = UnreadInBuffer /\ UnreadInLine' = UnreadInLine
    BY <1>1 DEF UnreadInBuffer, UnreadInLine
  <2>5. /\ \A j \in UnreadInBuffer : buffer[j] \in Sample
        /\ \A k \in UnreadInLine : line[k] \in Sample
    BY DEF UnreadInBuffer, UnreadInLine, NewerInv, SampleTypes
  <2> QED
    BY <1>1, <1>5, <2>2, <2>3, <2>4, <2>5 DEF Ordered, UnreadAreNewer, InOrder, Sample
<1>6. NewerEachTime'
  BY <1>1 DEF NewerInv, NewerEachTime, Sampled
<1> QED
  BY <1>1, <1>3, <1>4, <1>5, <1>6 DEF NewerInv

\* A read while the batch is valid.
LEMMA batch_hitNewer ==
    ASSUME PortInv, NewerInv, NEW cl \in Client, batch_hit(cl)
    PROVE  NewerInv'
<1>1. /\ client[cl] \in Input /\ batch_active /\ deliver(client[cl], cache, clock)
      /\ UNCHANGED <<batch_active, clock, sessions, call, count, line, buffer, pos>>
  BY DEF batch_hit, worldVars, portVars, ioVars
<1>2. sessions # 0
  BY <1>1, OpenedBefore, InputsAssumption DEF Input
<1>3. ReadsAnInput' /\ NothingKept' /\ NothingBefore'
  BY <1>1, <1>2 DEF NewerInv, ReadsAnInput, NothingKept, NothingBefore
<1> QED
  BY <1>1, <1>3, KeptIsReturned

\* A step of the others that leaves the answers alone.
LEMMA NewerStutter ==
    ASSUME NewerInv, clock' \in Nat, clock' >= clock,
           UNCHANGED <<batch_active, sessions, count, call, pos, line, buffer, cache, resultVars>>
    PROVE  NewerInv'
<1>1. SampleTypes' /\ ReadsAnInput' /\ NothingKept' /\ NothingBefore' /\ NewerEachTime'
  BY DEF NewerInv, SampleTypes, ReadsAnInput, NothingKept, NothingBefore, NewerEachTime, Sampled,
         resultVars
<1>2. ASSUME Ordered PROVE Ordered'
  <2>1. UnreadInBuffer' = UnreadInBuffer /\ UnreadInLine' = UnreadInLine /\ last' = last
    BY DEF UnreadInBuffer, UnreadInLine, resultVars
  <2>2. /\ \A j \in UnreadInBuffer : buffer[j] \in Sample
        /\ \A k \in UnreadInLine : line[k] \in Sample
    BY DEF UnreadInBuffer, UnreadInLine, NewerInv, SampleTypes
  <2>3. \A at \in Nat : Newer(at) => Newer(at)'
    BY <2>1 DEF Newer, NewerInv, SampleTypes
  <2>4. KeptAreNewer'
    BY <1>2, <2>1 DEF Ordered, KeptAreNewer, NewerInv, SampleTypes
  <2> QED
    BY <1>2, <2>1, <2>2, <2>3, <2>4 DEF Ordered, UnreadAreNewer, InOrder, Sample
<1> QED
  BY <1>1, <1>2 DEF NewerInv

\* The device answers: its sample is the newest of all.
LEMMA device_answersNewer ==
    ASSUME NewerInv, device_answers
    PROVE  NewerInv'
<1>1. /\ clock' = clock + 1
      /\ UNCHANGED <<batch_active, sessions, count, call, pos, buffer, cache, resultVars>>
  BY DEF device_answers, portVars, batchVars
<1>2. CASE line' = line
  BY <1>1, <1>2, NewerStutter DEF NewerInv, SampleTypes
<1>3. CASE line' = Append(line, Message(Head(polled).of, clock'))
  <2>1. PICK m \in Sample : line' = Append(line, m) /\ m.at = clock + 1 /\ clock \in Nat
    <3>1. clock \in Nat /\ clock' = clock + 1 /\ Head(polled).of \in Input \cup {CONFIG, REST}
      BY <1>1 DEF device_answers, NewerInv, SampleTypes
    <3>2. Message(Head(polled).of, clock') \in Sample
      BY <3>1 DEF Message, Sample
    <3>3. Message(Head(polled).of, clock').at = clock + 1
      BY <3>1 DEF Message
    <3> QED
      BY <1>3, <3>1, <3>2, <3>3
  <2>2. /\ SampleTypes' /\ ReadsAnInput' /\ NothingKept' /\ NothingBefore'
        /\ NewerEachTime'
    BY <1>1, <2>1 DEF NewerInv, SampleTypes, ReadsAnInput, NothingKept, NothingBefore,
                      NewerEachTime, Sampled, resultVars
  <2>3. ASSUME Ordered PROVE Ordered'
    <3>1. /\ UnreadInBuffer' = UnreadInBuffer /\ last' = last
          /\ UnreadInLine' = UnreadInLine \cup {Len(line) + 1}
          /\ \A k \in UnreadInLine : k < Len(line) + 1 /\ line'[k] = line[k]
          /\ line'[Len(line) + 1] = m
      BY <1>1, <2>1 DEF UnreadInBuffer, UnreadInLine, NewerInv, SampleTypes, resultVars
    <3>2. /\ \A j \in UnreadInBuffer : buffer[j].at \in Nat
          /\ \A k \in UnreadInLine : line[k].at \in Nat
      <4>1. /\ \A j \in UnreadInBuffer : buffer[j] \in Sample
            /\ \A k \in UnreadInLine : line[k] \in Sample
        BY DEF UnreadInBuffer, UnreadInLine, NewerInv, SampleTypes
      <4> QED BY <4>1 DEF Sample
    <3>3. \A at \in Nat : Newer(at) => Newer(at)' /\ at < m.at
      BY <1>1, <2>1, <3>1 DEF Newer, NewerInv, SampleTypes
    <3>4. KeptAreNewer' /\ Newer(m.at)'
      <4>1. \A i \in Input : /\ last'[i] = last[i] /\ cache'[i] = cache[i]
                             /\ last[i] \in Nat /\ cache[i] \in Int
                             /\ last[i] <= clock /\ cache[i] <= clock
                             /\ cache[i] <= 0 \/ last[i] < cache[i]
        BY <1>1, <2>3, <3>1 DEF Ordered, KeptAreNewer, NewerInv, SampleTypes
      <4>2. KeptAreNewer'
        BY <1>1, <2>1, <4>1 DEF KeptAreNewer
      <4>3. Newer(m.at)'
        <5>1. m.at <= clock' /\ \A i \in Input : last[i] < m.at /\ cache[i] < m.at
          BY <1>1, <2>1, <4>1
        <5> QED BY <4>1, <5>1 DEF Newer
      <4> QED BY <4>2, <4>3
    <3>5. UnreadAreNewer'
      <4>1. \A j \in UnreadInBuffer : Newer(buffer[j].at)'
        BY <1>1, <2>3, <3>2, <3>3 DEF Ordered, UnreadAreNewer
      <4>2. \A k \in UnreadInLine : Newer(line[k].at)'
        BY <3>1, <2>3, <3>2, <3>3 DEF Ordered, UnreadAreNewer
      <4> QED
        BY <3>1, <3>4, <4>1, <4>2 DEF UnreadAreNewer
    <3>6. InOrder'
      <4>1. /\ \A j \in UnreadInBuffer : buffer[j].at < m.at
            /\ \A k \in UnreadInLine : line[k].at < m.at
        BY <2>3, <3>2, <3>3 DEF Ordered, UnreadAreNewer
      <4>2. \A k \in UnreadInLine : k \in Nat
        BY DEF UnreadInLine, NewerInv, SampleTypes
      <4>3. \A j, k \in UnreadInLine' : j < k => line'[j].at < line'[k].at
        <5> SUFFICES ASSUME NEW j \in UnreadInLine', NEW k \in UnreadInLine', j < k
                     PROVE  line'[j].at < line'[k].at
          OBVIOUS
        <5>1. j \in UnreadInLine
          BY <3>1, <4>2 DEF NewerInv, SampleTypes
        <5>2. CASE k \in UnreadInLine
          BY <2>3, <3>1, <5>1, <5>2 DEF Ordered, InOrder
        <5>3. CASE k = Len(line) + 1
          BY <3>1, <4>1, <5>1, <5>3
        <5> QED BY <3>1, <5>2, <5>3
      <4>4. \A j \in UnreadInBuffer', k \in UnreadInLine' : buffer'[j].at < line'[k].at
        BY <1>1, <2>3, <3>1, <4>1 DEF Ordered, InOrder
      <4> QED
        BY <1>1, <2>3, <3>1, <4>3, <4>4 DEF Ordered, InOrder
    <3> QED
      BY <3>4, <3>5, <3>6 DEF Ordered
  <2> QED
    BY <1>1, <2>2, <2>3 DEF NewerInv
<1> QED
  BY <1>2, <1>3 DEF device_answers

\* Every step keeps the order.
LEMMA NewerStep == PortInv /\ NewerInv /\ [Next]_vars => NewerInv'
<1> SUFFICES ASSUME PortInv, NewerInv, [Next]_vars PROVE NewerInv'
  OBVIOUS
<1>1. ASSUME NEW cl \in Client, NEW i \in world.mapped, open_port(cl, i) PROVE NewerInv'
  BY <1>1, open_portNewer
<1>2. ASSUME NEW cl \in Client, NEW i \in world.mapped, channel_open(cl, i) PROVE NewerInv'
  <2>1. call = Idle /\ count # 0 /\ sessions # 0
    BY <1>2 DEF channel_open, NewerInv, NothingBefore, PortInv, PortTypes
  <2> QED
    BY <1>2, <2>1, NewerFrame
       DEF channel_open, worldVars, ioVars, batchVars, resultVars, NewerInv, SampleTypes,
           ReadsAnInput, NewerEachTime, Sampled
<1>3. ASSUME NEW cl \in Client, channel_close(cl) PROVE NewerInv'
  <2>1. sessions # 0
    BY <1>3, OpenedBefore DEF channel_close
  <2> QED
    BY <1>3, <2>1, NewerFrame
       DEF channel_close, worldVars, ioVars, batchVars, resultVars, NewerInv, SampleTypes,
           ReadsAnInput, NewerEachTime, Sampled
<1>4. ASSUME NEW cl \in Client, read(cl) PROVE NewerInv'
  <2>1. client[cl] \in Input /\ sessions # 0
    BY <1>4, OpenedBefore, InputsAssumption DEF read, Input
  <2>2. ReadsAnInput'
    BY <1>4, <2>1 DEF read, ReadsAnInput, Reading, Idle
  <2>3. NewerEachTime' /\ last' = last
    BY <1>4, NoSample DEF read, portVars, resultVars, NewerInv, NewerEachTime, Sampled
  <2> QED
    BY <1>4, <2>1, <2>2, <2>3, NewerFrame DEF read, portVars, batchVars, NewerInv, SampleTypes
<1>5. ASSUME NEW cl \in Client, batch_hit(cl) PROVE NewerInv'
  BY <1>5, batch_hitNewer
<1>6. ASSUME NEW cl \in Client, batch_sampling(cl) PROVE NewerInv'
  BY <1>6, batch_samplingNewer
<1>7. ASSUME NEW cl \in Client, NEW value, write(cl, value) PROVE NewerInv'
  BY <1>7, NewerStutter DEF write, portVars, batchVars, NewerInv, SampleTypes
<1>8. CASE read_config
  <2>1. /\ call.op = "open" /\ Ready /\ TakeAnswer /\ sessions # 0
        /\ UNCHANGED <<batch_active, clock, sessions, cache, last, returned>>
        /\ call' = call \/ call' = Idle
    BY <1>8 DEF read_config, opened, worldVars, batchVars, resultVars, NewerInv, NothingBefore, Idle
  <2>2. ReadsAnInput' /\ NewerEachTime'
    BY <2>1 DEF NewerInv, ReadsAnInput, NewerEachTime, Sampled, Idle
  <2> QED
    BY <2>1, <2>2, TakesForNothing
<1>9. CASE read_config_fails
  <2>1. sessions # 0
    BY <1>9 DEF read_config_fails, NewerInv, NothingBefore, Idle
  <2> QED
    BY <1>9, <2>1, NewerFrame, TimesOut
       DEF read_config_fails, batchVars, resultVars, NewerInv, ReadsAnInput, NewerEachTime,
           Sampled, Idle
<1>10. CASE read_answer
  BY <1>10, read_answerNewer
<1>11. CASE read_fails
  <2>1. sessions # 0
    BY <1>11 DEF read_fails, NewerInv, NothingBefore, Idle
  <2>2. NewerEachTime' /\ last' = last
    BY <1>11, NoSample DEF read_fails
  <2> QED
    BY <1>11, <2>1, <2>2, NewerFrame, TimesOut
       DEF read_fails, portVars, batchVars, NewerInv, ReadsAnInput, Idle
<1>12. CASE batch_answer
  BY <1>12, batch_answerNewer DEF PortInv
<1>15. CASE read_rest
  BY <1>15, read_restNewer
<1>13. CASE device_answers
  BY <1>13, device_answersNewer
<1>14. CASE device_sets \/ device_misunderstands \/ tick \/ UNCHANGED vars
  <2>1. /\ UNCHANGED <<batch_active, sessions, count, call, pos, line, buffer, cache, resultVars>>
        /\ clock' \in Nat /\ clock' >= clock
    BY <1>14 DEF device_sets, device_misunderstands, tick, vars, worldVars, portVars, ioVars,
                 batchVars, NewerInv, SampleTypes
  <2> QED
    BY <2>1, NewerStutter
<1> QED
  BY <1>1, <1>2, <1>3, <1>4, <1>5, <1>6, <1>7, <1>8, <1>9, <1>10, <1>11, <1>12, <1>13, <1>14,
     <1>15 DEF Next, HostStep

\* NewerEachTime of the run, for any number of clients, channels and faults and
\* however late the answers come: until the port is opened again no read returns
\* the sample of a read before it, or an older one.
THEOREM NewerCorrect == Spec => []NewerEachTime
<1>1. PortInv /\ NewerInv => NewerEachTime
  BY DEF NewerInv
<1> QED
  BY <1>1, PortInit, PortStep, NewerInit, NewerStep, PTL DEF Spec

-----------------------------------------------------------------------------
(* The outputs end up as they were last written *)

Sent == [of : Input \cup Outputs \cup {CONFIG, TORN, REST}, value : {NULL, 0, 1}]

\* What becomes of output o when the device has taken all of q: it is v, or what
\* it was before.
Leaves(q, o, v) ==
    \E i \in 1..Len(q) : /\ q[i].of = o /\ q[i].value = v
                         /\ \A j \in 1..Len(q) : j > i => q[j].of # o
Spares(q, o) == \A i \in 1..Len(q) : q[i].of # o

\* The device has, or will get, v for o; what was not sent comes last.
Arrives(q, o, v) == Leaves(q, o, v) \/ (Spares(q, o) /\ output[o] = v)
WillHave(unsent_, polled_, o, v) ==
    Leaves(unsent_, o, v) \/ (Spares(unsent_, o) /\ Arrives(polled_, o, v))

WriteTypes ==
    /\ polled \in Seq(Sent) /\ unsent \in Seq(Sent)
    /\ inputs \in Seq(Input)
    /\ asked \in [Outputs -> {NULL, 0, 1}]
    /\ output \in [Outputs -> {NULL, 0, 1, GARBLED}]

NothingWritten == sessions = 0 => unsent = << >> /\ polled = << >>

\* LastWriteWins speaks of the moment when all is sent; until then the values on
\* their way make up for the difference, whatever write() failed and is repeated.
WriteInv ==
    /\ WriteTypes /\ NothingWritten
    /\ sessions <= 1 /\ ~misunderstood =>
          \A o \in Outputs : WillHave(unsent, polled, o, asked[o])

\* What two queues leave, one after the other.
LEMMA LeavesConcat ==
    ASSUME NEW s \in Seq(Sent), NEW t \in Seq(Sent), NEW o, NEW v
    PROVE  /\ Leaves(t, o, v) => Leaves(s \o t, o, v)
           /\ Spares(t, o) /\ Leaves(s, o, v) => Leaves(s \o t, o, v)
           /\ Spares(s, o) /\ Spares(t, o) => Spares(s \o t, o)
<1> DEFINE r == s \o t
<1>1. /\ Len(s) \in Nat /\ Len(t) \in Nat /\ Len(r) = Len(s) + Len(t)
      /\ \A i \in 1..Len(s) : r[i] = s[i]
      /\ \A i \in 1..Len(t) : r[Len(s) + i] = t[i]
  BY ConcatProperties, LenProperties
<1>2. \A i \in 1..Len(r) : i \in 1..Len(s) \/ (i - Len(s) \in 1..Len(t) /\ r[i] = t[i - Len(s)])
  <2> SUFFICES ASSUME NEW i \in 1..Len(r), i > Len(s)
               PROVE  i - Len(s) \in 1..Len(t) /\ r[i] = t[i - Len(s)]
    BY <1>1
  <2>1. i - Len(s) \in 1..Len(t) /\ Len(s) + (i - Len(s)) = i
    BY <1>1
  <2> QED BY <1>1, <2>1
<1> HIDE DEF r
<1>3. ASSUME Leaves(t, o, v) PROVE Leaves(r, o, v)
  <2>1. PICK i \in 1..Len(t) : /\ t[i].of = o /\ t[i].value = v
                               /\ \A j \in 1..Len(t) : j > i => t[j].of # o
    BY <1>3 DEF Leaves
  <2>2. Len(s) + i \in 1..Len(r) /\ r[Len(s) + i] = t[i]
    BY <1>1
  <2>3. \A j \in 1..Len(r) : j > Len(s) + i => r[j].of # o
    <3> SUFFICES ASSUME NEW j \in 1..Len(r), j > Len(s) + i PROVE r[j].of # o
      OBVIOUS
    <3>1. j - Len(s) \in 1..Len(t) /\ j - Len(s) > i /\ r[j] = t[j - Len(s)]
      BY <1>1, <1>2
    <3> QED BY <2>1, <3>1
  <2> QED BY <2>1, <2>2, <2>3 DEF Leaves
<1>4. ASSUME Spares(t, o), Leaves(s, o, v) PROVE Leaves(r, o, v)
  <2>1. PICK i \in 1..Len(s) : /\ s[i].of = o /\ s[i].value = v
                               /\ \A j \in 1..Len(s) : j > i => s[j].of # o
    BY <1>4 DEF Leaves
  <2>2. i \in 1..Len(r) /\ r[i] = s[i]
    BY <1>1
  <2>3. \A j \in 1..Len(r) : j > i => r[j].of # o
    BY <1>1, <1>2, <1>4, <2>1 DEF Spares
  <2> QED BY <2>1, <2>2, <2>3 DEF Leaves
<1>5. ASSUME Spares(s, o), Spares(t, o) PROVE Spares(r, o)
  BY <1>1, <1>2, <1>5 DEF Spares
<1> QED BY <1>3, <1>4, <1>5 DEF r

\* What the rest of a queue leaves, the device having taken its head.
LEMMA LeavesTail ==
    ASSUME NEW q \in Seq(Sent), q # << >>, NEW o, NEW v
    PROVE  /\ Tail(q) \in Seq(Sent) /\ Head(q) \in Sent
           /\ Spares(q, o) => Head(q).of # o /\ Spares(Tail(q), o)
           /\ Leaves(q, o, v) => \/ Leaves(Tail(q), o, v)
                                 \/ Head(q).of = o /\ Head(q).value = v /\ Spares(Tail(q), o)
<1> DEFINE t == Tail(q)
<1>1. /\ t \in Seq(Sent) /\ Len(q) \in Nat \ {0} /\ Len(t) = Len(q) - 1
      /\ \A i \in 1..Len(t) : i + 1 \in 1..Len(q) /\ t[i] = q[i + 1]
      /\ Head(q) = q[1] /\ q[1] \in Sent
  BY HeadTailProperties, EmptySeq, LenProperties
<1> HIDE DEF t
<1>2. ASSUME Spares(q, o) PROVE Head(q).of # o /\ Spares(t, o)
  BY <1>1, <1>2 DEF Spares
<1>3. ASSUME Leaves(q, o, v)
      PROVE  Leaves(t, o, v) \/ (Head(q).of = o /\ Head(q).value = v /\ Spares(t, o))
  <2>1. PICK i \in 1..Len(q) : /\ q[i].of = o /\ q[i].value = v
                               /\ \A j \in 1..Len(q) : j > i => q[j].of # o
    BY <1>3 DEF Leaves
  <2>2. \A j \in 1..Len(t) : j + 1 > i => t[j].of # o
    BY <1>1, <2>1
  <2>3. CASE i = 1
    BY <1>1, <2>1, <2>2, <2>3 DEF Spares
  <2>4. CASE i # 1
    <3>1. i - 1 \in 1..Len(t) /\ t[i - 1] = q[i]
      BY <1>1, <2>4
    <3>2. \A j \in 1..Len(t) : j > i - 1 => t[j].of # o
      BY <2>2
    <3> QED BY <2>1, <3>1, <3>2 DEF Leaves
  <2> QED BY <2>3, <2>4
<1> QED BY <1>1, <1>2, <1>3 DEF t

\* What is sent after what is still to be sent changes an output, or spares it,
\* whether the write goes through or fails anywhere.
LEMMA FlushKeeps ==
    ASSUME WriteTypes, NEW extra \in Seq(Sent),
           Flushed(unsent \o extra) \/ FlushFailed(unsent \o extra),
           UNCHANGED output
    PROVE  /\ polled' \in Seq(Sent) /\ unsent' \in Seq(Sent)
           /\ \A o \in Outputs : \A v :
                 Leaves(extra, o, v) \/ (Spares(extra, o) /\ WillHave(unsent, polled, o, v))
                    => WillHave(unsent, polled, o, v)'
<1> SUFFICES ASSUME NEW polls, polls = unsent \o extra, Flushed(polls) \/ FlushFailed(polls)
             PROVE  /\ polled' \in Seq(Sent) /\ unsent' \in Seq(Sent)
                    /\ \A o \in Outputs : \A v :
                          Leaves(extra, o, v) \/ (Spares(extra, o) /\ WillHave(unsent, polled, o, v))
                             => WillHave(unsent, polled, o, v)'
  OBVIOUS
<1>1. /\ polled \in Seq(Sent) /\ unsent \in Seq(Sent) /\ polls \in Seq(Sent)
  BY ConcatProperties DEF WriteTypes
<1>2. \A o \in Outputs : \A v :
         Leaves(extra, o, v) \/ (Spares(extra, o) /\ WillHave(unsent, polled, o, v))
            => Leaves(polls, o, v) \/ (Spares(polls, o) /\ Arrives(polled, o, v))
  BY <1>1, LeavesConcat DEF WillHave
<1>3. CASE Flushed(polls)
  <2>1. polled' = polled \o polls /\ unsent' = << >>
    BY <1>3 DEF Flushed
  <2>2. polled' \in Seq(Sent) /\ unsent' \in Seq(Sent)
    BY <1>1, <2>1, ConcatProperties
  <2>3. \A o : Spares(unsent', o)
    BY <2>1 DEF Spares
  <2>4. \A o \in Outputs : \A v :
           Leaves(polls, o, v) \/ (Spares(polls, o) /\ Arrives(polled, o, v)) => Arrives(polled, o, v)'
    BY <1>1, <2>1, LeavesConcat DEF Arrives
  <2> QED BY <1>2, <2>2, <2>3, <2>4 DEF WillHave
<1>4. CASE FlushFailed(polls)
  <2>1. PICK n \in 0..(Len(polls) - 1) : \E torn \in Beginnings(polls[n + 1]) :
            polled' = polled \o SubSeq(polls, 1, n) \o torn
    BY <1>4 DEF FlushFailed
  <2>2. PICK torn \in Beginnings(polls[n + 1]) : polled' = polled \o SubSeq(polls, 1, n) \o torn
    BY <2>1
  <2>3. unsent' = polls
    BY <1>4 DEF FlushFailed
  <2>4. torn \in Seq(Sent) /\ \A o \in Outputs : Spares(torn, o)
    <3>1. CASE torn = << >>
      BY <3>1 DEF Spares
    <3>2. CASE torn = <<Poll(TORN)>>
      <4>1. Poll(TORN) \in Sent /\ Poll(TORN).of = TORN /\ TORN \notin Outputs
        BY OutputsAssumption DEF Poll, Sent
      <4> QED BY <3>2, <4>1 DEF Spares
    <3> QED BY <3>1, <3>2 DEF Beginnings
  <2>5. /\ SubSeq(polls, 1, n) \in Seq(Sent)
        /\ \A o : Spares(polls, o) => Spares(SubSeq(polls, 1, n), o)
    <3>1. /\ SubSeq(polls, 1, n) \in Seq(Sent) /\ Len(SubSeq(polls, 1, n)) = n
          /\ \A i \in 1..n : SubSeq(polls, 1, n)[i] = polls[i] /\ i \in 1..Len(polls)
      BY <1>1, LenProperties, SMTT(30)
    <3> QED BY <3>1 DEF Spares
  <2> DEFINE q == polled \o SubSeq(polls, 1, n)
  <2>6. q \in Seq(Sent) /\ polled' = q \o torn
    BY <1>1, <2>2, <2>5, ConcatProperties
  <2>7. \A o \in Outputs : \A v : Spares(polls, o) /\ Arrives(polled, o, v) =>
            Leaves(q, o, v) \/ (Spares(q, o) /\ output[o] = v)
    BY <1>1, <2>5, LeavesConcat DEF Arrives
  <2> HIDE DEF q
  <2>8. \A o \in Outputs : \A v : Spares(polls, o) /\ Arrives(polled, o, v) => Arrives(polled, o, v)'
    BY <2>4, <2>6, <2>7, LeavesConcat DEF Arrives
  <2>9. polled' \in Seq(Sent)
    BY <2>4, <2>6, ConcatProperties
  <2> QED BY <1>1, <1>2, <2>3, <2>8, <2>9 DEF WillHave
<1> QED BY <1>3, <1>4

\* The device takes what comes first.
LEMMA TakeKeeps ==
    ASSUME WriteTypes, polled # << >>, polled' = Tail(polled), UNCHANGED unsent,
           NEW o \in Outputs, NEW v, WillHave(unsent, polled, o, v),
           output'[o] = IF Head(polled).of = o THEN Head(polled).value ELSE output[o]
    PROVE  WillHave(unsent, polled, o, v)'
<1>1. CASE Leaves(unsent, o, v)
  BY <1>1 DEF WillHave
<1>2. CASE Spares(unsent, o) /\ Arrives(polled, o, v)
  <2>1. Arrives(polled, o, v)'
    BY <1>2, LeavesTail DEF Arrives, WriteTypes
  <2> QED BY <1>2, <2>1 DEF WillHave
<1> QED BY <1>1, <1>2 DEF WillHave

\* A step that sends nothing and that the device takes no part in.
LEMMA WriteFrame ==
    ASSUME WriteInv, inputs' \in Seq(Input), sessions' = sessions,
           UNCHANGED <<polled, unsent, asked, output, misunderstood>>
    PROVE  WriteInv'
<1>1. WriteTypes' /\ NothingWritten'
  BY DEF WriteInv, WriteTypes, NothingWritten
<1>2. \A o \in Outputs : \A v : WillHave(unsent, polled, o, v)' = WillHave(unsent, polled, o, v)
  BY DEF WillHave, Arrives
<1> QED BY <1>1, <1>2 DEF WriteInv

\* A step that asks for something, and writes nothing.
LEMMA AskKeeps ==
    ASSUME WriteInv, NEW extra \in Seq(Sent), \A o \in Outputs : Spares(extra, o),
           Flushed(unsent \o extra) \/ FlushFailed(unsent \o extra),
           sessions' # 0, sessions' <= 1 => sessions <= 1,
           UNCHANGED <<inputs, asked, output, misunderstood>>
    PROVE  WriteInv'
<1>1. /\ polled' \in Seq(Sent) /\ unsent' \in Seq(Sent)
      /\ \A o \in Outputs : \A v : WillHave(unsent, polled, o, v) => WillHave(unsent, polled, o, v)'
  BY FlushKeeps DEF WriteInv
<1>2. WriteTypes' /\ NothingWritten'
  BY <1>1 DEF WriteInv, WriteTypes, NothingWritten
<1> QED BY <1>1, <1>2 DEF WriteInv

\* What is understood of a configuration is a list of inputs.
LEMMA UnderstoodInputs == Understood \subseteq Seq(Input)
<1>1. SeqOf(Input, Len(Inputs)) \subseteq Seq(Input)
  BY InputsAssumption, LenProperties DEF SeqOf
<1>2. << >> \in Seq(Input)
  OBVIOUS
<1> QED BY <1>1, <1>2 DEF Understood

\* Opening the port forgets what was not sent: the first time that is nothing.
LEMMA open_portWrites ==
    ASSUME WriteInv, sessions \in Nat, NEW cl \in Client, NEW i, open_port(cl, i)
    PROVE  WriteInv'
<1> DEFINE extra == <<Poll(CONFIG)>>
<1>1. /\ Flushed(extra) \/ FlushFailed(extra)
      /\ sessions' = sessions + 1 /\ UNCHANGED <<inputs, asked, output, misunderstood>>
  BY DEF open_port, outputVars
<1>2. extra \in Seq(Sent) /\ \A o \in Outputs : Spares(extra, o)
  <2>1. Poll(CONFIG) \in Sent /\ Poll(CONFIG).of = CONFIG /\ CONFIG \notin Outputs
    BY OutputsAssumption DEF Poll, Sent
  <2> QED BY <2>1 DEF Spares
<1>3. CASE sessions = 0
  <2>1. unsent \o extra = extra
    BY <1>2, <1>3 DEF WriteInv, NothingWritten
  <2>2. Flushed(unsent \o extra) \/ FlushFailed(unsent \o extra)
    BY <1>1, <2>1 DEF Flushed, FlushFailed
  <2>3. sessions' # 0 /\ (sessions' <= 1 => sessions <= 1)
    BY <1>1, <1>3
  <2> HIDE DEF extra
  <2> QED BY <1>1, <1>2, <2>2, <2>3, AskKeeps
<1>4. CASE sessions # 0
  <2>1. Len(extra) = 1 /\ \A n \in 0..(Len(extra) - 1) : n = 0 /\ SubSeq(extra, 1, n) = << >>
    OBVIOUS
  <2>2. Beginnings(extra[1]) \subseteq {<< >>, <<Poll(TORN)>>} /\ Poll(TORN) \in Sent
    BY DEF Beginnings, Poll, Sent
  <2>3. polled' \in {polled \o extra, polled \o << >> \o << >>, polled \o << >> \o <<Poll(TORN)>>}
        /\ unsent' \in {<< >>, extra}
    <3>1. CASE Flushed(extra)
      BY <3>1 DEF Flushed
    <3>2. CASE FlushFailed(extra)
      <4>1. PICK n \in 0..(Len(extra) - 1) : \E torn \in Beginnings(extra[n + 1]) :
                polled' = polled \o SubSeq(extra, 1, n) \o torn
        BY <3>2 DEF FlushFailed
      <4>2. n = 0 /\ SubSeq(extra, 1, n) = << >>
        BY <2>1
      <4>3. PICK torn \in Beginnings(extra[n + 1]) : polled' = polled \o SubSeq(extra, 1, n) \o torn
        BY <4>1
      <4>4. torn \in {<< >>, <<Poll(TORN)>>}
        BY <2>2, <4>2
      <4> QED BY <3>2, <4>2, <4>3, <4>4 DEF FlushFailed
    <3> QED BY <1>1, <3>1, <3>2
  <2>4. polled' \in Seq(Sent) /\ unsent' \in Seq(Sent)
    <3>1. /\ polled \in Seq(Sent) /\ << >> \in Seq(Sent)
          /\ extra \in Seq(Sent) /\ <<Poll(TORN)>> \in Seq(Sent)
      BY <1>2, <2>2 DEF WriteInv, WriteTypes
    <3>2. /\ polled \o extra \in Seq(Sent) /\ polled \o << >> \in Seq(Sent)
          /\ unsent' \in Seq(Sent)
      BY <2>3, <3>1, ConcatProperties
    <3>3. /\ polled \o << >> \o << >> \in Seq(Sent)
          /\ polled \o << >> \o <<Poll(TORN)>> \in Seq(Sent)
      BY <3>1, <3>2, ConcatProperties
    <3> QED BY <2>3, <3>2, <3>3
  <2> QED BY <1>1, <1>4, <2>4 DEF WriteInv, WriteTypes, NothingWritten
<1> QED BY <1>3, <1>4

\* A write is what its output is to have; that of the others stays.
LEMMA writeKeeps ==
    ASSUME WriteInv, sessions # 0, NEW cl \in Client, NEW value \in {0, 1}, write(cl, value)
    PROVE  WriteInv'
<1> SUFFICES ASSUME NEW w, w = client[cl], NEW extra, extra = <<Value(w, value)>>
             PROVE  WriteInv'
  OBVIOUS
<1>1. /\ w \in Outputs /\ asked' = [asked EXCEPT ![w] = value]
      /\ UNCHANGED <<sessions, inputs, output, misunderstood>>
  BY DEF write, portVars
<1>2. /\ extra \in Seq(Sent) /\ Leaves(extra, w, value)
      /\ \A o \in Outputs \ {w} : Spares(extra, o)
  <2>1. Value(w, value) \in Sent /\ Value(w, value).of = w /\ Value(w, value).value = value
    BY <1>1 DEF Value, Sent
  <2>2. extra \in Seq(Sent) /\ Len(extra) = 1 /\ extra[1] = Value(w, value)
    BY <2>1
  <2> QED BY <2>1, <2>2 DEF Leaves, Spares
<1>3. Flushed(unsent \o extra) \/ FlushFailed(unsent \o extra)
  <2>1. Append(unsent, Value(w, value)) = unsent \o extra
    <3>1. unsent \in Seq(Sent) /\ Value(w, value) \in Sent
      BY <1>1 DEF Value, Sent, WriteInv, WriteTypes
    <3> QED BY <3>1, AppendIsConcat
  <2> QED BY <2>1 DEF write
<1>4. /\ polled' \in Seq(Sent) /\ unsent' \in Seq(Sent)
      /\ \A o \in Outputs : \A v :
            Leaves(extra, o, v) \/ (Spares(extra, o) /\ WillHave(unsent, polled, o, v))
               => WillHave(unsent, polled, o, v)'
  BY <1>1, <1>2, <1>3, FlushKeeps DEF WriteInv
<1>5. WriteTypes' /\ NothingWritten'
  BY <1>1, <1>4 DEF WriteInv, WriteTypes, NothingWritten
<1>6. ASSUME sessions <= 1, ~misunderstood, NEW o \in Outputs
      PROVE  WillHave(unsent, polled, o, asked[o])'
  <2>1. CASE o = w
    BY <1>1, <1>2, <1>4, <2>1 DEF WriteInv, WriteTypes
  <2>2. CASE o # w
    <3>1. asked'[o] = asked[o]
      BY <1>1, <2>2 DEF WriteInv, WriteTypes
    <3> QED BY <1>2, <1>4, <1>6, <2>2, <3>1 DEF WriteInv
  <2> QED BY <2>1, <2>2
<1> QED BY <1>1, <1>5, <1>6 DEF WriteInv

\* The device takes a value, answers a poll, or misunderstands.
LEMMA DeviceTakes ==
    ASSUME WriteInv, polled # << >>, polled' = Tail(polled),
           UNCHANGED <<unsent, sessions, inputs, asked, misunderstood>>,
           output' \in [Outputs -> {NULL, 0, 1, GARBLED}],
           \A o \in Outputs :
              output'[o] = IF Head(polled).of = o THEN Head(polled).value ELSE output[o]
    PROVE  WriteInv'
<1>1. polled' \in Seq(Sent)
  BY LeavesTail DEF WriteInv, WriteTypes
<1>2. WriteTypes' /\ NothingWritten'
  BY <1>1 DEF WriteInv, WriteTypes, NothingWritten
<1>3. \A o \in Outputs : \A v : WillHave(unsent, polled, o, v) => WillHave(unsent, polled, o, v)'
  BY TakeKeeps DEF WriteInv
<1> QED BY <1>2, <1>3 DEF WriteInv

LEMMA device_setsWrites ==
    ASSUME WriteInv, device_sets
    PROVE  WriteInv'
<1>1. /\ polled # << >> /\ Head(polled).of \in Outputs /\ polled' = Tail(polled)
      /\ output' = [output EXCEPT ![Head(polled).of] = Head(polled).value]
      /\ UNCHANGED <<unsent, sessions, inputs, asked, misunderstood>>
  BY DEF device_sets, portVars
<1>2. Head(polled) \in Sent
  BY <1>1, LeavesTail DEF WriteInv, WriteTypes
<1>3. /\ output' \in [Outputs -> {NULL, 0, 1, GARBLED}]
      /\ \A o \in Outputs :
            output'[o] = IF Head(polled).of = o THEN Head(polled).value ELSE output[o]
  BY <1>1, <1>2 DEF WriteInv, WriteTypes, Sent
<1> QED BY <1>1, <1>3, DeviceTakes

\* An answer is cut: the rest of it is no value.
LEMMA CutWrites ==
    ASSUME WriteInv, Cut, inputs' \in Seq(Input),
           UNCHANGED <<unsent, sessions, asked, output, misunderstood>>
    PROVE  WriteInv'
<1>1. /\ polled # << >> /\ Head(polled).of \notin Outputs /\ REST \notin Outputs
      /\ polled' = <<Poll(REST)>> \o Tail(polled)
      /\ polled \in Seq(Sent) /\ Poll(REST) \in Sent /\ Poll(REST).of = REST
  BY OutputsAssumption DEF Cut, WriteInv, WriteTypes, Poll, Sent
<1>2. <<Poll(REST)>> \in Seq(Sent) /\ \A o \in Outputs : Spares(<<Poll(REST)>>, o)
  BY <1>1 DEF Spares
<1>3. Tail(polled) \in Seq(Sent)
  BY <1>1, LeavesTail
<1>4. polled' \in Seq(Sent)
  BY <1>1, <1>2, <1>3, ConcatProperties
<1>5. sessions # 0
  BY <1>1 DEF WriteInv, NothingWritten
<1>6. WriteTypes' /\ NothingWritten'
  BY <1>4, <1>5 DEF WriteInv, WriteTypes, NothingWritten
<1>7. ASSUME NEW o \in Outputs, NEW v, WillHave(unsent, polled, o, v)
      PROVE  WillHave(unsent, polled, o, v)'
  <2>1. CASE Leaves(unsent, o, v)
    BY <2>1 DEF WillHave
  <2>2. CASE Spares(unsent, o) /\ Arrives(polled, o, v)
    <3>1. Leaves(Tail(polled), o, v) \/ (Spares(Tail(polled), o) /\ output[o] = v)
      BY <1>1, <2>2, LeavesTail DEF Arrives
    <3>2. \/ Leaves(<<Poll(REST)>> \o Tail(polled), o, v)
          \/ Spares(<<Poll(REST)>> \o Tail(polled), o) /\ output[o] = v
      BY <1>2, <1>3, <3>1, LeavesConcat
    <3> QED BY <1>1, <2>2, <3>2 DEF WillHave, Arrives
  <2> QED BY <1>7, <2>1, <2>2 DEF WillHave
<1> QED BY <1>6, <1>7 DEF WriteInv

\* A timeout cuts an answer at most.
LEMMA TimesOutWrites ==
    ASSUME WriteInv, TimedOut, UNCHANGED <<sessions, inputs, asked, output, misunderstood>>
    PROVE  WriteInv'
<1>1. UNCHANGED <<unsent, inputs>> /\ inputs' \in Seq(Input)
  BY DEF TimedOut, WriteInv, WriteTypes
<1> QED
  BY <1>1, WriteFrame, CutWrites DEF TimedOut

LEMMA device_answersWrites ==
    ASSUME WriteInv, device_answers
    PROVE  WriteInv'
<1>1. /\ polled # << >> /\ Head(polled).of \in Input \cup {CONFIG, REST}
      /\ polled' = Tail(polled) \/ Cut
      /\ UNCHANGED <<unsent, sessions, inputs, asked, output, misunderstood>>
  BY DEF device_answers, portVars, outputVars
<1>2. Head(polled).of \notin Outputs
  BY <1>1, OutputsAssumption
<1> QED BY <1>1, <1>2, DeviceTakes, CutWrites DEF WriteInv, WriteTypes

LEMMA device_misunderstandsWrites ==
    ASSUME WriteInv, device_misunderstands
    PROVE  WriteInv'
<1>1. /\ Len(polled) > 1 /\ polled # << >> /\ Head(polled).of = TORN
      /\ UNCHANGED <<unsent, sessions, inputs, asked>>
  BY DEF device_misunderstands, portVars, WriteInv, WriteTypes
<1>2. CASE polled[2].of = TORN
  <2>1. polled' = Tail(polled) /\ UNCHANGED <<output, misunderstood>> /\ TORN \notin Outputs
    BY <1>2, OutputsAssumption DEF device_misunderstands
  <2> QED BY <1>1, <2>1, DeviceTakes DEF WriteInv, WriteTypes
<1>3. CASE polled[2].of # TORN
  <2>1. /\ polled' = Tail(Tail(polled)) /\ misunderstood' = TRUE
        /\ output' \in {output} \cup {[output EXCEPT ![o] = GARBLED] : o \in Outputs}
    BY <1>3 DEF device_misunderstands
  <2>2. polled' \in Seq(Sent)
    <3>1. Tail(polled) \in Seq(Sent) /\ Tail(polled) # << >>
      <4>1. polled \in Seq(Sent) /\ Len(polled) > 1 /\ Len(polled) \in Nat
        BY <1>1, LenProperties DEF WriteInv, WriteTypes
      <4>2. Tail(polled) \in Seq(Sent) /\ Len(Tail(polled)) = Len(polled) - 1
        BY <1>1, <4>1, HeadTailProperties
      <4>3. Len(Tail(polled)) # 0
        BY <4>1, <4>2
      <4> QED BY <4>2, <4>3, EmptySeq
    <3> QED BY <2>1, <3>1, LeavesTail
  <2>3. output' \in [Outputs -> {NULL, 0, 1, GARBLED}]
    BY <2>1 DEF WriteInv, WriteTypes
  <2>4. sessions # 0
    BY <1>1 DEF WriteInv, NothingWritten
  <2> QED BY <1>1, <2>1, <2>2, <2>3, <2>4 DEF WriteInv, WriteTypes, NothingWritten
<1> QED BY <1>2, <1>3

LEMMA WriteInit == Init => WriteInv
<1> SUFFICES ASSUME Init PROVE WriteInv
  OBVIOUS
<1>1. WriteTypes /\ NothingWritten
  BY DEF Init, WriteTypes, NothingWritten
<1>2. \A o \in Outputs : WillHave(unsent, polled, o, asked[o])
  BY DEF Init, WillHave, Arrives, Leaves, Spares
<1> QED BY <1>1, <1>2 DEF WriteInv

\* Every step keeps what is to arrive.
LEMMA WriteStep == PortInv /\ NewerInv /\ WriteInv /\ [Next]_vars => WriteInv'
<1> SUFFICES ASSUME PortInv, NewerInv, WriteInv, [Next]_vars PROVE WriteInv'
  OBVIOUS
<1>0. sessions \in Nat /\ inputs \in Seq(Input)
  BY DEF NewerInv, SampleTypes, WriteInv, WriteTypes
<1>1. ASSUME NEW cl \in Client, NEW i \in world.mapped, open_port(cl, i) PROVE WriteInv'
  BY <1>0, <1>1, open_portWrites
<1>2. ASSUME NEW cl \in Client, NEW i \in world.mapped, channel_open(cl, i) PROVE WriteInv'
  BY <1>0, <1>2, WriteFrame DEF channel_open, ioVars, outputVars
<1>3. ASSUME NEW cl \in Client, channel_close(cl) PROVE WriteInv'
  BY <1>0, <1>3, WriteFrame DEF channel_close, ioVars, outputVars
<1>4. ASSUME NEW cl \in Client, read(cl) PROVE WriteInv'
  <2> DEFINE p == Poll(client[cl])
  <2>1. /\ client[cl] \in Input /\ sessions # 0
        /\ UNCHANGED <<sessions, inputs, asked, output, misunderstood>>
    BY <1>4, OpenedBefore, InputsAssumption DEF read, portVars, outputVars, Input
  <2>2. p \in Sent /\ \A o \in Outputs : p.of # o
    BY <2>1, OutputsAssumption DEF Poll, Sent
  <2>3. Flushed(Append(unsent, p)) \/ FlushFailed(Append(unsent, p))
    BY <1>4 DEF read
  <2> HIDE DEF p
  <2>4. Append(unsent, p) = unsent \o <<p>>
    BY <2>2, AppendIsConcat DEF WriteInv, WriteTypes
  <2>5. Flushed(unsent \o <<p>>) \/ FlushFailed(unsent \o <<p>>)
    BY <2>3, <2>4 DEF Flushed, FlushFailed
  <2>6. <<p>> \in Seq(Sent) /\ \A o \in Outputs : Spares(<<p>>, o)
    BY <2>2 DEF Spares
  <2> QED BY <1>0, <2>1, <2>5, <2>6, AskKeeps
<1>5. ASSUME NEW cl \in Client, batch_hit(cl) PROVE WriteInv'
  BY <1>0, <1>5, WriteFrame DEF batch_hit, portVars, ioVars, outputVars
<1>6. ASSUME NEW cl \in Client, batch_sampling(cl) PROVE WriteInv'
  <2>1. /\ client[cl] \in Input /\ sessions # 0
        /\ Flushed(unsent \o Polls(inputs)) \/ FlushFailed(unsent \o Polls(inputs))
        /\ UNCHANGED <<sessions, inputs, asked, output, misunderstood>>
    BY <1>6, OpenedBefore, InputsAssumption DEF batch_sampling, portVars, outputVars, Input
  <2>2. inputs \in Seq(Input)
    BY <1>0
  <2>3. /\ Polls(inputs) \in Seq(Sent)
        /\ \A o \in Outputs : Spares(Polls(inputs), o)
    <3>1. \A i \in 1..Len(inputs) : Poll(inputs[i]) \in Sent /\ Poll(inputs[i]).of \notin Outputs
      BY <2>2, OutputsAssumption DEF Poll, Sent
    <3>2. Polls(inputs) = [i \in 1..Len(inputs) |-> Poll(inputs[i])] /\ Len(inputs) \in Nat
      BY <2>2 DEF Polls
    <3> QED BY <3>1, <3>2 DEF Spares
  <2> QED BY <1>0, <2>1, <2>3, AskKeeps
<1>7. ASSUME NEW cl \in Client, NEW value \in {0, 1}, write(cl, value) PROVE WriteInv'
  <2>1. client[cl] # NULL /\ client[cl] \in Outputs
    BY <1>7, OutputsAssumption DEF write
  <2> QED BY <1>7, <2>1, OpenedBefore, writeKeeps
<1>8. CASE read_config
  <2>1. inputs' \in {inputs, Inputs} \cup Understood
    BY <1>8 DEF read_config, opened
  <2>2. inputs' \in Seq(Input)
    BY <1>0, <2>1, UnderstoodInputs, InputsAssumption DEF Input
  <2> QED
    BY <1>8, <2>2, WriteFrame DEF read_config, outputVars
<1>9. CASE read_config_fails
  BY <1>9, TimesOutWrites DEF read_config_fails, outputVars
<1>17. CASE read_rest
  BY <1>0, <1>17, WriteFrame DEF read_rest, portVars, outputVars
<1>10. CASE read_answer
  BY <1>0, <1>10, WriteFrame DEF read_answer, portVars, outputVars
<1>11. CASE read_fails
  BY <1>11, TimesOutWrites DEF read_fails, portVars, outputVars
<1>12. CASE batch_answer
  BY <1>0, <1>12, WriteFrame DEF batch_answer, portVars, outputVars
<1>13. CASE device_answers
  BY <1>13, device_answersWrites
<1>14. CASE device_sets
  BY <1>14, device_setsWrites
<1>15. CASE device_misunderstands
  BY <1>15, device_misunderstandsWrites
<1>16. CASE tick \/ UNCHANGED vars
  BY <1>0, <1>16, WriteFrame DEF tick, vars, portVars, ioVars, outputVars
<1> QED
  BY <1>1, <1>2, <1>3, <1>4, <1>5, <1>6, <1>7, <1>8, <1>9, <1>10, <1>11, <1>12, <1>13, <1>14,
     <1>15, <1>16, <1>17
     DEF Next, HostStep

\* LastWriteWins of the run, for any number of clients, outputs, writes and faults:
\* when all is sent the outputs are as they were last written, also by writes that
\* failed, unless a value was torn and misunderstood.
THEOREM LastWriteCorrect == Spec => []LastWriteWins
<1>1. WriteInv => LastWriteWins
  <2> SUFFICES ASSUME WriteInv, sessions <= 1, ~misunderstood, unsent = << >>, polled = << >>
               PROVE  output = asked
    BY DEF LastWriteWins
  <2>1. \A o \in Outputs : output[o] = asked[o]
    BY DEF WriteInv, WillHave, Arrives, Leaves
  <2> QED BY <2>1 DEF WriteInv, WriteTypes
<1> QED
  BY <1>1, PortInit, PortStep, NewerInit, NewerStep, WriteInit, WriteStep, PTL DEF Spec

-----------------------------------------------------------------------------
(* Without faults an answer is that to the call that waits for it *)

\* What call waits for.
Wanted == IF call.op = "open" THEN CONFIG ELSE call.of

AllTaken == pos >= Len(buffer)
OnlyValues(q) == \A i \in 1..Len(q) : q[i].of \in Outputs

\* The one poll on its way, among values, is that of the call.
OneAsked ==
    /\ line = << >>
    /\ \E i \in 1..Len(polled) :
          /\ polled[i].of = Wanted
          /\ \A j \in 1..Len(polled) : j # i => polled[j].of \in Outputs

\* It has been answered, later than the call began.
OneAnswered ==
    /\ OnlyValues(polled)
    /\ \E m \in Sample : line = <<m>> /\ m.of = Wanted /\ m.at > call.since

NothingAsked == OnlyValues(polled) /\ line = << >>

AsksOneByOne ==
    /\ unsent = << >> /\ AllTaken
    /\ \/ call = Idle /\ NothingAsked
       \/ /\ call.op \in {"open", "read"} /\ fd /\ call.since \in Nat /\ call.since <= clock
          /\ call.op = "read" => call.of \in Input
          /\ OneAsked \/ OneAnswered

\* FreshRead says what a read has returned; that the next one will is in the polls
\* and the answers under way: there is the one that the call waits for.
FreshInv ==
    /\ faults \in Nat
    /\ Faultless /\ sessions <= 1 /\ ~batch_active => AsksOneByOne
    /\ FreshUntilReopened

LEMMA FreshInit == Init => FreshInv
<1> SUFFICES ASSUME Init PROVE FreshInv
  OBVIOUS
<1>1. AsksOneByOne
  BY DEF Init, AsksOneByOne, AllTaken, NothingAsked, OnlyValues
<1>2. FreshUntilReopened /\ faults \in Nat
  BY DEF Init, FreshUntilReopened, FreshRead
<1> QED BY <1>1, <1>2 DEF FreshInv

\* Without faults every write goes through and no wait ends without an answer.
LEMMA NoFaults ==
    ASSUME faults \in Nat, Faultless
    PROVE  (\A polls : ~FlushFailed(polls)) /\ ~TimedOut /\ ~Cut
BY DEF Faultless, FlushFailed, TimedOut, Cut

\* A queue of values to which one thing is added, or from which one is taken.
LEMMA ValuesAppend ==
    ASSUME NEW q \in Seq(Sent), OnlyValues(q), NEW p \in Sent
    PROVE  /\ Len(q \o <<p>>) = Len(q) + 1 /\ (q \o <<p>>)[Len(q) + 1] = p
           /\ \A j \in 1..Len(q \o <<p>>) : j # Len(q) + 1 => (q \o <<p>>)[j].of \in Outputs
<1> DEFINE r == Append(q, p)
<1>1. /\ r = q \o <<p>> /\ Len(r) = Len(q) + 1 /\ r[Len(q) + 1] = p /\ Len(q) \in Nat
      /\ \A j \in 1..Len(q) : r[j] = q[j]
  BY AppendIsConcat, AppendProperties, LenProperties
<1> HIDE DEF r
<1>2. \A j \in 1..Len(r) : j # Len(q) + 1 => r[j].of \in Outputs
  BY <1>1 DEF OnlyValues
<1> QED BY <1>1, <1>2

LEMMA OneMoreValue ==
    ASSUME NEW q \in Seq(Sent), OnlyValues(q), NEW p \in Sent, p.of \in Outputs
    PROVE  OnlyValues(q \o <<p>>)
<1>1. /\ (q \o <<p>>)[Len(q) + 1] = p
      /\ \A j \in 1..Len(q \o <<p>>) : j # Len(q) + 1 => (q \o <<p>>)[j].of \in Outputs
  BY ValuesAppend
<1> QED BY <1>1 DEF OnlyValues

LEMMA TailIndices ==
    ASSUME NEW q \in Seq(Sent), q # << >>
    PROVE  /\ Len(q) \in Nat \ {0} /\ Len(Tail(q)) = Len(q) - 1 /\ Head(q) = q[1]
           /\ \A i \in 1..Len(Tail(q)) : i + 1 \in 1..Len(q) /\ Tail(q)[i] = q[i + 1]
BY HeadTailProperties, EmptySeq, LenProperties

\* A step that asks nothing and that no answer comes from.
LEMMA FreshFrame ==
    ASSUME FreshInv, UNCHANGED <<world, batch_active, sessions, pos, line, buffer, polled, unsent>>,
           faults' = faults, clock' \in Nat, clock \in Nat, clock <= clock',
           \/ UNCHANGED <<fd, call>>
           \/ UNCHANGED call /\ call = Idle,
           UNCHANGED returned
    PROVE  FreshInv'
<1>1. FreshUntilReopened' /\ faults' \in Nat
  BY DEF FreshInv, FreshUntilReopened, FreshRead, Faultless
<1>2. ASSUME Faultless', sessions' <= 1, ~batch_active' PROVE AsksOneByOne'
  <2>1. AsksOneByOne
    BY <1>2 DEF FreshInv, Faultless
  <2>2. Idle.op = "none"
    BY DEF Idle
  <2> QED
    BY <2>1, <2>2 DEF AsksOneByOne, AllTaken, NothingAsked, OneAsked, OneAnswered, OnlyValues, Wanted
<1> QED BY <1>1, <1>2 DEF FreshInv

\* The answer is taken: there is no other.
LEMMA TakesTheAnswer ==
    ASSUME AsksOneByOne, call # Idle, Ready, TakeAnswer, SampleTypes
    PROVE  /\ AllTaken' /\ line' = << >> /\ OnlyValues(polled)
           /\ NextAnswer \in Sample /\ NextAnswer.of = Wanted /\ NextAnswer.at > call.since
<1>1. ~Buffered /\ ~BeginningLeft
  BY DEF AsksOneByOne, AllTaken, Buffered, BeginningLeft, SampleTypes
<1>2. OneAnswered
  BY <1>1 DEF AsksOneByOne, Ready, OneAsked
<1>3. PICK m \in Sample : line = <<m>> /\ m.of = Wanted /\ m.at > call.since
  BY <1>2 DEF OneAnswered
<1>4. NextAnswer = m /\ pos' = 1 /\ buffer' = <<m>> /\ line' = << >>
  BY <1>1, <1>3 DEF NextAnswer, TakeAnswer
<1> QED BY <1>2, <1>3, <1>4 DEF AllTaken, OneAnswered

\* A poll goes out, and a call begins to wait for its answer.
LEMMA AskBegins ==
    ASSUME AsksOneByOne, call = Idle, WriteTypes, SampleTypes, NEW p \in Sent,
           polled' = polled \o <<p>>, unsent' = << >>, AllTaken', line' = << >>, fd',
           call'.op \in {"open", "read"}, p.of = Wanted',
           call'.op = "read" => call'.of \in Input,
           call'.since \in Nat, call'.since <= clock, clock' = clock
    PROVE  AsksOneByOne'
<1>1. OnlyValues(polled) /\ polled \in Seq(Sent)
  BY DEF AsksOneByOne, NothingAsked, WriteTypes, Idle
<1> DEFINE n == Len(polled) + 1
<1>2. /\ Len(polled') = n /\ polled'[n] = p /\ n \in 1..Len(polled')
      /\ \A j \in 1..Len(polled') : j # n => polled'[j].of \in Outputs
  BY <1>1, ValuesAppend, LenProperties
<1>3. OneAsked'
  BY <1>2 DEF OneAsked
<1> QED BY <1>3 DEF AsksOneByOne

\* Opening the port asks for the configuration.
LEMMA open_portFresh ==
    ASSUME PortInv, NewerInv, WriteInv, FreshInv, NEW cl \in Client, NEW i \in world.mapped,
           open_port(cl, i)
    PROVE  FreshInv'
<1>1. /\ call = Idle /\ sessions' = sessions + 1 /\ fd' = TRUE /\ pos' = 0 /\ line' = << >>
      /\ Flushed(<<Poll(CONFIG)>>) \/ FlushFailed(<<Poll(CONFIG)>>)
      /\ call' = [Idle EXCEPT !.op = "open", !.client = cl, !.of = i]
      /\ UNCHANGED <<world, batch_active, clock, buffer, returned>>
  BY DEF open_port, resultVars
<1>2. faults' \in Nat
  BY <1>1 DEF FreshInv, Flushed, FlushFailed
<1>3. FreshUntilReopened'
  BY <1>1 DEF FreshInv, FreshUntilReopened, FreshRead, Faultless, NewerInv, SampleTypes
<1>4. ASSUME Faultless', sessions' <= 1, ~batch_active' PROVE AsksOneByOne'
  <2>1. sessions = 0 /\ AsksOneByOne
    BY <1>1, <1>4 DEF FreshInv, NewerInv, SampleTypes, Faultless
  <2>2. Flushed(<<Poll(CONFIG)>>)
    BY <1>1, <1>4, NoFaults DEF FreshInv, Faultless
  <2>3. buffer' = << >>
    BY <1>1, <2>1 DEF NewerInv, NothingBefore
  <2>4. AllTaken'
    BY <1>1, <2>3 DEF AllTaken
  <2>5. Poll(CONFIG) \in Sent /\ Poll(CONFIG).of = CONFIG
    BY DEF Poll, Sent
  <2>6. call'.op = "open" /\ call'.since = 0
    BY <1>1 DEF Idle
  <2>7. polled' = polled \o <<Poll(CONFIG)>> /\ unsent' = << >> /\ Wanted' = CONFIG
    BY <2>2, <2>6 DEF Flushed, Wanted
  <2>8. WriteTypes /\ SampleTypes /\ 0 \in Nat /\ 0 <= clock
    BY DEF WriteInv, NewerInv, SampleTypes
  <2> QED
    BY <1>1, <2>1, <2>4, <2>5, <2>6, <2>7, <2>8, AskBegins
<1> QED BY <1>2, <1>3, <1>4 DEF FreshInv

\* A read polls its input.
LEMMA readFresh ==
    ASSUME PortInv, NewerInv, WriteInv, FreshInv, NEW cl \in Client, read(cl)
    PROVE  FreshInv'
<1>1. /\ call = Idle /\ client[cl] \in Input /\ ~batch_active
      /\ UNCHANGED <<world, batch_active, clock, sessions, fd, buffer, pos, line>>
  BY DEF read, portVars
<1>2. \/ /\ Flushed(Append(unsent, Poll(client[cl]))) /\ call' = Reading(cl, "read")
         /\ UNCHANGED returned
      \/ /\ FlushFailed(Append(unsent, Poll(client[cl])))
         /\ Returns("EIO", client[cl], 0, clock)
  BY DEF read, resultVars
<1>3. faults' \in Nat
  BY <1>2 DEF FreshInv, Flushed, FlushFailed
<1>4. FreshUntilReopened'
  BY <1>1, <1>2 DEF FreshInv, FreshUntilReopened, FreshRead, Faultless, Returns
<1>5. ASSUME Faultless', sessions' <= 1, ~batch_active' PROVE AsksOneByOne'
  <2>1. AsksOneByOne /\ unsent = << >> /\ line = << >>
    BY <1>1, <1>5 DEF FreshInv, Faultless, AsksOneByOne, NothingAsked, Idle
  <2>2. Flushed(Append(unsent, Poll(client[cl]))) /\ call' = Reading(cl, "read")
    BY <1>1, <1>2, <1>5, NoFaults DEF FreshInv, Faultless
  <2>3. Poll(client[cl]) \in Sent /\ Poll(client[cl]).of = client[cl]
    BY <1>1 DEF Poll, Sent
  <2>4. polled' = polled \o <<Poll(client[cl])>> /\ unsent' = << >>
    BY <2>1, <2>2 DEF Flushed
  <2>5. call'.op = "read" /\ call'.of = client[cl] /\ call'.since = clock
    BY <2>2 DEF Reading
  <2>6. fd
    <3>1. cl \in Holding
      BY <1>1, InputsAssumption DEF Holding, Input
    <3>2. Cardinality(Holding) # 0
      BY <3>1, HoldingFinite, FS_EmptySet
    <3> QED BY <3>2 DEF PortInv, PortTypes, PortOpenWhileUsed, Holding
  <2>7. AllTaken'
    BY <1>1, <2>1 DEF AsksOneByOne, AllTaken
  <2> QED
    <3>1. WriteTypes /\ SampleTypes
      BY DEF WriteInv, NewerInv
    <3>2. clock \in Nat
      BY <3>1 DEF SampleTypes
    <3>3. line' = << >> /\ fd' /\ clock' = clock /\ call = Idle
      BY <1>1, <2>1, <2>6
    <3>4. call'.op \in {"open", "read"} /\ Poll(client[cl]).of = Wanted'
      BY <2>3, <2>5 DEF Wanted
    <3>5. call'.op = "read" => call'.of \in Input
      BY <1>1, <2>5
    <3>6. call'.since \in Nat /\ call'.since <= clock
      BY <2>5, <3>2
    <3> QED BY <2>1, <2>3, <2>4, <2>7, <3>1, <3>3, <3>4, <3>5, <3>6, AskBegins
<1> QED BY <1>3, <1>4, <1>5 DEF FreshInv

\* The answer is there, and it is that of the call.
LEMMA read_answerFresh ==
    ASSUME NewerInv, FreshInv, read_answer
    PROVE  FreshInv'
<1>1. /\ call.op = "read" /\ Ready /\ TakeAnswer /\ call' = Idle
      /\ UNCHANGED <<world, batch_active, clock, faults, sessions, unsent, polled>>
      /\ call # Idle
  BY DEF read_answer, worldVars, portVars, Idle
<1>2. ~batch_active
  BY <1>1 DEF NewerInv, ReadsAnInput
<1>3. ASSUME Faultless, sessions <= 1 PROVE AsksOneByOne' /\ FreshUntilReopened'
  <2>1. AsksOneByOne /\ Wanted = call.of
    BY <1>1, <1>2, <1>3 DEF FreshInv, Wanted
  <2>2. /\ AllTaken' /\ line' = << >> /\ OnlyValues(polled)
        /\ NextAnswer.of = call.of /\ NextAnswer.at > call.since
    BY <1>1, <2>1, TakesTheAnswer DEF NewerInv
  <2>3. Returns("OK", call.of, NextAnswer.at, call.since)
    <3>1. NextAnswer.of # REST
      BY <1>1, <2>2, MessagesAssumption DEF NewerInv, ReadsAnInput
    <3> QED BY <2>2, <3>1 DEF read_answer, ReadAs
  <2>4. FreshUntilReopened'
    BY <2>2, <2>3 DEF Returns, FreshUntilReopened, FreshRead
  <2>5. AsksOneByOne'
    BY <1>1, <2>1, <2>2 DEF AsksOneByOne, NothingAsked, OnlyValues
  <2> QED BY <2>4, <2>5
<1> QED BY <1>1, <1>3 DEF FreshInv, FreshUntilReopened, FreshRead, Faultless

\* There is no rest of an answer.
LEMMA read_restFresh ==
    ASSUME NewerInv, FreshInv, read_rest
    PROVE  FreshInv'
<1>1. /\ call.op \in {"read", "batch"} /\ Ready /\ TakeAnswer /\ NextAnswer.of = REST
      /\ UNCHANGED <<world, batch_active, faults, sessions>>
      /\ call # Idle /\ call.of \in Input
      /\ UNCHANGED returned \/ returned'.status = "EINVAL"
  BY DEF read_rest, Returns, worldVars, portVars, resultVars, Idle, NewerInv, ReadsAnInput
<1>2. ASSUME Faultless, sessions <= 1, ~batch_active PROVE FALSE
  <2>1. AsksOneByOne /\ call.op = "read" /\ Wanted = call.of
    BY <1>1, <1>2 DEF FreshInv, NewerInv, ReadsAnInput, Wanted
  <2>2. NextAnswer.of = call.of
    BY <1>1, <2>1, TakesTheAnswer DEF NewerInv
  <2> QED BY <1>1, <2>2, MessagesAssumption
<1> QED BY <1>1, <1>2 DEF FreshInv, FreshUntilReopened, FreshRead, Faultless

\* The configuration is there, and nothing else.
LEMMA read_configFresh ==
    ASSUME NewerInv, FreshInv, read_config
    PROVE  FreshInv'
<1>1. /\ call.op = "open" /\ Ready /\ TakeAnswer /\ call # Idle
      /\ UNCHANGED <<world, batch_active, clock, faults, sessions, unsent, polled, returned>>
  BY DEF read_config, worldVars, resultVars, Idle
<1>2. ASSUME Faultless, sessions <= 1, ~batch_active PROVE AsksOneByOne'
  <2>1. AsksOneByOne /\ Wanted = CONFIG
    BY <1>1, <1>2 DEF FreshInv, Wanted
  <2>2. /\ AllTaken' /\ line' = << >> /\ OnlyValues(polled) /\ NextAnswer.of = CONFIG
    BY <1>1, <2>1, TakesTheAnswer DEF NewerInv
  <2>3. call' = Idle
    BY <2>2 DEF read_config, opened
  <2> QED BY <1>1, <2>1, <2>2, <2>3 DEF AsksOneByOne, NothingAsked, OnlyValues
<1> QED BY <1>1, <1>2 DEF FreshInv, FreshUntilReopened, FreshRead, Faultless

\* Steps of batch_sampling.
LEMMA BatchFrame ==
    ASSUME FreshInv, batch_active, UNCHANGED <<world, batch_active>>, faults' \in Nat,
           sessions' = sessions, UNCHANGED returned \/ returned'.status # "ECHRNG"
    PROVE  FreshInv'
BY DEF FreshInv, FreshUntilReopened, FreshRead, Faultless

\* A value goes out.
LEMMA writeFresh ==
    ASSUME NewerInv, WriteInv, FreshInv, NEW cl \in Client, NEW value \in {0, 1},
           write(cl, value)
    PROVE  FreshInv'
<1>1. /\ call = Idle /\ client[cl] \in Outputs
      /\ UNCHANGED <<world, batch_active, clock, sessions, fd, line, buffer, pos, call, returned>>
      /\ \/ Flushed(Append(unsent, Value(client[cl], value)))
         \/ FlushFailed(Append(unsent, Value(client[cl], value)))
  BY DEF write, portVars, resultVars
<1>2. faults' \in Nat
  BY <1>1 DEF FreshInv, Flushed, FlushFailed
<1>3. FreshUntilReopened'
  BY <1>1 DEF FreshInv, FreshUntilReopened, FreshRead, Faultless
<1>4. ASSUME Faultless', sessions' <= 1, ~batch_active' PROVE AsksOneByOne'
  <2>1. AsksOneByOne /\ unsent = << >> /\ NothingAsked
    BY <1>1, <1>4 DEF FreshInv, Faultless, AsksOneByOne, Idle
  <2>2. Flushed(Append(unsent, Value(client[cl], value)))
    BY <1>1, <1>4, NoFaults DEF FreshInv, Faultless
  <2>3. polled' = polled \o <<Value(client[cl], value)>> /\ unsent' = << >>
    BY <2>1, <2>2 DEF Flushed
  <2>4. Value(client[cl], value) \in Sent /\ Value(client[cl], value).of = client[cl]
    BY <1>1 DEF Value, Sent
  <2> DEFINE p == Value(client[cl], value)
  <2> HIDE DEF p
  <2>5. OnlyValues(polled')
    <3>1. polled \in Seq(Sent) /\ OnlyValues(polled) /\ p \in Sent /\ p.of \in Outputs
      BY <1>1, <2>1, <2>4 DEF p, NothingAsked, WriteInv, WriteTypes
    <3>2. OnlyValues(polled \o <<p>>)
      BY <3>1, OneMoreValue
    <3>3. polled' = polled \o <<p>>
      BY <2>3 DEF p
    <3> QED BY <3>2, <3>3 DEF OnlyValues
  <2> QED BY <1>1, <2>1, <2>3, <2>5 DEF AsksOneByOne, AllTaken, NothingAsked, OnlyValues
<1> QED BY <1>2, <1>3, <1>4 DEF FreshInv

\* The device takes a value: the poll behind it stays.
LEMMA device_setsFresh ==
    ASSUME WriteInv, FreshInv, device_sets
    PROVE  FreshInv'
<1>1. /\ polled # << >> /\ Head(polled).of \in Outputs /\ polled' = Tail(polled)
      /\ UNCHANGED <<world, batch_active, clock, faults, sessions, fd, unsent, line, buffer, pos,
                     call, returned>>
  BY DEF device_sets, worldVars, portVars, resultVars
<1>2. ASSUME Faultless, sessions <= 1, ~batch_active PROVE AsksOneByOne'
  <2>1. AsksOneByOne
    BY <1>2 DEF FreshInv
  <2>2. /\ Len(polled) \in Nat /\ Len(polled') = Len(polled) - 1 /\ polled[1].of \in Outputs
        /\ \A i \in 1..Len(polled') : i + 1 \in 1..Len(polled) /\ polled'[i] = polled[i + 1]
    BY <1>1, TailIndices DEF WriteInv, WriteTypes
  <2>3. OnlyValues(polled) => OnlyValues(polled')
    BY <2>2 DEF OnlyValues
  <2>4. ASSUME OneAsked, call.op \in {"open", "read"}, call.op = "read" => call.of \in Input
        PROVE  OneAsked'
    <3>1. PICK i \in 1..Len(polled) :
                 /\ polled[i].of = Wanted
                 /\ \A j \in 1..Len(polled) : j # i => polled[j].of \in Outputs
      BY <2>4 DEF OneAsked
    <3>2. Wanted \notin Outputs
      BY <2>4, OutputsAssumption DEF Wanted
    <3>3. i # 1
      BY <2>2, <3>1, <3>2
    <3>4. i - 1 \in 1..Len(polled') /\ polled'[i - 1] = polled[i]
      <4>1. i - 1 \in 1..Len(polled') /\ (i - 1) + 1 = i
        BY <2>2, <3>3
      <4> QED BY <2>2, <4>1
    <3>5. \A j \in 1..Len(polled') : j # i - 1 => polled'[j].of \in Outputs
      <4> SUFFICES ASSUME NEW j \in 1..Len(polled'), j # i - 1 PROVE polled'[j].of \in Outputs
        OBVIOUS
      <4>1. j + 1 \in 1..Len(polled) /\ polled'[j] = polled[j + 1]
        BY <2>2
      <4>2. j + 1 # i
        OBVIOUS
      <4> QED BY <3>1, <4>1, <4>2
    <3>6. Wanted' = Wanted /\ line' = << >>
      BY <1>1, <2>4 DEF OneAsked, Wanted
    <3> QED BY <3>1, <3>4, <3>5, <3>6 DEF OneAsked
  <2>5. OneAnswered => OneAnswered'
    BY <1>1, <2>3 DEF OneAnswered, Wanted, OnlyValues
  <2>6. NothingAsked => NothingAsked'
    BY <1>1, <2>3 DEF NothingAsked, OnlyValues
  <2> QED BY <1>1, <2>1, <2>4, <2>5, <2>6 DEF AsksOneByOne, AllTaken
<1> QED BY <1>1, <1>2 DEF FreshInv, FreshUntilReopened, FreshRead, Faultless

\* The device answers: what is behind the poll are values.
LEMMA device_answersFresh ==
    ASSUME NewerInv, WriteInv, FreshInv, device_answers
    PROVE  FreshInv'
<1> SUFFICES ASSUME NEW m, m = Message(Head(polled).of, clock + 1) PROVE FreshInv'
  OBVIOUS
<1>1. /\ polled # << >> /\ Head(polled).of \in Input \cup {CONFIG, REST}
      /\ clock' = clock + 1
      /\ UNCHANGED <<world, batch_active, sessions, fd, unsent, buffer, pos, call, returned>>
      /\ \/ /\ polled' = Tail(polled) /\ faults' = faults
            /\ line' = (IF fd THEN Append(line, m) ELSE line)
         \/ faults < world.max_faults /\ faults' = faults + 1
  BY DEF device_answers, Cut, portVars, resultVars
<1>2. faults' \in Nat
  BY <1>1 DEF FreshInv
<1>3. ASSUME Faultless, sessions <= 1, ~batch_active PROVE AsksOneByOne'
  <2>1. AsksOneByOne
    BY <1>3 DEF FreshInv
  <2>2. polled' = Tail(polled) /\ line' = IF fd THEN Append(line, m) ELSE line
    BY <1>1, <1>3 DEF FreshInv, Faultless
  <2>3. /\ Len(polled) \in Nat /\ 1 \in 1..Len(polled) /\ polled[1].of \notin Outputs
        /\ Head(polled) = polled[1]
        /\ \A i \in 1..Len(polled') : i + 1 \in 1..Len(polled) /\ polled'[i] = polled[i + 1]
    BY <1>1, <2>2, TailIndices, OutputsAssumption DEF WriteInv, WriteTypes
  <2>4. ~OnlyValues(polled)
    BY <2>3 DEF OnlyValues
  <2>5. /\ call.op \in {"open", "read"} /\ fd /\ call.since \in Nat /\ call.since <= clock
        /\ call.op = "read" => call.of \in Input
        /\ OneAsked
    BY <2>1, <2>4 DEF AsksOneByOne, NothingAsked, OneAnswered
  <2>6. polled[1].of = Wanted /\ OnlyValues(polled')
    <3>1. PICK i \in 1..Len(polled) :
                 /\ polled[i].of = Wanted
                 /\ \A j \in 1..Len(polled) : j # i => polled[j].of \in Outputs
      BY <2>5 DEF OneAsked
    <3>2. i = 1
      BY <2>3, <3>1
    <3>3. \A j \in 1..Len(polled') : polled'[j].of \in Outputs
      <4> SUFFICES ASSUME NEW j \in 1..Len(polled') PROVE polled'[j].of \in Outputs
        OBVIOUS
      <4>1. j + 1 \in 1..Len(polled) /\ polled'[j] = polled[j + 1] /\ j + 1 # 1
        BY <2>3
      <4> QED BY <3>1, <3>2, <4>1
    <3> QED BY <3>1, <3>2, <3>3 DEF OnlyValues
  <2>7. m \in Sample /\ m.of = Wanted /\ m.at > call.since
    BY <1>1, <2>3, <2>5, <2>6 DEF Message, Sample, NewerInv, SampleTypes
  <2>8. line' = <<m>>
    BY <2>2, <2>5 DEF OneAsked
  <2>9. OneAnswered'
    BY <1>1, <2>6, <2>7, <2>8 DEF OneAnswered, Wanted, OnlyValues
  <2> QED BY <1>1, <2>1, <2>5, <2>9 DEF AsksOneByOne, AllTaken, NewerInv, SampleTypes
<1> QED BY <1>1, <1>2, <1>3 DEF FreshInv, FreshUntilReopened, FreshRead, Faultless

\* Nothing is torn while all is sent at once.
LEMMA device_misunderstandsFresh ==
    ASSUME WriteInv, FreshInv, device_misunderstands
    PROVE  FreshInv'
<1>1. /\ Len(polled) > 1 /\ Head(polled).of = TORN
      /\ UNCHANGED <<world, batch_active, faults, sessions, returned>>
  BY DEF device_misunderstands, worldVars, portVars, resultVars
<1>2. polled \in Seq(Sent) /\ polled # << >>
  BY <1>1 DEF WriteInv, WriteTypes
<1>3. 1 \in 1..Len(polled) /\ polled[1].of = TORN
  BY <1>1, <1>2, TailIndices
<1>4. TORN \notin Outputs /\ TORN \notin Input /\ TORN # CONFIG
  BY OutputsAssumption, MessagesAssumption DEF TORN, CONFIG
<1>5. ~OnlyValues(polled)
  BY <1>3, <1>4 DEF OnlyValues
<1>6. ~AsksOneByOne
  <2> SUFFICES ASSUME AsksOneByOne PROVE FALSE
    OBVIOUS
  <2>1. /\ call.op \in {"open", "read"} /\ OneAsked
        /\ call.op = "read" => call.of \in Input
    BY <1>5 DEF AsksOneByOne, NothingAsked, OneAnswered
  <2>2. Wanted # TORN
    BY <1>4, <2>1 DEF Wanted
  <2>3. PICK i \in 1..Len(polled) :
               /\ polled[i].of = Wanted
               /\ \A j \in 1..Len(polled) : j # i => polled[j].of \in Outputs
    BY <2>1 DEF OneAsked
  <2> QED BY <1>3, <1>4, <2>2, <2>3
<1> QED BY <1>1, <1>6 DEF FreshInv, FreshUntilReopened, FreshRead, Faultless

\* Where nothing times out no wait ends without an answer.
LEMMA TimeoutFresh ==
    ASSUME FreshInv, TimedOut, UNCHANGED <<world, batch_active, sessions>>
    PROVE  FreshInv'
<1>1. ~Faultless /\ faults' \in Nat
  BY NoFaults DEF FreshInv, TimedOut, Cut
<1> QED BY <1>1 DEF FreshInv, FreshUntilReopened, FreshRead, Faultless

\* Every step keeps the invariant.
LEMMA FreshStep == PortInv /\ NewerInv /\ WriteInv /\ FreshInv /\ [Next]_vars => FreshInv'
<1> SUFFICES ASSUME PortInv, NewerInv, WriteInv, FreshInv, [Next]_vars PROVE FreshInv'
  OBVIOUS
<1>0. clock \in Nat
  BY DEF NewerInv, SampleTypes
<1>1. ASSUME NEW cl \in Client, NEW i \in world.mapped, open_port(cl, i) PROVE FreshInv'
  BY <1>1, open_portFresh
<1>2. ASSUME NEW cl \in Client, NEW i \in world.mapped, channel_open(cl, i) PROVE FreshInv'
  BY <1>0, <1>2, FreshFrame DEF channel_open, worldVars, ioVars, resultVars
<1>3. ASSUME NEW cl \in Client, channel_close(cl) PROVE FreshInv'
  BY <1>0, <1>3, FreshFrame DEF channel_close, worldVars, ioVars, resultVars
<1>4. ASSUME NEW cl \in Client, read(cl) PROVE FreshInv'
  BY <1>4, readFresh
<1>5. ASSUME NEW cl \in Client, batch_hit(cl) PROVE FreshInv'
  <2>1. /\ batch_active /\ UNCHANGED <<world, batch_active, sessions, faults>>
        /\ returned'.status = "OK"
    BY <1>5 DEF batch_hit, deliver, Returns, worldVars, portVars
  <2> QED BY <2>1, BatchFrame DEF FreshInv
<1>6. ASSUME NEW cl \in Client, batch_sampling(cl) PROVE FreshInv'
  <2>1. batch_active /\ UNCHANGED <<world, batch_active, sessions, returned>>
    BY <1>6 DEF batch_sampling, portVars, resultVars
  <2>2. faults' \in Nat
    BY <1>6 DEF batch_sampling, Flushed, FlushFailed, FreshInv
  <2> QED BY <2>1, <2>2, BatchFrame
<1>7. ASSUME NEW cl \in Client, NEW value \in {0, 1}, write(cl, value) PROVE FreshInv'
  BY <1>7, writeFresh
<1>8. CASE read_config
  BY <1>8, read_configFresh
<1>9. CASE read_config_fails
  BY <1>9, TimeoutFresh DEF read_config_fails
<1>10. CASE read_answer
  BY <1>10, read_answerFresh
<1>11. CASE read_fails
  BY <1>11, TimeoutFresh DEF read_fails, portVars
<1>18. CASE read_rest
  BY <1>18, read_restFresh
<1>12. CASE batch_answer
  <2>1. call.op = "batch" /\ UNCHANGED <<world, batch_active, sessions, faults>>
    BY <1>12 DEF batch_answer, worldVars, portVars
  <2>2. batch_active
    BY <2>1 DEF NewerInv, ReadsAnInput
  <2>3. UNCHANGED returned \/ returned'.status = "OK"
    BY <1>12 DEF batch_answer, deliver, Returns, resultVars
  <2> QED BY <2>1, <2>2, <2>3, BatchFrame DEF FreshInv
<1>13. CASE device_answers
  BY <1>13, device_answersFresh
<1>14. CASE device_sets
  BY <1>14, device_setsFresh
<1>15. CASE device_misunderstands
  BY <1>15, device_misunderstandsFresh
<1>16. CASE tick
  BY <1>0, <1>16, FreshFrame DEF tick, FreshInv, portVars, ioVars, resultVars
<1>17. CASE UNCHANGED vars
  BY <1>0, <1>17, FreshFrame DEF vars, worldVars, portVars, ioVars, resultVars
<1> QED
  BY <1>1, <1>2, <1>3, <1>4, <1>5, <1>6, <1>7, <1>8, <1>9, <1>10, <1>11, <1>12, <1>13, <1>14,
     <1>15, <1>16, <1>17, <1>18
     DEF Next, HostStep

\* FreshUntilReopened of the run, for any number of clients, channels and writes:
\* where no answer is late or lost a read without batch_sampling returns a sample
\* taken after it was called, and nobody gets ECHRNG, until the port is opened again.
THEOREM FreshCorrect == Spec => []FreshUntilReopened
<1>1. FreshInv => FreshUntilReopened
  BY DEF FreshInv
<1> QED
  BY <1>1, PortInit, PortStep, NewerInit, NewerStep, WriteInit, WriteStep, FreshInit, FreshStep,
     PTL DEF Spec
-----------------------------------------------------------------------------
(* Without faults every answer is whole *)

WholeAnswer == [of : Input \cup {CONFIG}, at : Nat]
WholePoll == [of : Input \cup Outputs \cup {CONFIG}, value : {NULL, 0, 1}]

WholeQueues ==
    /\ line \in Seq(WholeAnswer) /\ buffer \in Seq(WholeAnswer)
    /\ polled \in Seq(WholePoll) /\ unsent \in Seq(WholePoll)

WholeSamples == cache \in [Input -> Nat]

\* A message that is not whole, and a value that was read from one, show a fault.
WholeInv == faults \in Nat /\ (faults = 0 => WholeQueues /\ WholeSamples)

\* What the buffer and the line have are answers then, and are taken for what they are.
LEMMA NothingCut ==
    ASSUME WholeInv, faults = 0, pos \in Nat
    PROVE  /\ Buffered <=> pos < Len(buffer)
           /\ ~BeginningLeft
           /\ NextAnswer = IF Buffered THEN buffer[pos + 1] ELSE Head(line)
           /\ Ready => NextAnswer.of # REST /\ ReadAs(NextAnswer) = {NextAnswer}
<1>1. line \in Seq(WholeAnswer) /\ buffer \in Seq(WholeAnswer)
  BY DEF WholeInv, WholeQueues
<1>2. \A m \in WholeAnswer : m.of # REST /\ m.of # BEGINNING
  BY MessagesAssumption DEF WholeAnswer, CONFIG, REST, BEGINNING
<1>3. pos < Len(buffer) => buffer[pos + 1] \in WholeAnswer
  BY <1>1, LenProperties
<1>4. ~BeginningLeft /\ (Buffered <=> pos < Len(buffer))
  BY <1>2, <1>3 DEF BeginningLeft, Buffered
<1>5. NextAnswer = IF Buffered THEN buffer[pos + 1] ELSE Head(line)
  BY <1>4 DEF NextAnswer
<1>6. ~Buffered /\ Ready => Head(line) \in WholeAnswer
  BY <1>1, HeadTailProperties, EmptySeq DEF Ready
<1>7. Ready => NextAnswer \in WholeAnswer
  BY <1>3, <1>4, <1>5, <1>6
<1> QED BY <1>2, <1>4, <1>5, <1>7 DEF ReadAs

LEMMA WholeBuffered ==
    ASSUME WholeInv', faults' = 0, pos' \in Nat
    PROVE  Buffered' <=> pos' < Len(buffer')
<1>1. buffer' \in Seq(WholeAnswer) /\ \A m \in WholeAnswer : m.of # BEGINNING
  BY MessagesAssumption DEF WholeInv, WholeQueues, WholeAnswer, CONFIG, BEGINNING
<1>2. pos' < Len(buffer') => buffer'[pos' + 1] \in WholeAnswer
  BY <1>1, LenProperties
<1> QED BY <1>1, <1>2 DEF Buffered, BeginningLeft

\* A step that sends what is whole.
LEMMA WholeSends ==
    ASSUME WholeInv, NEW q, faults = 0 => q \in Seq(WholePoll), Flushed(q) \/ FlushFailed(q),
           line' \in {<< >>, line}, buffer' = buffer, WholeSamples => WholeSamples'
    PROVE  WholeInv'
<1>1. faults' \in Nat /\ (faults' = 0 => faults = 0 /\ Flushed(q))
  BY DEF WholeInv, Flushed, FlushFailed
<1>2. << >> \in Seq(WholeAnswer) /\ << >> \in Seq(WholePoll)
  OBVIOUS
<1>3. ASSUME faults' = 0 PROVE WholeQueues'
  <2>1. polled' = polled \o q /\ unsent' = << >> /\ q \in Seq(WholePoll) /\ WholeQueues
    BY <1>1, <1>3 DEF Flushed, WholeInv
  <2>2. polled' \in Seq(WholePoll)
    BY <2>1, ConcatProperties DEF WholeQueues
  <2> QED BY <1>2, <2>1, <2>2 DEF WholeQueues
<1> QED BY <1>1, <1>3 DEF WholeInv

LEMMA WholeTakes ==
    ASSUME WholeInv, TakeAnswer, UNCHANGED <<faults, polled, unsent>>,
           faults = 0 => WholeSamples'
    PROVE  WholeInv'
<1>1. << >> \in Seq(WholeAnswer)
  OBVIOUS
<1> QED BY <1>1 DEF WholeInv, WholeQueues, TakeAnswer

\* A batch keeps the samples that were answered.
LEMMA WholeBatch ==
    ASSUME WholeInv, SampleTypes, batch_answer
    PROVE  WholeInv'
<1>1. Ready /\ TakeAnswer /\ UNCHANGED <<faults, polled, unsent>>
  BY DEF batch_answer, worldVars
<1>2. ASSUME faults = 0 PROVE WholeSamples'
  <2>1. PICK m \in ReadAs(NextAnswer) :
           LET c == IF m.of \in Input THEN [cache EXCEPT ![m.of] = m.at] ELSE cache
           IN  cache' \in {c, [c EXCEPT ![call.of] = 0]}
    BY DEF batch_answer, deliver
  <2>2. m = NextAnswer
    BY <1>1, <1>2, <2>1, NothingCut DEF SampleTypes
  <2>3. m.at \in Nat
    BY <1>1, <2>2, TakesOldest DEF Sample
  <2> QED BY <1>2, <2>1, <2>3 DEF WholeInv, WholeSamples
<1> QED BY <1>1, <1>2, WholeTakes

\* A cut, in the wait for an answer or before the port is open, is a fault.
LEMMA WholeTimeout ==
    ASSUME WholeInv, TimedOut, cache' = cache
    PROVE  WholeInv'
  BY DEF WholeInv, WholeQueues, WholeSamples, TimedOut, Cut

LEMMA WholeDevice ==
    ASSUME WholeInv, clock \in Nat, device_sets \/ device_answers \/ device_misunderstands
    PROVE  WholeInv'
<1>1. faults' \in Nat /\ (faults' = 0 => faults' = faults /\ ~Cut) /\ UNCHANGED <<unsent, buffer, cache>>
  BY DEF WholeInv, device_sets, device_answers, device_misunderstands, worldVars, batchVars, Cut
<1> SUFFICES ASSUME faults' = 0 PROVE WholeQueues'
  BY <1>1 DEF WholeInv, WholeSamples
<1>2. WholeQueues /\ polled # << >>
  BY <1>1 DEF WholeInv, device_sets, device_answers, device_misunderstands
<1>3. Tail(polled) \in Seq(WholePoll) /\ Head(polled) \in WholePoll
  BY <1>2, HeadTailProperties, EmptySeq DEF WholeQueues
<1>4. Head(polled).of # TORN /\ Head(polled).of # REST
  BY <1>3, OutputsAssumption, MessagesAssumption DEF WholePoll, CONFIG, TORN, REST
<1>5. polled' = Tail(polled)
  BY <1>1, <1>4 DEF device_sets, device_answers, device_misunderstands
<1>6. line' \in Seq(WholeAnswer)
  <2>1. line' = line \/ (/\ Head(polled).of \in Input \cup {CONFIG}
                         /\ line' = Append(line, Message(Head(polled).of, clock + 1)))
    BY <1>1, <1>4 DEF device_sets, device_answers, device_misunderstands
  <2>2. Head(polled).of \in Input \cup {CONFIG} =>
           Message(Head(polled).of, clock + 1) \in WholeAnswer
    BY DEF Message, WholeAnswer
  <2>3. line \in Seq(WholeAnswer) /\ \A m \in WholeAnswer : Append(line, m) \in Seq(WholeAnswer)
    BY <1>2, AppendProperties DEF WholeQueues
  <2> QED BY <2>1, <2>2, <2>3
<1> QED BY <1>1, <1>2, <1>3, <1>5, <1>6 DEF WholeQueues

LEMMA WholeInit == Init => WholeInv
<1>1. << >> \in Seq(WholeAnswer) /\ << >> \in Seq(WholePoll)
  OBVIOUS
<1> QED BY <1>1 DEF Init, WholeInv, WholeQueues, WholeSamples

\* Every step keeps the invariant.
LEMMA WholeStep == NewerInv /\ WriteInv /\ WholeInv /\ [Next]_vars => WholeInv'
<1> SUFFICES ASSUME NewerInv, WriteInv, WholeInv, [Next]_vars PROVE WholeInv'
  OBVIOUS
<1>0. clock \in Nat /\ inputs \in Seq(Input)
  BY DEF NewerInv, SampleTypes, WriteInv, WriteTypes
<1>1. \A i \in Input \cup {CONFIG} : Poll(i) \in WholePoll
  BY DEF Poll, WholePoll
<1>2. ASSUME UNCHANGED <<faults, line, buffer, polled, unsent, cache>> PROVE WholeInv'
  BY <1>2 DEF WholeInv, WholeQueues, WholeSamples
<1>3. ASSUME NEW cl \in Client, NEW i, open_port(cl, i) PROVE WholeInv'
  <2> DEFINE q == <<Poll(CONFIG)>>
  <2>1. q \in Seq(WholePoll)
    BY <1>1
  <2>2. (Flushed(q) \/ FlushFailed(q)) /\ line' = << >> /\ buffer' = buffer /\ cache' = cache
    BY <1>3 DEF open_port, batchVars
  <2> HIDE DEF q
  <2> QED BY <2>1, <2>2, WholeSends DEF WholeSamples
<1>4. ASSUME NEW cl \in Client, read(cl) PROVE WholeInv'
  <2> DEFINE q == Append(unsent, Poll(client[cl]))
  <2>1. client[cl] \in Input
    BY <1>4 DEF read
  <2>2. faults = 0 => q \in Seq(WholePoll)
    BY <1>1, <2>1, AppendProperties DEF WholeInv, WholeQueues
  <2>3. (Flushed(q) \/ FlushFailed(q)) /\ line' = line /\ buffer' = buffer /\ cache' = cache
    BY <1>4 DEF read, batchVars
  <2> HIDE DEF q
  <2> QED BY <2>2, <2>3, WholeSends DEF WholeSamples
<1>5. ASSUME NEW cl \in Client, batch_sampling(cl) PROVE WholeInv'
  <2> DEFINE q == unsent \o Polls(inputs)
  <2>1. Polls(inputs) \in Seq(WholePoll)
    <3>1. Polls(inputs) = [i \in 1..Len(inputs) |-> Poll(inputs[i])] /\ Len(inputs) \in Nat
      BY <1>0 DEF Polls
    <3>2. \A i \in 1..Len(inputs) : Poll(inputs[i]) \in WholePoll
      BY <1>0, <1>1
    <3> QED BY <3>1, <3>2
  <2>2. faults = 0 => q \in Seq(WholePoll)
    BY <2>1, ConcatProperties DEF WholeInv, WholeQueues
  <2>3. (Flushed(q) \/ FlushFailed(q)) /\ line' = line /\ buffer' = buffer
    BY <1>5 DEF batch_sampling
  <2>4. WholeSamples => WholeSamples'
    BY <1>5 DEF batch_sampling, WholeSamples
  <2> HIDE DEF q
  <2> QED BY <2>2, <2>3, <2>4, WholeSends
<1>6. ASSUME NEW cl \in Client, NEW value \in {0, 1}, write(cl, value) PROVE WholeInv'
  <2> DEFINE q == Append(unsent, Value(client[cl], value))
  <2>1. Value(client[cl], value) \in WholePoll
    BY <1>6 DEF write, Value, WholePoll
  <2>2. faults = 0 => q \in Seq(WholePoll)
    BY <2>1, AppendProperties DEF WholeInv, WholeQueues
  <2>3. (Flushed(q) \/ FlushFailed(q)) /\ line' = line /\ buffer' = buffer /\ cache' = cache
    BY <1>6 DEF write, batchVars
  <2> HIDE DEF q
  <2> QED BY <2>2, <2>3, WholeSends DEF WholeSamples
<1>7. ASSUME NEW cl \in Client,
             (\E i \in world.mapped : channel_open(cl, i)) \/ channel_close(cl)
      PROVE  WholeInv'
  BY <1>2, <1>7 DEF channel_open, channel_close, ioVars, worldVars, batchVars
<1>12. ASSUME NEW cl \in Client, batch_hit(cl) PROVE WholeInv'
  BY <1>12
     DEF batch_hit, deliver, ioVars, worldVars, WholeInv, WholeQueues, WholeSamples
<1>8. CASE read_config \/ read_answer \/ read_rest
  <2>1. TakeAnswer /\ UNCHANGED <<faults, polled, unsent, cache>>
    BY <1>8 DEF read_config, read_answer, read_rest, worldVars, batchVars
  <2> QED BY <2>1, WholeTakes DEF WholeInv, WholeSamples
<1>13. CASE batch_answer
  BY <1>13, WholeBatch DEF NewerInv
<1>9. CASE read_config_fails \/ read_fails
  BY <1>9, WholeTimeout DEF read_config_fails, read_fails, batchVars
<1>10. CASE device_answers \/ device_sets \/ device_misunderstands
  BY <1>0, <1>10, WholeDevice
<1>11. CASE tick \/ UNCHANGED vars
  BY <1>2, <1>11 DEF tick, vars, ioVars, worldVars, batchVars
<1> QED
  BY <1>3, <1>4, <1>5, <1>6, <1>7, <1>8, <1>9, <1>10, <1>11, <1>12, <1>13
     DEF Next, HostStep

-----------------------------------------------------------------------------
(* The order in which a batch is answered *)

InputCount == Len(Inputs)

\* The order of the polls: next says which index may follow which, upto what may
\* come any later.  Batches follow each other in circles; one batch goes from its
\* first input to its last.
InCircles ==
    [next |-> {p \in Nat \X (1..InputCount) : p[2] = IF p[1] = InputCount THEN 1 ELSE p[1] + 1},
     upto |-> Nat \X Nat]
InOneGo ==
    [next |-> {p \in Nat \X (1..InputCount) : p[2] = p[1] + 1},
     upto |-> {p \in Nat \X Nat : p[1] <= p[2]}]

IsOrder(order) ==
    /\ order.next \subseteq order.upto \cap (Nat \X (1..InputCount))
    /\ order.upto \subseteq Nat \X Nat
    /\ \A i \in Nat : <<i, i>> \in order.upto
    /\ \A i, j, k \in Nat : <<i, j>> \in order.upto /\ <<j, k>> \in order.upto
                               => <<i, k>> \in order.upto

\* Behind its first k messages q goes on from the input at index a to that at b.
Follow(q, k, a, b, order) ==
    \E at \in [k..Len(q) -> Nat] :
       /\ at[k] = a /\ at[Len(q)] = b
       /\ \A i, j \in k..Len(q) : i <= j => <<at[i], at[j]>> \in order.upto
       /\ \A j \in (k + 1)..Len(q) :
             \/ q[j].of \in Outputs /\ at[j] = at[j - 1]
             \/ q[j].of = Inputs[at[j]] /\ <<at[j - 1], at[j]>> \in order.next

LEMMA Orders == IsOrder(InCircles) /\ IsOrder(InOneGo)
<1>1. InputCount \in Nat
  BY InputsAssumption, LenProperties DEF InputCount
<1> QED BY <1>1 DEF InCircles, InOneGo, IsOrder

LEMMA FollowNothing ==
    ASSUME NEW order, IsOrder(order), NEW S, NEW q \in Seq(S), NEW a \in Nat
    PROVE  Follow(q, Len(q), a, a, order)
<1>1. Len(q) \in Nat
  BY LenProperties
<1> DEFINE at == [i \in Len(q)..Len(q) |-> a]
<1>2. at \in [Len(q)..Len(q) -> Nat] /\ at[Len(q)] = a /\ \A i \in Len(q)..Len(q) : at[i] = a
  BY <1>1
<1> HIDE DEF at
<1> QED BY <1>1, <1>2 DEF Follow, IsOrder

\* The next message is a value, or that of the next input.
LEMMA FollowNext ==
    ASSUME NEW order, IsOrder(order), NEW S, NEW q \in Seq(S), NEW k \in Nat, k < Len(q),
           NEW a \in Nat, NEW b \in Nat, Follow(q, k, a, b, order)
    PROVE  \/ q[k + 1].of \in Outputs /\ Follow(q, k + 1, a, b, order)
           \/ \E c \in Nat : /\ <<a, c>> \in order.next /\ q[k + 1].of = Inputs[c]
                             /\ Follow(q, k + 1, c, b, order)
<1>1. Len(q) \in Nat /\ k + 1 \in k..Len(q) /\ k + 1 \in (k + 1)..Len(q)
  BY LenProperties
<1>2. PICK at \in [k..Len(q) -> Nat] :
         /\ at[k] = a /\ at[Len(q)] = b
         /\ \A i, j \in k..Len(q) : i <= j => <<at[i], at[j]>> \in order.upto
         /\ \A j \in (k + 1)..Len(q) :
               \/ q[j].of \in Outputs /\ at[j] = at[j - 1]
               \/ q[j].of = Inputs[at[j]] /\ <<at[j - 1], at[j]>> \in order.next
  BY DEF Follow
<1> DEFINE rest == [i \in (k + 1)..Len(q) |-> at[i]]
<1>3. /\ rest \in [(k + 1)..Len(q) -> Nat] /\ Len(q) \in (k + 1)..Len(q)
      /\ \A i \in (k + 1)..Len(q) : rest[i] = at[i] /\ i \in k..Len(q)
  BY <1>1, <1>2
<1> HIDE DEF rest
<1>4. \A j \in (k + 2)..Len(q) : j \in (k + 1)..Len(q) /\ j - 1 \in (k + 1)..Len(q)
  BY <1>1
<1>5. Follow(q, k + 1, at[k + 1], b, order)
  <2>1. rest[k + 1] = at[k + 1] /\ rest[Len(q)] = b
    BY <1>1, <1>2, <1>3
  <2>2. \A i, j \in (k + 1)..Len(q) : i <= j => <<rest[i], rest[j]>> \in order.upto
    BY <1>2, <1>3
  <2>3. \A j \in (k + 2)..Len(q) :
             \/ q[j].of \in Outputs /\ rest[j] = rest[j - 1]
             \/ q[j].of = Inputs[rest[j]] /\ <<rest[j - 1], rest[j]>> \in order.next
    BY <1>2, <1>3, <1>4
  <2>4. (k + 1) + 1 = k + 2
    OBVIOUS
  <2> QED BY <1>3, <2>1, <2>2, <2>3, <2>4 DEF Follow
<1>6. at[k + 1] \in Nat /\ (k + 1) - 1 = k
  BY <1>1, <1>2
<1> QED BY <1>1, <1>2, <1>5, <1>6

\* The device has taken the first message.
LEMMA FollowTail ==
    ASSUME NEW order, IsOrder(order), NEW S, NEW q \in Seq(S), q # << >>,
           NEW a \in Nat, NEW b \in Nat, Follow(q, 1, a, b, order)
    PROVE  Follow(Tail(q), 0, a, b, order)
<1> DEFINE t == Tail(q)
<1>1. /\ Len(q) \in Nat \ {0} /\ Len(t) = Len(q) - 1
      /\ \A i \in 1..Len(t) : i + 1 \in 1..Len(q) /\ t[i] = q[i + 1]
  BY HeadTailProperties, EmptySeq, LenProperties
<1> HIDE DEF t
<1>2. PICK at \in [1..Len(q) -> Nat] :
         /\ at[1] = a /\ at[Len(q)] = b
         /\ \A i, j \in 1..Len(q) : i <= j => <<at[i], at[j]>> \in order.upto
         /\ \A j \in 2..Len(q) :
               \/ q[j].of \in Outputs /\ at[j] = at[j - 1]
               \/ q[j].of = Inputs[at[j]] /\ <<at[j - 1], at[j]>> \in order.next
  BY DEF Follow
<1> DEFINE rest == [i \in 0..Len(t) |-> at[i + 1]]
<1>3. /\ rest \in [0..Len(t) -> Nat]
      /\ \A i \in 0..Len(t) : rest[i] = at[i + 1] /\ i + 1 \in 1..Len(q)
  BY <1>1, <1>2
<1> HIDE DEF rest
<1>4. rest[0] = a /\ rest[Len(t)] = b
  BY <1>1, <1>2, <1>3
<1>5. \A i, j \in 0..Len(t) : i <= j => <<rest[i], rest[j]>> \in order.upto
  BY <1>2, <1>3
<1>6. \A j \in 1..Len(t) : \/ t[j].of \in Outputs /\ rest[j] = rest[j - 1]
                           \/ t[j].of = Inputs[rest[j]] /\ <<rest[j - 1], rest[j]>> \in order.next
  <2> SUFFICES ASSUME NEW j \in 1..Len(t)
               PROVE  \/ t[j].of \in Outputs /\ rest[j] = rest[j - 1]
                      \/ t[j].of = Inputs[rest[j]] /\ <<rest[j - 1], rest[j]>> \in order.next
    OBVIOUS
  <2>1. /\ j + 1 \in 2..Len(q) /\ (j + 1) - 1 = j /\ j - 1 \in 0..Len(t) /\ j \in 0..Len(t)
        /\ (j - 1) + 1 = j /\ t[j] = q[j + 1]
    BY <1>1
  <2>2. rest[j] = at[j + 1] /\ rest[j - 1] = at[j]
    BY <1>3, <2>1
  <2> QED BY <1>2, <2>1, <2>2
<1>7. 0 + 1 = 1
  OBVIOUS
<1>8. Follow(t, 0, a, b, order)
  BY <1>3, <1>4, <1>5, <1>6, <1>7 DEF Follow
<1> QED BY <1>8 DEF t

\* One queue goes on where the other ends.
LEMMA FollowConcat ==
    ASSUME NEW order, IsOrder(order), NEW S, NEW s \in Seq(S), NEW t \in Seq(S),
           NEW a \in Nat, NEW b \in Nat, NEW c \in Nat,
           Follow(s, 0, a, b, order), Follow(t, 0, b, c, order)
    PROVE  Follow(s \o t, 0, a, c, order)
<1> DEFINE r == s \o t
<1>1. /\ Len(s) \in Nat /\ Len(t) \in Nat /\ Len(r) = Len(s) + Len(t)
      /\ \A i \in 1..Len(s) : r[i] = s[i]
      /\ \A i \in 1..Len(t) : r[Len(s) + i] = t[i]
  BY ConcatProperties, LenProperties
<1> HIDE DEF r
<1>2. PICK f \in [0..Len(s) -> Nat] :
         /\ f[0] = a /\ f[Len(s)] = b
         /\ \A i, j \in 0..Len(s) : i <= j => <<f[i], f[j]>> \in order.upto
         /\ \A j \in (0 + 1)..Len(s) :
               \/ s[j].of \in Outputs /\ f[j] = f[j - 1]
               \/ s[j].of = Inputs[f[j]] /\ <<f[j - 1], f[j]>> \in order.next
  BY DEF Follow
<1>3. PICK g \in [0..Len(t) -> Nat] :
         /\ g[0] = b /\ g[Len(t)] = c
         /\ \A i, j \in 0..Len(t) : i <= j => <<g[i], g[j]>> \in order.upto
         /\ \A j \in (0 + 1)..Len(t) :
               \/ t[j].of \in Outputs /\ g[j] = g[j - 1]
               \/ t[j].of = Inputs[g[j]] /\ <<g[j - 1], g[j]>> \in order.next
  BY DEF Follow
<1> DEFINE at == [i \in 0..Len(r) |-> IF i <= Len(s) THEN f[i] ELSE g[i - Len(s)]]
<1>4. /\ at \in [0..Len(r) -> Nat]
      /\ \A i \in 0..Len(s) : i \in 0..Len(r) /\ at[i] = f[i]
  BY <1>1, <1>2, <1>3
<1>5. \A i \in 0..Len(r) : i >= Len(s) => i - Len(s) \in 0..Len(t) /\ at[i] = g[i - Len(s)]
  <2>1. \A i \in 0..Len(r) : i >= Len(s) => i - Len(s) \in 0..Len(t)
    BY <1>1
  <2>2. \A i \in 0..Len(r) : i > Len(s) => at[i] = g[i - Len(s)]
    BY <1>1
  <2>3. at[Len(s)] = g[Len(s) - Len(s)]
    BY <1>1, <1>2, <1>3, <1>4
  <2> HIDE DEF at
  <2>4. ASSUME NEW i \in 0..Len(r), i >= Len(s) PROVE at[i] = g[i - Len(s)]
    <3>1. CASE i = Len(s)
      BY <2>3, <3>1
    <3>2. CASE i # Len(s)
      <4>1. i > Len(s)
        BY <1>1, <2>4, <3>2
      <4> QED BY <2>2, <4>1
    <3> QED BY <3>1, <3>2
  <2> QED BY <2>1, <2>4
<1> HIDE DEF at
<1>6. at[0] = a /\ at[Len(r)] = c
  <2>1. 0 \in 0..Len(s) /\ Len(r) \in 0..Len(r) /\ Len(r) >= Len(s) /\ Len(r) - Len(s) = Len(t)
    BY <1>1
  <2> QED BY <1>2, <1>3, <1>4, <1>5, <2>1
<1>7. ASSUME NEW i \in 0..Len(r), NEW j \in 0..Len(r), i <= j
      PROVE  <<at[i], at[j]>> \in order.upto
  <2>1. CASE j <= Len(s)
    <3>1. i \in 0..Len(s) /\ j \in 0..Len(s)
      BY <1>1, <1>7, <2>1
    <3> QED BY <1>2, <1>4, <1>7, <3>1
  <2>2. CASE i >= Len(s)
    <3>1. j >= Len(s) /\ i - Len(s) <= j - Len(s)
      BY <1>1, <1>7, <2>2
    <3> QED BY <1>3, <1>5, <2>2, <3>1
  <2>3. CASE i < Len(s) /\ j > Len(s)
    <3>1. i \in 0..Len(s) /\ Len(s) \in 0..Len(s) /\ i <= Len(s)
      BY <1>1, <2>3
    <3>2. <<f[i], b>> \in order.upto /\ at[i] = f[i] /\ f[i] \in Nat
      BY <1>2, <1>4, <3>1
    <3>3. /\ j - Len(s) \in 0..Len(t) /\ 0 \in 0..Len(t) /\ 0 <= j - Len(s)
          /\ j \in 0..Len(r) /\ ~(j <= Len(s))
      BY <1>1, <1>7, <2>3
    <3>5. at[j] = g[j - Len(s)]
      BY <1>5, <3>3
    <3>4. <<b, g[j - Len(s)]>> \in order.upto /\ g[j - Len(s)] \in Nat
      BY <1>3, <3>3
    <3>6. f[i] \in Nat /\ b \in Nat /\ <<f[i], g[j - Len(s)]>> \in order.upto
      BY <3>2, <3>4 DEF IsOrder
    <3> QED BY <3>2, <3>5, <3>6
  <2> QED BY <1>1, <2>1, <2>2, <2>3
<1>8. ASSUME NEW j \in 1..Len(r)
      PROVE  \/ r[j].of \in Outputs /\ at[j] = at[j - 1]
             \/ r[j].of = Inputs[at[j]] /\ <<at[j - 1], at[j]>> \in order.next
  <2>1. CASE j <= Len(s)
    <3>1. j \in 1..Len(s) /\ j \in 0..Len(s) /\ j - 1 \in 0..Len(s)
      BY <1>1, <2>1
    <3>2. /\ r[j] = s[j] /\ at[j] = f[j] /\ at[j - 1] = f[j - 1]
          /\ j \in (0 + 1)..Len(s)
      <4>1. r[j] = s[j]
        BY <1>1, <3>1
      <4>2. at[j] = f[j] /\ at[j - 1] = f[j - 1]
        BY <1>4, <3>1
      <4>3. j \in (0 + 1)..Len(s)
        BY <1>1, <3>1
      <4> QED BY <4>1, <4>2, <4>3
    <3> QED BY <1>2, <3>2
  <2>2. CASE j > Len(s)
    <3>1. /\ j - Len(s) \in 1..Len(t) /\ Len(s) + (j - Len(s)) = j
          /\ j \in 0..Len(r) /\ j - 1 \in 0..Len(r) /\ j - 1 >= Len(s) /\ j >= Len(s)
          /\ (j - 1) - Len(s) = (j - Len(s)) - 1
      BY <1>1, <2>2
    <3>2. r[j] = t[j - Len(s)] /\ at[j] = g[j - Len(s)] /\ at[j - 1] = g[(j - Len(s)) - 1]
      BY <1>1, <1>5, <3>1
    <3>3. j - Len(s) \in (0 + 1)..Len(t)
      BY <3>1
    <3> QED BY <1>3, <3>2, <3>3
  <2> QED BY <1>1, <2>1, <2>2
<1>9. 0 + 1 = 1
  OBVIOUS
<1>10. Follow(r, 0, a, c, order)
  BY <1>4, <1>6, <1>7, <1>8, <1>9 DEF Follow
<1> QED BY <1>10 DEF r

\* One message more: a value, or that of the next input.
LEMMA FollowOne ==
    ASSUME NEW order, IsOrder(order), NEW S, NEW m \in S, NEW a \in Nat, NEW b \in Nat,
           \/ m.of \in Outputs /\ a = b
           \/ m.of = Inputs[b] /\ <<a, b>> \in order.next
    PROVE  Follow(<<m>>, 0, a, b, order)
<1> DEFINE q == <<m>>
           at == [i \in 0..1 |-> IF i = 0 THEN a ELSE b]
<1>1. Len(q) = 1 /\ q[1] = m
  OBVIOUS
<1>2. at \in [0..1 -> Nat] /\ at[0] = a /\ at[1] = b
  OBVIOUS
<1>3. <<a, b>> \in order.upto /\ <<a, a>> \in order.upto /\ <<b, b>> \in order.upto
  BY DEF IsOrder
<1> HIDE DEF q, at
<1>4. \A i, j \in 0..1 : i <= j => <<at[i], at[j]>> \in order.upto
  <2>1. \A i \in 0..1 : i = 0 \/ i = 1
    OBVIOUS
  <2> QED BY <1>2, <1>3, <2>1
<1>5. \A j \in 1..1 : \/ q[j].of \in Outputs /\ at[j] = at[j - 1]
                      \/ q[j].of = Inputs[at[j]] /\ <<at[j - 1], at[j]>> \in order.next
  <2>1. \A j \in 1..1 : j = 1 /\ j - 1 = 0
    OBVIOUS
  <2> QED BY <1>1, <1>2, <2>1
<1>6. 0 + 1 = 1
  OBVIOUS
<1>7. Follow(q, 0, a, b, order)
  BY <1>1, <1>2, <1>4, <1>5, <1>6 DEF Follow
<1> QED BY <1>7 DEF q

\* A batch polls the inputs in their order.
LEMMA PollsFollow ==
    /\ InputCount > 0 => Follow(Polls(Inputs), 0, InputCount, InputCount, InCircles)
    /\ Follow(Polls(Inputs), 0, 0, InputCount, InOneGo)
<1>1. InputCount \in Nat /\ InputCount = Len(Inputs) /\ DOMAIN Inputs = 1..InputCount
  BY InputsAssumption, LenProperties DEF InputCount
<1> DEFINE q == Polls(Inputs)
           circle == [i \in 0..InputCount |-> IF i = 0 THEN InputCount ELSE i]
           go == [i \in 0..InputCount |-> i]
<1>2. q = [i \in 1..InputCount |-> Poll(Inputs[i])]
  BY <1>1 DEF Polls
<1>3. Len(q) = InputCount /\ \A i \in 1..InputCount : q[i].of = Inputs[i]
  BY <1>1, <1>2 DEF Poll
<1> HIDE DEF q
<1>4. ASSUME InputCount > 0 PROVE Follow(q, 0, InputCount, InputCount, InCircles)
  <2>1. /\ circle \in [0..Len(q) -> Nat] /\ circle[0] = InputCount
        /\ circle[Len(q)] = InputCount
    BY <1>1, <1>3, <1>4
  <2>2. \A j \in 1..Len(q) : circle[j] = j /\ (j = 1 => circle[j - 1] = InputCount)
                             /\ (j # 1 => circle[j - 1] = j - 1)
    BY <1>1, <1>3
  <2> HIDE DEF circle
  <2>3. \A i, j \in 0..Len(q) : i <= j => <<circle[i], circle[j]>> \in InCircles.upto
    BY <2>1 DEF InCircles
  <2>4. \A j \in 1..Len(q) : /\ q[j].of = Inputs[circle[j]]
                             /\ <<circle[j - 1], circle[j]>> \in InCircles.next
    <3> SUFFICES ASSUME NEW j \in 1..Len(q)
                 PROVE  /\ q[j].of = Inputs[circle[j]]
                        /\ <<circle[j - 1], circle[j]>> \in InCircles.next
      OBVIOUS
    <3>1. j \in 1..InputCount /\ circle[j] = j /\ q[j].of = Inputs[j]
      BY <1>3, <2>2
    <3>2. CASE j = 1
      BY <1>1, <1>4, <2>2, <3>1, <3>2 DEF InCircles
    <3>3. CASE j # 1
      <4>1. circle[j - 1] = j - 1 /\ j - 1 # InputCount /\ j - 1 \in Nat
        BY <1>1, <2>2, <3>1, <3>3
      <4> QED BY <1>1, <3>1, <4>1 DEF InCircles
    <3> QED BY <3>2, <3>3
  <2>5. 0 + 1 = 1
    OBVIOUS
  <2> QED BY <2>1, <2>3, <2>4, <2>5 DEF Follow
<1>5. Follow(q, 0, 0, InputCount, InOneGo)
  <2>1. go \in [0..Len(q) -> Nat] /\ go[0] = 0 /\ go[Len(q)] = InputCount
    BY <1>1, <1>3
  <2>2. \A i \in 0..Len(q) : go[i] = i
    BY <1>1, <1>3
  <2>3. \A j \in 1..Len(q) : j \in 0..Len(q) /\ j - 1 \in 0..Len(q) /\ j - 1 \in Nat
    BY <1>1, <1>3
  <2> HIDE DEF go
  <2>4. \A i, j \in 0..Len(q) : i <= j => <<go[i], go[j]>> \in InOneGo.upto
    BY <1>1, <2>2 DEF InOneGo
  <2>5. \A j \in 1..Len(q) : /\ q[j].of = Inputs[go[j]]
                             /\ <<go[j - 1], go[j]>> \in InOneGo.next
    BY <1>1, <1>3, <2>2, <2>3 DEF InOneGo
  <2>6. 0 + 1 = 1
    OBVIOUS
  <2> QED BY <2>1, <2>4, <2>5, <2>6 DEF Follow
<1> QED BY <1>4, <1>5 DEF q

\* What is under way follows the input at index a in order, up to the last one.
InTurn(a, order) ==
    \E b, c \in Nat :
       /\ IF Buffered THEN Follow(buffer, pos, a, b, order) ELSE a = b
       /\ Follow(line, 0, b, c, order)
       /\ Follow(polled, 0, c, InputCount, order)

\* A sample is not a value, and an input has one index at least.
LEMMA SampleIsNoValue ==
    /\ \A m \in Sample : m.of \notin Outputs
    /\ \A i \in 1..InputCount : Inputs[i] \in Input /\ Inputs[i] \notin Outputs
<1>1. \A i \in 1..InputCount : Inputs[i] \in Input
  BY InputsAssumption DEF Input, InputCount
<1> QED BY <1>1, OutputsAssumption DEF Sample

\* The answer that is taken is that of the next input.
LEMMA TakeInTurn ==
    ASSUME NEW order, IsOrder(order), NEW a \in Nat, InTurn(a, order), SampleTypes,
           WholeInv, WholeInv', faults = 0, faults' = 0,
           Ready, TakeAnswer, polled' = polled
    PROVE  \E d \in 1..InputCount :
              <<a, d>> \in order.next /\ NextAnswer.of = Inputs[d] /\ InTurn(d, order)'
<1>1. PICK b \in Nat, c \in Nat :
         /\ IF Buffered THEN Follow(buffer, pos, a, b, order) ELSE a = b
         /\ Follow(line, 0, b, c, order)
         /\ Follow(polled, 0, c, InputCount, order)
  BY DEF InTurn
<1>2. /\ line \in Seq(Sample) /\ buffer \in Seq(Sample) /\ pos \in Nat
      /\ Len(line) \in Nat /\ Len(buffer) \in Nat
  BY LenProperties DEF SampleTypes
<1>5. /\ Buffered <=> pos < Len(buffer)
      /\ NextAnswer = IF Buffered THEN buffer[pos + 1] ELSE Head(line)
  BY <1>2, NothingCut
<1>6. pos' \in Nat /\ (Buffered' <=> pos' < Len(buffer'))
  <2>1. pos' \in Nat
    BY <1>2 DEF TakeAnswer
  <2> QED BY <2>1, WholeBuffered
<1>3. CASE Buffered
  <2>1. pos' = pos + 1 /\ buffer' = buffer /\ line' = line /\ NextAnswer = buffer[pos + 1]
    BY <1>3, <1>5 DEF TakeAnswer
  <2>2. pos < Len(buffer) /\ pos + 1 \in 1..Len(buffer)
    BY <1>2, <1>3, <1>5
  <2>3. buffer[pos + 1].of \notin Outputs
    BY <1>2, <2>2, SampleIsNoValue
  <2>4. PICK d \in Nat : /\ <<a, d>> \in order.next /\ buffer[pos + 1].of = Inputs[d]
                         /\ Follow(buffer, pos + 1, d, b, order)
    BY <1>1, <1>2, <1>3, <2>2, <2>3, FollowNext
  <2>5. d \in 1..InputCount
    BY <2>4 DEF IsOrder
  <2>6. IF Buffered' THEN Follow(buffer, pos + 1, d, b, order) ELSE d = b
    <3>1. CASE pos + 1 = Len(buffer)
      <4>1. d = b
        BY <2>4, <3>1 DEF Follow
      <4> QED BY <2>4, <4>1
    <3>2. CASE pos + 1 < Len(buffer)
      <4>1. Buffered'
        BY <1>6, <2>1, <3>2
      <4> QED BY <2>4, <4>1
    <3> QED BY <1>2, <2>2, <3>1, <3>2
  <2>7. InTurn(d, order)'
    BY <1>1, <2>1, <2>6 DEF InTurn
  <2> QED BY <2>1, <2>4, <2>5, <2>7
<1>4. CASE ~Buffered
  <2>1. /\ pos' = 1 /\ buffer' = line /\ line' = << >> /\ line # << >> /\ a = b
        /\ NextAnswer = Head(line)
    BY <1>1, <1>4, <1>5 DEF TakeAnswer, Ready
  <2>2. 0 < Len(line) /\ 1 \in 1..Len(line) /\ Head(line) = line[1]
    BY <1>2, <2>1, EmptySeq
  <2>3. line[1].of \notin Outputs
    BY <1>2, <2>2, SampleIsNoValue
  <2>4. PICK d \in Nat : /\ <<a, d>> \in order.next /\ line[1].of = Inputs[d]
                         /\ Follow(line, 1, d, c, order)
    <3>1. 0 + 1 = 1 /\ 0 \in Nat
      OBVIOUS
    <3>2. \E d \in Nat : /\ <<a, d>> \in order.next /\ line[0 + 1].of = Inputs[d]
                         /\ Follow(line, 0 + 1, d, c, order)
      BY <1>1, <1>2, <2>1, <2>2, <2>3, <3>1, FollowNext
    <3> QED BY <3>1, <3>2
  <2>5. d \in 1..InputCount
    BY <2>4 DEF IsOrder
  <2>6. IF Buffered' THEN Follow(line, 1, d, c, order) ELSE d = c
    <3>1. CASE Len(line) = 1
      <4>1. d = c
        BY <2>4, <3>1 DEF Follow
      <4> QED BY <2>4, <4>1
    <3>2. CASE 1 < Len(line)
      <4>1. Buffered'
        BY <1>6, <2>1, <3>2
      <4> QED BY <2>4, <4>1
    <3>3. \A n \in Nat : 0 < n => n = 1 \/ 1 < n
      OBVIOUS
    <3>4. Len(line) = 1 \/ 1 < Len(line)
      BY <1>2, <2>2, <3>3
    <3> QED BY <3>1, <3>2, <3>4
  <2>7. Follow(<< >>, 0, c, c, order)
    <3>1. << >> \in Seq(Sample) /\ Len(<< >>) = 0
      BY EmptySeq
    <3>2. Follow(<< >>, Len(<< >>), c, c, order)
      BY <3>1, FollowNothing
    <3> QED BY <3>1, <3>2
  <2>8. InTurn(d, order)'
    BY <1>1, <2>1, <2>6, <2>7 DEF InTurn
  <2> QED BY <2>1, <2>2, <2>4, <2>5, <2>8
<1> QED BY <1>3, <1>4

\* The device takes the first message that is on its way.
LEMMA GiveInTurn ==
    ASSUME NEW order, IsOrder(order), NEW a \in Nat, InTurn(a, order), WriteTypes, SampleTypes,
           polled # << >>, polled' = Tail(polled), UNCHANGED <<buffer, pos>>,
           \/ Head(polled).of \in Outputs /\ line' = line
           \/ /\ Head(polled).of \notin Outputs
              /\ \E m \in Sample : m.of = Head(polled).of /\ line' = Append(line, m)
    PROVE  InTurn(a, order)'
<1>1. PICK b \in Nat, c \in Nat :
         /\ IF Buffered THEN Follow(buffer, pos, a, b, order) ELSE a = b
         /\ Follow(line, 0, b, c, order)
         /\ Follow(polled, 0, c, InputCount, order)
  BY DEF InTurn
<1>2. /\ polled \in Seq(Sent) /\ line \in Seq(Sample) /\ 0 < Len(polled)
      /\ Head(polled) = polled[1] /\ InputCount \in Nat
  BY InputsAssumption, TailIndices, LenProperties DEF WriteTypes, SampleTypes, InputCount
<1>3. /\ Buffered' = Buffered
      /\ Buffered => (Follow(buffer, pos, a, b, order)' <=> Follow(buffer, pos, a, b, order))
  BY DEF Buffered, BeginningLeft, Follow
<1>4. \/ polled[1].of \in Outputs /\ Follow(polled, 1, c, InputCount, order)
      \/ \E d \in Nat : /\ <<c, d>> \in order.next /\ polled[1].of = Inputs[d]
                        /\ Follow(polled, 1, d, InputCount, order)
  <2>1. 0 + 1 = 1 /\ 0 \in Nat
    OBVIOUS
  <2>2. \/ polled[0 + 1].of \in Outputs /\ Follow(polled, 0 + 1, c, InputCount, order)
        \/ \E d \in Nat : /\ <<c, d>> \in order.next /\ polled[0 + 1].of = Inputs[d]
                          /\ Follow(polled, 0 + 1, d, InputCount, order)
    BY <1>1, <1>2, <2>1, FollowNext
  <2> QED BY <2>1, <2>2
<1>5. CASE polled[1].of \in Outputs
  <2>1. Follow(polled, 1, c, InputCount, order)
    <3>1. \A d \in Nat : <<c, d>> \in order.next => Inputs[d] \notin Outputs
      BY SampleIsNoValue DEF IsOrder
    <3> QED BY <1>4, <1>5, <3>1
  <2>2. Follow(polled', 0, c, InputCount, order)
    BY <1>2, <2>1, FollowTail
  <2>3. line' = line
    BY <1>2, <1>5
  <2> QED BY <1>1, <1>3, <2>2, <2>3 DEF InTurn
<1>6. CASE polled[1].of \notin Outputs
  <2>1. PICK d \in Nat : /\ <<c, d>> \in order.next /\ polled[1].of = Inputs[d]
                         /\ Follow(polled, 1, d, InputCount, order)
    BY <1>4, <1>6
  <2>2. PICK m \in Sample : m.of = polled[1].of /\ line' = Append(line, m)
    BY <1>2, <1>6
  <2>3. Follow(<<m>>, 0, c, d, order)
    BY <2>1, <2>2, FollowOne
  <2>4. <<m>> \in Seq(Sample) /\ line' = line \o <<m>>
    BY <1>2, <2>2, AppendIsConcat
  <2>5. Follow(line', 0, b, d, order)
    BY <1>1, <1>2, <2>3, <2>4, FollowConcat
  <2>6. Follow(polled', 0, d, InputCount, order)
    BY <1>2, <2>1, FollowTail
  <2> QED BY <1>1, <1>3, <2>5, <2>6 DEF InTurn
<1> QED BY <1>5, <1>6

\* More polls or values are sent.
LEMMA SendInTurn ==
    ASSUME NEW order, IsOrder(order), NEW a \in Nat, InTurn(a, order), WriteTypes,
           NEW q \in Seq(Sent), Follow(q, 0, InputCount, InputCount, order),
           polled' = polled \o q, UNCHANGED <<buffer, pos, line>>
    PROVE  InTurn(a, order)'
<1>1. PICK b \in Nat, c \in Nat :
         /\ IF Buffered THEN Follow(buffer, pos, a, b, order) ELSE a = b
         /\ Follow(line, 0, b, c, order)
         /\ Follow(polled, 0, c, InputCount, order)
  BY DEF InTurn
<1>2. InputCount \in Nat /\ polled \in Seq(Sent)
  BY InputsAssumption, LenProperties DEF WriteTypes, InputCount
<1>3. Follow(polled', 0, c, InputCount, order)
  BY <1>1, <1>2, FollowConcat
<1> QED BY <1>1, <1>3 DEF InTurn, Buffered, BeginningLeft

\* Nothing is sent, taken or answered.
LEMMA FrameInTurn ==
    ASSUME NEW order, NEW a \in Nat, InTurn(a, order), UNCHANGED <<buffer, line, polled>>,
           WholeInv, faults = 0,
           pos \in Nat, Len(buffer) \in Nat, pos' = pos \/ (~Buffered /\ pos' = pos + 1)
    PROVE  InTurn(a, order)'
<1>1. ~Buffered => pos >= Len(buffer)
  BY NothingCut
<1>2. Buffered' = Buffered /\ (Buffered => pos' = pos)
  BY <1>1 DEF Buffered, BeginningLeft
<1> QED BY <1>2 DEF InTurn

\* The configuration is asked for and will be answered with nothing before it.
Opening ==
    /\ buffer = << >>
    /\ \/ polled = <<Poll(CONFIG)>> /\ line = << >>
       \/ polled = << >> /\ \E m \in Sample : m.of = CONFIG /\ line = <<m>>

\* How many answers ago that of the input at index q was taken, when the last was
\* that of the one at index a.
Ago(q, a) == IF q <= a THEN a - q ELSE a - q + InputCount

\* The inputs of the batch that were answered have a sample.
Taken(a) ==
    call.op = "batch" =>
        /\ call.expected \in 1..InputCount
        /\ \A q \in 1..InputCount :
              Ago(q, a) < InputCount - call.expected => cache[Inputs[q]] # 0

\* SampledUnlessLost is about the input that is read.  That it has been answered when
\* as many answers were taken as there are inputs is in their order, which goes round
\* in circles also when a batch has timed out and the next takes its late answers.
SampledInv ==
    /\ faults \in 0..world.max_faults
    /\ call.op = "batch" => fd
    /\ faults = 0 /\ sessions = 1 /\ batch_active /\ fd =>
          /\ unsent = << >>
          /\ IF call.op = "open" THEN Opening
             ELSE /\ inputs = Inputs
                  /\ \E a \in (1..InputCount) \cup {InputCount} : InTurn(a, InCircles) /\ Taken(a)
    /\ SampledUnlessLost

LEMMA SampledInit == Init => SampledInv
<1> SUFFICES ASSUME Init PROVE SampledInv
  OBVIOUS
<1>1. faults \in 0..world.max_faults
  BY WorldsAssumption DEF Init, World
<1> QED BY <1>1 DEF Init, Idle, SampledInv, SampledUnlessLost, OkMeansSampled

\* A client that holds a channel shows that the port is open.
LEMMA HolderHasPort ==
    ASSUME PortInv, NEW cl \in Client, client[cl] # NULL
    PROVE  fd
<1>1. cl \in Holding
  BY DEF Holding
<1>2. Cardinality(Holding) # 0
  BY <1>1, HoldingFinite, FS_EmptySet
<1> QED BY <1>2 DEF PortInv, PortTypes, PortOpenWhileUsed, Holding

\* A step of nobody who waits for an answer, and that sends nothing.
LEMMA SampledFrame ==
    ASSUME SampledInv, WholeInv, SampleTypes,
           UNCHANGED <<world, faults, sessions, batch_active, unsent, buffer, line, polled, inputs>>,
           SampledUnlessLost', fd' => fd, call'.op = "batch" => fd',
           cache' = cache \/ call'.op # "batch",
           faults = 0 => pos' = pos \/ (~Buffered /\ pos' = pos + 1),
           call' = call \/ (call' = Idle /\ call.op # "open")
    PROVE  SampledInv'
<1> SUFFICES ASSUME faults = 0, sessions = 1, batch_active, fd
             PROVE  IF call'.op = "open" THEN Opening'
                    ELSE /\ inputs' = Inputs
                         /\ \E a \in (1..InputCount) \cup {InputCount} :
                               InTurn(a, InCircles)' /\ Taken(a)'
  BY DEF SampledInv
<1>1. CASE call.op = "open"
  BY <1>1 DEF SampledInv, Opening
<1>2. CASE call.op # "open"
  <2>1. PICK a \in (1..InputCount) \cup {InputCount} : InTurn(a, InCircles) /\ Taken(a)
    BY <1>2 DEF SampledInv
  <2>2. a \in Nat
    BY InputsAssumption, LenProperties DEF InputCount
  <2>3. InTurn(a, InCircles)'
    BY <2>1, <2>2, FrameInTurn, LenProperties DEF SampleTypes
  <2>4. Taken(a)' /\ call'.op # "open"
    BY <1>2, <2>1 DEF Taken, Idle
  <2> QED BY <1>2, <2>3, <2>4 DEF SampledInv
<1> QED BY <1>1, <1>2

\* Opening the port the first time: there was nothing before.
LEMMA open_portSampled ==
    ASSUME PortInv, NewerInv, WriteInv, SampledInv, NEW cl \in Client, NEW i \in world.mapped,
           open_port(cl, i)
    PROVE  SampledInv'
<1>1. /\ sessions' = sessions + 1 /\ line' = << >> /\ sessions \in Nat
      /\ Flushed(<<Poll(CONFIG)>>) \/ FlushFailed(<<Poll(CONFIG)>>)
      /\ call' = [Idle EXCEPT !.op = "open", !.client = cl, !.of = i]
      /\ UNCHANGED <<world, buffer, returned>>
  BY DEF open_port, resultVars, NewerInv, SampleTypes
<1>2. /\ faults' \in 0..world.max_faults /\ faults \in Nat
      /\ faults' = 0 => faults = 0 /\ Flushed(<<Poll(CONFIG)>>)
  <2>1. faults \in 0..world.max_faults /\ world.max_faults \in Nat
    BY WorldsAssumption DEF SampledInv, World, PortInv, PortTypes
  <2> QED BY <1>1, <2>1 DEF Flushed, FlushFailed
<1>3. ASSUME faults' = 0, sessions' = 1 PROVE unsent' = << >> /\ Opening' /\ SampledUnlessLost'
  <2>1. buffer = << >> /\ returned.status = "none" /\ polled = << >>
    BY <1>1, <1>3 DEF NewerInv, NothingBefore, WriteInv, NothingWritten
  <2>2. polled' = <<Poll(CONFIG)>> /\ unsent' = << >>
    <3>1. polled' = << >> \o <<Poll(CONFIG)>> /\ unsent' = << >>
      BY <1>2, <1>3, <2>1 DEF Flushed
    <3>2. << >> \o <<Poll(CONFIG)>> = <<Poll(CONFIG)>>
      OBVIOUS
    <3> QED BY <3>1, <3>2
  <2> QED BY <1>1, <2>1, <2>2 DEF Opening, SampledUnlessLost, OkMeansSampled
<1>4. call'.op = "open"
  BY <1>1 DEF Idle
<1> QED BY <1>1, <1>2, <1>3, <1>4 DEF SampledInv, SampledUnlessLost

\* The configuration is the one answer there is.
LEMMA read_configSampled ==
    ASSUME NewerInv, SampledInv, PortInv, read_config
    PROVE  SampledInv'
<1>1. /\ call.op = "open" /\ fd /\ Ready /\ TakeAnswer
      /\ UNCHANGED <<world, batch_active, faults, sessions, unsent, polled, returned>>
  BY DEF read_config, worldVars, resultVars, PortInv, PortTypes, PortOpenWhileUsed
<1>2. ASSUME faults = 0, sessions = 1, batch_active
      PROVE  /\ call'.op # "open" /\ inputs' = Inputs
             /\ InTurn(InputCount, InCircles)' /\ Taken(InputCount)'
  <2>1. Opening
    BY <1>1, <1>2 DEF SampledInv
  <2>2. ~Buffered /\ ~BeginningLeft
    BY <2>1 DEF Opening, Buffered, BeginningLeft, NewerInv, SampleTypes
  <2>3. PICK m \in Sample : m.of = CONFIG /\ line = <<m>> /\ polled = << >>
    BY <1>1, <2>1, <2>2 DEF Opening, Ready
  <2>4. NextAnswer = m /\ pos' = 1 /\ buffer' = <<m>> /\ line' = << >> /\ polled' = << >>
    BY <1>1, <2>2, <2>3 DEF NextAnswer, TakeAnswer
  <2>5. opened(Inputs)
    BY <2>3, <2>4 DEF read_config
  <2>6. call' = Idle /\ call'.op # "open" /\ call'.op # "batch" /\ inputs' = Inputs
    BY <2>5 DEF opened, Idle
  <2>7. Follow(<< >>, 0, InputCount, InputCount, InCircles)
    <3>1. << >> \in Seq(Sample) /\ Len(<< >>) = 0 /\ InputCount \in Nat
      BY InputsAssumption, LenProperties, EmptySeq DEF InputCount
    <3>2. Follow(<< >>, Len(<< >>), InputCount, InputCount, InCircles)
      BY <3>1, FollowNothing, Orders
    <3> QED BY <3>1, <3>2
  <2>8. InTurn(InputCount, InCircles)'
    <3>1. ~Buffered' /\ InputCount \in Nat
      BY <2>4, InputsAssumption, LenProperties DEF Buffered, InputCount
    <3> QED BY <2>4, <2>7, <3>1 DEF InTurn
  <2> QED BY <2>6, <2>8 DEF Taken
<1>3. call'.op # "batch"
  <2>1. call' = call \/ call' = Idle
    BY DEF read_config, opened
  <2> QED BY <1>1, <2>1 DEF Idle
<1> QED BY <1>1, <1>2, <1>3 DEF SampledInv, SampledUnlessLost, OkMeansSampled

\* A batch polls all inputs: what follows the answers under way are those it asks for.
LEMMA batch_samplingSampled ==
    ASSUME NewerInv, WriteInv, SampledInv, PortInv, NEW cl \in Client, batch_sampling(cl)
    PROVE  SampledInv'
<1>1. /\ call = Idle /\ client[cl] \in Input
      /\ Flushed(unsent \o Polls(inputs)) \/ FlushFailed(unsent \o Polls(inputs))
      /\ call' = Reading(cl, "batch")
      /\ UNCHANGED <<world, batch_active, sessions, fd, inputs, line, buffer, pos, returned>>
  BY DEF batch_sampling, portVars, resultVars
<1>2. /\ faults' \in 0..world.max_faults /\ faults \in Nat
      /\ faults' = 0 => faults = 0 /\ Flushed(unsent \o Polls(inputs))
  <2>1. faults \in 0..world.max_faults /\ world.max_faults \in Nat
    BY WorldsAssumption DEF SampledInv, World, PortInv, PortTypes
  <2> QED BY <1>1, <2>1 DEF Flushed, FlushFailed
<1>3. ASSUME faults' = 0, sessions = 1, batch_active, fd
      PROVE  /\ unsent' = << >> /\ call'.op # "open" /\ inputs' = Inputs
             /\ \E a \in (1..InputCount) \cup {InputCount} :
                   InTurn(a, InCircles)' /\ Taken(a)'
  <2>1. /\ unsent = << >> /\ inputs = Inputs
        /\ \E a \in (1..InputCount) \cup {InputCount} : InTurn(a, InCircles)
    BY <1>1, <1>2, <1>3 DEF SampledInv, Idle
  <2>2. PICK a \in (1..InputCount) \cup {InputCount} : InTurn(a, InCircles)
    BY <2>1
  <2>3. InputCount \in Nat \ {0} /\ a \in 1..InputCount
    <3>1. InputCount \in Nat /\ Inputs \in Seq(ToSet(Inputs))
      BY InputsAssumption, LenProperties DEF InputCount
    <3>2. PICK i \in DOMAIN Inputs : client[cl] = Inputs[i]
      BY <1>1 DEF Input, ToSet
    <3>3. i \in 1..InputCount
      BY <3>1, <3>2 DEF InputCount
    <3> QED BY <3>1, <3>3
  <2>4. Polls(Inputs) \in Seq(Sent)
    <3>1. \A i \in 1..InputCount : Poll(Inputs[i]) \in Sent
      BY SampleIsNoValue DEF Poll, Sent
    <3>2. Polls(Inputs) = [i \in 1..InputCount |-> Poll(Inputs[i])]
      BY InputsAssumption, LenProperties DEF Polls, InputCount
    <3> QED BY <2>3, <3>1, <3>2
  <2>5. polled' = polled \o Polls(Inputs) /\ unsent' = << >>
    <3>1. << >> \o Polls(Inputs) = Polls(Inputs)
      BY <2>4
    <3> QED BY <1>2, <1>3, <2>1, <3>1 DEF Flushed
  <2>6. InTurn(a, InCircles)'
    BY <1>1, <2>2, <2>3, <2>4, <2>5, SendInTurn, Orders, PollsFollow DEF WriteInv
  <2>7. call'.op = "batch" /\ call'.expected = InputCount
    BY <1>1, <2>1 DEF Reading, InputCount
  <2>8. Taken(a)'
    <3>1. \A q \in 1..InputCount : ~(Ago(q, a) < 0)
      BY <2>3 DEF Ago
    <3> QED BY <2>3, <2>7, <3>1 DEF Taken
  <2> QED BY <1>1, <2>1, <2>3, <2>5, <2>6, <2>7, <2>8
<1>4. fd
  BY <1>1, HolderHasPort, InputsAssumption DEF Input
<1> QED BY <1>1, <1>2, <1>3, <1>4 DEF SampledInv, SampledUnlessLost, OkMeansSampled
\* The device takes what was sent in its order.
LEMMA DeviceInTurn ==
    ASSUME PortInv, SampledInv, NewerInv, WriteInv, device_sets \/ device_answers
    PROVE  SampledInv'
<1>1. /\ polled # << >>
      /\ UNCHANGED <<world, batch_active, sessions, fd, inputs, unsent, buffer, pos, cache, call,
                     returned>>
  BY DEF device_sets, device_answers, worldVars, portVars, batchVars, resultVars
<1>2. \/ /\ polled' = Tail(polled) /\ faults' = faults
         /\ \/ Head(polled).of \in Outputs /\ line' = line
            \/ /\ Head(polled).of \in Input \cup {CONFIG, REST}
               /\ line' = IF fd THEN Append(line, Message(Head(polled).of, clock + 1)) ELSE line
      \/ faults < world.max_faults /\ faults' = faults + 1
  BY DEF device_sets, device_answers, Cut, worldVars
<1>3. faults' \in 0..world.max_faults /\ (faults' = 0 => faults' = faults)
  <2>1. faults \in 0..world.max_faults /\ world.max_faults \in Nat
    BY WorldsAssumption DEF SampledInv, World, PortInv, PortTypes
  <2> QED BY <1>2, <2>1
<1>4. SampledUnlessLost'
  BY <1>1, <1>3 DEF SampledInv, SampledUnlessLost, OkMeansSampled
<1> SUFFICES ASSUME faults' = 0, sessions = 1, batch_active, fd
             PROVE  IF call.op = "open" THEN Opening'
                    ELSE /\ inputs = Inputs
                         /\ \E a \in (1..InputCount) \cup {InputCount} :
                               InTurn(a, InCircles)' /\ Taken(a)'
  BY <1>1, <1>3, <1>4 DEF SampledInv
<1>5. /\ faults = 0 /\ polled' = Tail(polled)
      /\ \/ Head(polled).of \in Outputs /\ line' = line
         \/ /\ Head(polled).of \notin Outputs
            /\ \E m \in Sample : m.of = Head(polled).of /\ line' = Append(line, m)
  <2>1. faults = 0 /\ polled' = Tail(polled) /\ clock + 1 \in Nat
    BY <1>2, <1>3 DEF NewerInv, SampleTypes
  <2>2. CASE Head(polled).of \in Outputs
    BY <1>2, <1>3, <2>1, <2>2, OutputsAssumption DEF NewerInv
  <2>3. CASE Head(polled).of \notin Outputs
    <3>1. /\ Head(polled).of \in Input \cup {CONFIG, REST}
          /\ line' = Append(line, Message(Head(polled).of, clock + 1))
      BY <1>2, <1>3, <2>1, <2>3
    <3>2. /\ Message(Head(polled).of, clock + 1) \in Sample
          /\ Message(Head(polled).of, clock + 1).of = Head(polled).of
      BY <2>1, <3>1 DEF Message, Sample
    <3> QED BY <2>1, <2>3, <3>1, <3>2
  <2> QED BY <2>2, <2>3
<1>6. CASE call.op = "open"
  <2>1. Opening
    BY <1>1, <1>5, <1>6 DEF SampledInv
  <2>2. polled = <<Poll(CONFIG)>> /\ line = << >> /\ buffer = << >> /\ polled' = << >>
    <3>1. polled = <<Poll(CONFIG)>> /\ line = << >> /\ buffer = << >>
      BY <1>1, <2>1 DEF Opening
    <3>2. Tail(<<Poll(CONFIG)>>) = << >>
      OBVIOUS
    <3> QED BY <1>5, <3>1, <3>2
  <2>3. Head(polled).of = CONFIG /\ CONFIG \notin Outputs
    BY <2>2, OutputsAssumption DEF Poll
  <2>4. PICK m \in Sample : m.of = CONFIG /\ line' = Append(line, m)
    BY <1>5, <2>3
  <2>5. line' = <<m>>
    BY <2>2, <2>4
  <2> QED BY <1>1, <1>6, <2>2, <2>4, <2>5 DEF Opening
<1>7. CASE call.op # "open"
  <2>1. PICK a \in (1..InputCount) \cup {InputCount} : InTurn(a, InCircles) /\ Taken(a)
    BY <1>1, <1>5, <1>7 DEF SampledInv
  <2>2. a \in Nat /\ inputs = Inputs
    BY <1>1, <1>5, <1>7, InputsAssumption, LenProperties DEF InputCount, SampledInv
  <2>3. InTurn(a, InCircles)'
    BY <1>1, <1>5, <2>1, <2>2, GiveInTurn, Orders DEF WriteInv, NewerInv
  <2>4. Taken(a)'
    BY <1>1, <2>1 DEF Taken
  <2> QED BY <1>7, <2>2, <2>3, <2>4
<1> QED BY <1>6, <1>7

\* Without faults nothing is torn.
LEMMA NothingTorn ==
    ASSUME SampledInv, WriteInv, device_misunderstands
    PROVE  ~(faults = 0 /\ sessions = 1 /\ batch_active /\ fd)
<1>1. Len(polled) > 1 /\ Head(polled).of = TORN
  BY DEF device_misunderstands
<1>2. polled \in Seq(Sent) /\ polled # << >>
  BY <1>1 DEF WriteInv, WriteTypes
<1>3. Head(polled) = polled[1] /\ polled[1].of = TORN /\ 0 < Len(polled)
  BY <1>1, <1>2, TailIndices
<1>4. TORN \notin Outputs /\ TORN \notin Input
  BY OutputsAssumption, MessagesAssumption
<1>5. \A a, b \in Nat : ~Follow(polled, 0, a, b, InCircles)
  <2> SUFFICES ASSUME NEW a \in Nat, NEW b \in Nat, Follow(polled, 0, a, b, InCircles)
               PROVE  FALSE
    OBVIOUS
  <2>1. 0 + 1 = 1 /\ 0 \in Nat
    OBVIOUS
  <2>2. \/ polled[0 + 1].of \in Outputs
        \/ \E d \in Nat : <<a, d>> \in InCircles.next /\ polled[0 + 1].of = Inputs[d]
    <3>1. IsOrder(InCircles)
      BY Orders
    <3>2. polled \in Seq(Sent) /\ 0 < Len(polled)
      BY <1>2, <1>3
    <3>3. \/ polled[0 + 1].of \in Outputs /\ Follow(polled, 0 + 1, a, b, InCircles)
          \/ \E c \in Nat : /\ <<a, c>> \in InCircles.next /\ polled[0 + 1].of = Inputs[c]
                            /\ Follow(polled, 0 + 1, c, b, InCircles)
      BY <2>1, <3>1, <3>2, FollowNext
    <3> QED BY <3>3
  <2>3. PICK d \in Nat : <<a, d>> \in InCircles.next /\ TORN = Inputs[d]
    BY <1>3, <1>4, <2>1, <2>2
  <2>4. d \in 1..InputCount
    BY <2>3, Orders DEF IsOrder
  <2> QED BY <1>4, <2>3, <2>4, SampleIsNoValue
<1> QED
  <2> SUFFICES ASSUME faults = 0, sessions = 1, batch_active, fd PROVE FALSE
    OBVIOUS
  <2>1. ~Opening
    <3>1. Len(<<Poll(CONFIG)>>) = 1 /\ Len(<< >>) = 0
      OBVIOUS
    <3> SUFFICES ASSUME Opening PROVE FALSE
      OBVIOUS
    <3>2. CASE polled = <<Poll(CONFIG)>>
      BY <1>1, <3>1, <3>2
    <3>3. CASE polled = << >>
      BY <1>1, <3>1, <3>3
    <3> QED BY <3>2, <3>3 DEF Opening
  <2>2. \A a \in Nat : ~InTurn(a, InCircles)
    <3>1. InputCount \in Nat
      BY InputsAssumption, LenProperties DEF InputCount
    <3> QED BY <1>5, <3>1 DEF InTurn
  <2>3. \A a \in (1..InputCount) \cup {InputCount} : a \in Nat
    BY InputsAssumption, LenProperties DEF InputCount
  <2> QED BY <2>1, <2>2, <2>3 DEF SampledInv

LEMMA device_misunderstandsSampled ==
    ASSUME SampledInv, WriteInv, device_misunderstands
    PROVE  SampledInv'
<1>1. UNCHANGED <<world, batch_active, faults, sessions, fd, call, returned>>
  BY DEF device_misunderstands, worldVars, portVars, resultVars
<1> QED BY <1>1, NothingTorn DEF SampledInv, SampledUnlessLost, OkMeansSampled

\* A value between the polls does not change their order.
LEMMA writeSampled ==
    ASSUME PortInv, NewerInv, WriteInv, SampledInv, NEW cl \in Client, NEW value \in {0, 1},
           write(cl, value)
    PROVE  SampledInv'
<1> SUFFICES ASSUME NEW w, w = client[cl], NEW p, p = Value(w, value) PROVE SampledInv'
  OBVIOUS
<1>1. /\ call = Idle /\ w \in Outputs
      /\ UNCHANGED <<world, batch_active, sessions, fd, inputs, line, buffer, pos, cache, call,
                     returned>>
      /\ Flushed(Append(unsent, p)) \/ FlushFailed(Append(unsent, p))
  BY DEF write, portVars, batchVars, resultVars
<1>2. /\ faults' \in 0..world.max_faults /\ faults \in Nat
      /\ faults' = 0 => faults = 0 /\ Flushed(Append(unsent, p))
  <2>1. faults \in 0..world.max_faults /\ world.max_faults \in Nat
    BY WorldsAssumption DEF SampledInv, World, PortInv, PortTypes
  <2> QED BY <1>1, <2>1 DEF Flushed, FlushFailed
<1>3. ASSUME faults' = 0, sessions = 1, batch_active, fd
      PROVE  /\ unsent' = << >> /\ call'.op # "open" /\ inputs' = Inputs
             /\ \E a \in (1..InputCount) \cup {InputCount} :
                   InTurn(a, InCircles)' /\ Taken(a)'
  <2>1. /\ unsent = << >> /\ inputs = Inputs /\ call.op # "open"
        /\ \E a \in (1..InputCount) \cup {InputCount} : InTurn(a, InCircles) /\ Taken(a)
    BY <1>1, <1>2, <1>3 DEF SampledInv, Idle
  <2>2. PICK a \in (1..InputCount) \cup {InputCount} : InTurn(a, InCircles) /\ Taken(a)
    BY <2>1
  <2>3. InputCount \in Nat /\ a \in Nat
    BY InputsAssumption, LenProperties DEF InputCount
  <2>4. p \in Sent /\ p.of \in Outputs
    BY <1>1 DEF Value, Sent
  <2>5. <<p>> \in Seq(Sent) /\ Follow(<<p>>, 0, InputCount, InputCount, InCircles)
    <3>1. <<p>> \in Seq(Sent)
      BY <2>4
    <3>2. IsOrder(InCircles)
      BY Orders
    <3> QED BY <2>3, <2>4, <3>1, <3>2, FollowOne
  <2>6. polled' = polled \o <<p>> /\ unsent' = << >>
    BY <1>2, <1>3, <2>1 DEF Flushed
  <2>7. InTurn(a, InCircles)'
    BY <1>1, <2>2, <2>3, <2>5, <2>6, SendInTurn, Orders DEF WriteInv
  <2>8. Taken(a)'
    BY <1>1, <2>2 DEF Taken
  <2> QED BY <1>1, <2>1, <2>6, <2>7, <2>8
<1> QED BY <1>1, <1>2, <1>3 DEF SampledInv, SampledUnlessLost, OkMeansSampled

\* An answer was taken after the clock was started.
LEMMA AnswerIsASample ==
    ASSUME NewerInv, sessions <= 1, Ready, TakeAnswer, NEW i \in Input
    PROVE  NextAnswer.at \in Nat /\ NextAnswer.at > 0
<1>1. NextAnswer \in Sample /\ Newer(NextAnswer.at)
  BY TakesOldest DEF NewerInv, Ordered
<1>2. last[i] \in Nat /\ last[i] < NextAnswer.at
  BY <1>1 DEF Newer, NewerInv, SampleTypes
<1> QED BY <1>1, <1>2 DEF Sample

\* An answer to a single read.
LEMMA read_answerSampled ==
    ASSUME NewerInv, WholeInv, SampledInv, read_answer
    PROVE  SampledInv'
<1>1. /\ call.op = "read" /\ Ready /\ TakeAnswer
      /\ UNCHANGED <<world, batch_active, faults, sessions>>
      /\ \E m \in ReadAs(NextAnswer) :
            Returns("OK", call.of, m.at, call.since) \/ Returns("ECHRNG", call.of, 0, call.since)
  BY DEF read_answer, worldVars, portVars
<1>2. ~batch_active /\ call.of \in Input
  BY <1>1 DEF NewerInv, ReadsAnInput
<1>3. SampledUnlessLost'
  <2> SUFFICES ASSUME faults = 0, sessions = 1, returned'.status = "OK" PROVE returned'.at > 0
    BY <1>1 DEF SampledUnlessLost, OkMeansSampled
  <2>1. ReadAs(NextAnswer) = {NextAnswer}
    BY <1>1, NothingCut DEF NewerInv, SampleTypes
  <2>2. returned'.at = NextAnswer.at
    BY <1>1, <2>1 DEF Returns
  <2>3. NextAnswer.at > 0
    BY <1>1, <1>2, AnswerIsASample
  <2> QED BY <2>2, <2>3
<1>4. call'.op # "batch"
  BY DEF read_answer, Idle
<1> QED BY <1>1, <1>2, <1>3, <1>4 DEF SampledInv

\* One more answer of a batch: the input it is of has a sample, like those before it.
LEMMA TakenGoesOn ==
    ASSUME NEW a \in 1..InputCount, NEW d \in 1..InputCount, <<a, d>> \in InCircles.next,
           NEW expected \in 1..InputCount, NEW c, c[Inputs[d]] # 0,
           \A q \in 1..InputCount : Ago(q, a) < InputCount - expected => c[Inputs[q]] # 0
    PROVE  \A q \in 1..InputCount : Ago(q, d) < InputCount - (expected - 1) => c[Inputs[q]] # 0
<1> SUFFICES ASSUME NEW q \in 1..InputCount, Ago(q, d) < InputCount - (expected - 1)
             PROVE  c[Inputs[q]] # 0
  OBVIOUS
<1>1. InputCount \in Nat /\ d = IF a = InputCount THEN 1 ELSE a + 1
  BY InputsAssumption, LenProperties DEF InputCount, InCircles
<1>2. CASE q = d
  BY <1>2
<1>3. CASE q # d
  <2>1. Ago(q, a) = Ago(q, d) - 1
    BY <1>1, <1>3 DEF Ago
  <2>2. Ago(q, d) \in Int /\ expected \in Int
    BY <1>1 DEF Ago
  <2>3. Ago(q, a) < InputCount - expected
    BY <1>1, <2>1, <2>2
  <2> QED BY <2>3
<1> QED BY <1>2, <1>3

\* An answer of a batch, and the end of the batch.
LEMMA batch_answerSampled ==
    ASSUME PortInv, NewerInv, WholeInv, WholeInv', SampledInv, batch_answer
    PROVE  SampledInv'
<1>0. PICK m \in ReadAs(NextAnswer) :
         LET c == IF m.of \in Input THEN [cache EXCEPT ![m.of] = m.at] ELSE cache
         IN  IF call.expected > 1
             THEN /\ call' = [call EXCEPT !.expected = @ - 1]
                  /\ cache' = c /\ UNCHANGED resultVars
             ELSE call' = Idle /\ deliver(call.of, c, call.since)
  BY DEF batch_answer
<1> DEFINE c == IF m.of \in Input THEN [cache EXCEPT ![m.of] = m.at] ELSE cache
<1>1. /\ call.op = "batch" /\ call # Idle /\ Ready /\ TakeAnswer
      /\ UNCHANGED <<world, batch_active, faults, sessions, fd, inputs, unsent, polled>>
  BY DEF batch_answer, worldVars, portVars, Idle
<1>2. /\ call.expected > 1 => /\ call' = [call EXCEPT !.expected = @ - 1]
                              /\ cache' = c /\ UNCHANGED resultVars
      /\ ~(call.expected > 1) => call' = Idle /\ deliver(call.of, c, call.since)
  BY <1>0
<1>3. call.of \in Input /\ batch_active
  BY <1>1 DEF NewerInv, ReadsAnInput
<1>4. call'.op # "open" /\ (call.expected > 1 => call'.op = "batch" /\ call'.expected = call.expected - 1)
  <2>1. CASE call.expected > 1
    BY <1>1, <1>2, <2>1 DEF PortInv, CallIsRecord
  <2>2. CASE ~(call.expected > 1)
    BY <1>2, <2>2 DEF Idle
  <2> QED BY <2>1, <2>2
<1>5. ASSUME faults = 0, sessions = 1, fd
      PROVE  \E d \in 1..InputCount :
                /\ InTurn(d, InCircles)' /\ inputs = Inputs /\ unsent = << >>
                /\ call.expected \in 1..InputCount
                /\ \A q \in 1..InputCount :
                      Ago(q, d) < InputCount - (call.expected - 1) => c[Inputs[q]] # 0
  <2>1. PICK a \in (1..InputCount) \cup {InputCount} : InTurn(a, InCircles) /\ Taken(a)
    BY <1>1, <1>3, <1>5 DEF SampledInv
  <2>2. call.expected \in 1..InputCount
    BY <1>1, <2>1 DEF Taken
  <2>3. InputCount \in Nat /\ a \in 1..InputCount /\ a \in Nat
    BY <2>2, InputsAssumption, LenProperties DEF InputCount
  <2>4. PICK d \in 1..InputCount :
           <<a, d>> \in InCircles.next /\ NextAnswer.of = Inputs[d] /\ InTurn(d, InCircles)'
    BY <1>1, <1>5, <2>1, <2>3, TakeInTurn, Orders DEF NewerInv
  <2>10. m = NextAnswer
    BY <1>1, <1>5, NothingCut DEF NewerInv, SampleTypes
  <2>5. m.of \in Input /\ Inputs[d] \in Input
    BY <2>4, <2>10, SampleIsNoValue
  <2>6. m.at \in Nat /\ m.at > 0
    BY <1>1, <1>5, <2>5, <2>10, AnswerIsASample
  <2>7. c[Inputs[d]] # 0 /\ \A q \in 1..InputCount : cache[Inputs[q]] # 0 => c[Inputs[q]] # 0
    BY <2>4, <2>5, <2>6, <2>10, SampleIsNoValue DEF NewerInv, SampleTypes
  <2>8. \A q \in 1..InputCount : Ago(q, a) < InputCount - call.expected => c[Inputs[q]] # 0
    BY <1>1, <2>1, <2>7 DEF Taken
  <2> HIDE DEF c
  <2>9. \A q \in 1..InputCount : Ago(q, d) < InputCount - (call.expected - 1) => c[Inputs[q]] # 0
    BY <2>2, <2>3, <2>4, <2>7, <2>8, TakenGoesOn
  <2> QED BY <1>1, <1>3, <1>5, <2>2, <2>4, <2>9 DEF SampledInv
<1> HIDE DEF c
<1>6. ASSUME faults = 0, sessions = 1, fd
      PROVE  /\ unsent' = << >> /\ inputs' = Inputs
             /\ \E a \in (1..InputCount) \cup {InputCount} : InTurn(a, InCircles)' /\ Taken(a)'
  <2>1. PICK d \in 1..InputCount :
                /\ InTurn(d, InCircles)' /\ inputs = Inputs /\ unsent = << >>
                /\ call.expected \in 1..InputCount
                /\ \A q \in 1..InputCount :
                      Ago(q, d) < InputCount - (call.expected - 1) => c[Inputs[q]] # 0
    BY <1>5, <1>6
  <2>2. Taken(d)'
    <3>1. CASE call.expected > 1
      <4>1. InputCount \in Nat
        BY InputsAssumption, LenProperties DEF InputCount
      <4>2. /\ cache' = c /\ call'.expected = call.expected - 1
            /\ call'.expected \in 1..InputCount
        BY <1>2, <1>4, <2>1, <3>1, <4>1
      <4>3. \A q \in 1..InputCount :
               Ago(q, d) < InputCount - call'.expected => cache'[Inputs[q]] # 0
        BY <2>1, <4>2
      <4> QED BY <4>2, <4>3 DEF Taken, Ago, InputCount
    <3>2. CASE ~(call.expected > 1)
      BY <1>2, <3>2 DEF Taken, Idle
    <3> QED BY <3>1, <3>2
  <2> QED BY <1>1, <2>1, <2>2
<1>7. SampledUnlessLost'
  <2>1. CASE call.expected > 1
    BY <1>1, <1>2, <2>1 DEF resultVars, SampledInv, SampledUnlessLost, OkMeansSampled
  <2>2. CASE ~(call.expected > 1)
    <3> SUFFICES ASSUME faults = 0, sessions = 1 PROVE returned'.at > 0
      BY <1>1 DEF SampledUnlessLost, OkMeansSampled
    <3>1. returned'.at = c[call.of]
      BY <1>2, <2>2 DEF deliver, Returns
    <3>2. c[call.of] \in Nat
      <4>1. cache \in [Input -> Nat] /\ NextAnswer.at \in Nat /\ m = NextAnswer
        BY <1>1, <1>3, NothingCut, AnswerIsASample DEF WholeInv, WholeSamples, NewerInv, SampleTypes
      <4> QED BY <1>3, <4>1 DEF c
    <3>3. c[call.of] # 0
      <4>1. fd
        BY <1>1 DEF SampledInv
      <4>2. PICK d \in 1..InputCount :
                /\ call.expected \in 1..InputCount
                /\ \A q \in 1..InputCount :
                      Ago(q, d) < InputCount - (call.expected - 1) => c[Inputs[q]] # 0
        BY <1>5, <4>1
      <4>3. InputCount \in Nat /\ call.expected = 1
        BY <2>2, <4>2, InputsAssumption, LenProperties DEF InputCount
      <4>4. PICK q \in 1..InputCount : call.of = Inputs[q]
        <5>1. PICK q \in DOMAIN Inputs : call.of = Inputs[q]
          BY <1>3 DEF Input, ToSet
        <5>2. q \in 1..InputCount
          BY <5>1, InputsAssumption DEF InputCount
        <5> QED BY <5>1, <5>2
      <4>5. Ago(q, d) < InputCount
        BY <4>3 DEF Ago
      <4>6. InputCount - (call.expected - 1) = InputCount
        BY <4>3
      <4> QED BY <4>2, <4>4, <4>5, <4>6
    <3> QED BY <3>1, <3>2, <3>3
  <2> QED BY <2>1, <2>2
<1> QED BY <1>1, <1>3, <1>4, <1>6, <1>7 DEF SampledInv

\* A timeout that is no fault cuts nothing.
LEMMA TimeoutFaults ==
    ASSUME PortInv, SampledInv, TimedOut
    PROVE  faults' \in 0..world.max_faults /\ (faults' = 0 => faults = 0)
<1>1. faults \in 0..world.max_faults /\ world.max_faults \in Nat
  BY WorldsAssumption DEF SampledInv, World, PortInv, PortTypes
<1>2. faults' = faults \/ (faults < world.max_faults /\ faults' = faults + 1)
  BY DEF TimedOut, Cut
<1> QED BY <1>1, <1>2

\* Every step keeps the invariant.
LEMMA SampledStep ==
    PortInv /\ NewerInv /\ WriteInv /\ WholeInv /\ WholeInv' /\ SampledInv /\ [Next]_vars
       => SampledInv'
<1> SUFFICES ASSUME PortInv, NewerInv, WriteInv, WholeInv, WholeInv', SampledInv, [Next]_vars
             PROVE  SampledInv'
  OBVIOUS
<1>0. SampleTypes
  BY DEF NewerInv
<1>1. ASSUME NEW cl \in Client, NEW i \in world.mapped, open_port(cl, i) PROVE SampledInv'
  BY <1>1, open_portSampled
<1>2. ASSUME NEW cl \in Client, NEW i \in world.mapped, channel_open(cl, i) PROVE SampledInv'
  <2>1. SampledUnlessLost'
    BY <1>2 DEF channel_open, worldVars, resultVars, SampledInv, SampledUnlessLost, OkMeansSampled
  <2>2. call' = call /\ call'.op # "batch"
    BY <1>2 DEF channel_open, Idle
  <2> QED BY <1>0, <1>2, <2>1, <2>2, SampledFrame DEF channel_open, worldVars, ioVars, batchVars
<1>3. ASSUME NEW cl \in Client, channel_close(cl) PROVE SampledInv'
  <2>1. fd /\ client[cl] # NULL
    BY <1>3, HolderHasPort DEF channel_close
  <2>2. SampledUnlessLost'
    BY <1>3 DEF channel_close, worldVars, resultVars, SampledInv, SampledUnlessLost, OkMeansSampled
  <2>3. call' = call /\ call'.op # "batch"
    BY <1>3 DEF channel_close, Idle
  <2> QED BY <1>0, <1>3, <2>1, <2>2, <2>3, SampledFrame DEF channel_close, worldVars, ioVars, batchVars
<1>4. ASSUME NEW cl \in Client, read(cl) PROVE SampledInv'
  <2>1. /\ ~batch_active /\ UNCHANGED <<world, batch_active, sessions>>
        /\ \/ faults' = faults /\ returned' = returned
           \/ faults < world.max_faults /\ faults' = faults + 1 /\ returned'.status = "EIO"
    BY <1>4 DEF read, portVars, resultVars, Flushed, FlushFailed, Returns
  <2>2. faults' \in 0..world.max_faults
    BY <2>1, WorldsAssumption DEF SampledInv, World, PortInv, PortTypes
  <2>3. SampledUnlessLost'
    BY <2>1 DEF SampledInv, SampledUnlessLost, OkMeansSampled
  <2>4. call'.op # "batch"
    BY <1>4 DEF read, Reading, Idle
  <2> QED BY <2>1, <2>2, <2>3, <2>4 DEF SampledInv
<1>5. ASSUME NEW cl \in Client, batch_hit(cl) PROVE SampledInv'
  <2>1. /\ client[cl] \in Input /\ cache[client[cl]] # 0 /\ call = Idle /\ call' = call
        /\ returned'.at = cache[client[cl]] /\ faults' = faults
    BY <1>5 DEF batch_hit, deliver, Returns, Expired, worldVars
  <2>2. faults = 0 => returned'.at > 0
    BY <2>1 DEF WholeInv, WholeSamples
  <2>3. SampledUnlessLost' /\ call'.op # "batch"
    BY <2>1, <2>2 DEF SampledUnlessLost, OkMeansSampled, Idle
  <2> QED BY <1>0, <1>5, <2>3, SampledFrame DEF batch_hit, worldVars, portVars, ioVars
<1>6. ASSUME NEW cl \in Client, batch_sampling(cl) PROVE SampledInv'
  BY <1>6, batch_samplingSampled
<1>7. ASSUME NEW cl \in Client, NEW value \in {0, 1}, write(cl, value) PROVE SampledInv'
  BY <1>7, writeSampled
<1>8. CASE read_config
  BY <1>8, read_configSampled
<1>9. CASE read_config_fails
  <2>1. /\ TimedOut /\ ~fd' /\ call'.op # "batch"
        /\ UNCHANGED <<world, sessions, batch_active, returned>>
    BY <1>9 DEF read_config_fails, Idle, resultVars
  <2>2. faults' \in 0..world.max_faults /\ (faults' = 0 => faults = 0)
    BY <2>1, TimeoutFaults
  <2> QED BY <2>1, <2>2 DEF SampledInv, SampledUnlessLost, OkMeansSampled
<1>10. CASE read_answer
  BY <1>10, read_answerSampled
<1>11. CASE read_fails
  <2>1. /\ TimedOut /\ call' = Idle /\ call.op # "open" /\ returned'.status = "ETIMEDOUT"
        /\ UNCHANGED <<world, sessions, batch_active, fd, inputs, cache>>
    BY <1>11 DEF read_fails, Returns, portVars, batchVars
  <2>2. SampledUnlessLost'
    BY <2>1 DEF SampledUnlessLost, OkMeansSampled
  <2>3. call'.op # "batch"
    BY <2>1 DEF Idle
  <2>4. faults' \in 0..world.max_faults /\ (faults' = 0 => faults = 0)
    BY <2>1, TimeoutFaults
  <2>5. CASE faults' = 0
    <3>1. /\ UNCHANGED <<faults, polled, buffer, unsent, line>> /\ ~Buffered
          /\ pos' = pos + 1
      BY <1>0, <2>1, <2>4, <2>5, NothingCut DEF TimedOut, Cut, Ready, SampleTypes
    <3> QED BY <1>0, <2>1, <2>2, <2>3, <3>1, SampledFrame
  <2>6. CASE faults' # 0
    BY <2>1, <2>2, <2>3, <2>4, <2>6 DEF SampledInv
  <2> QED BY <2>5, <2>6
<1>16. CASE read_rest
  <2>1. /\ Ready /\ NextAnswer.of = REST /\ UNCHANGED <<world, sessions, batch_active, faults, fd>>
        /\ call' = call \/ call' = Idle
        /\ UNCHANGED returned \/ returned'.status = "EINVAL"
    BY <1>16 DEF read_rest, worldVars, portVars, resultVars, Returns
  <2>2. faults # 0
    BY <1>0, <2>1, NothingCut DEF SampleTypes
  <2>3. call'.op = "batch" => fd'
    BY <2>1 DEF SampledInv, Idle
  <2> QED BY <2>1, <2>2, <2>3 DEF SampledInv, SampledUnlessLost
<1>12. CASE batch_answer
  BY <1>12, batch_answerSampled
<1>13. CASE device_answers \/ device_sets
  BY <1>13, DeviceInTurn
<1>14. CASE device_misunderstands
  BY <1>14, device_misunderstandsSampled
<1>15. CASE tick \/ UNCHANGED vars
  <2>1. /\ UNCHANGED <<world, faults, sessions, batch_active, unsent, buffer, line, polled, inputs>>
        /\ UNCHANGED <<fd, pos, cache, call, returned>>
    BY <1>15 DEF tick, vars, worldVars, portVars, ioVars, batchVars, resultVars
  <2>2. SampledUnlessLost'
    BY <2>1 DEF SampledInv, SampledUnlessLost, OkMeansSampled
  <2> QED BY <1>0, <2>1, <2>2, SampledFrame DEF SampledInv
<1> QED
  BY <1>1, <1>2, <1>3, <1>4, <1>5, <1>6, <1>7, <1>8, <1>9, <1>10, <1>11, <1>12, <1>13, <1>14, <1>15,
     <1>16
     DEF Next, HostStep

\* SampledUnlessLost of the run, for any number of clients, inputs and writes: a read
\* that returns OK has a sample, also in batches that begin with late answers of a
\* batch that timed out between two answers, unless one was lost or cut by a timeout
\* inside it, or the port was opened again.
THEOREM SampledCorrect == Spec => []SampledUnlessLost
<1>1. SampledInv => SampledUnlessLost
  BY DEF SampledInv
<1> QED
  BY <1>1, PortInit, PortStep, NewerInit, NewerStep, WriteInit, WriteStep, WholeInit, WholeStep,
     SampledInit, SampledStep, PTL DEF Spec

-----------------------------------------------------------------------------
(* Without faults a batch returns its own samples *)

\* What is not read yet was taken after t.
Later(t) ==
    /\ \A j \in UnreadInBuffer : buffer[j].at > t
    /\ \A k \in UnreadInLine : line[k].at > t

\* Between batches nothing is under way but values; in a batch just the answers it
\* waits for, which were taken after it began.
BatchUnderWay ==
    /\ call = Idle => AllTaken /\ NothingAsked
    /\ call.op = "batch" =>
          /\ call.expected \in 1..InputCount
          /\ InTurn(InputCount - call.expected, InOneGo)
          /\ Later(call.since)

\* The batch stays valid as long as it took.
BatchEnded ==
    /\ call.since \in Nat /\ call.since <= clock /\ began \in Nat
    /\ \E ended \in began..clock : expires = ended + (ended - began)

\* What is kept was taken in the batch that goes on, or in the last one.
KeptIsOfBatch ==
    \A i \in Input : cache[i] = 0 \/ cache[i] > (IF call.op = "batch" THEN call.since ELSE began)

ReturnedOfBatch ==
    returned.status = "OK" => returned.at > began /\ returned.since <= expires

\* BatchFresh says of the sample that was returned when its batch began; that the next
\* one will be of its batch too is in what is kept and what is under way.
BatchInv ==
    /\ BatchEnded
    /\ Faultless /\ sessions <= 1 /\ batch_active =>
          KeptIsOfBatch /\ ReturnedOfBatch /\ (fd => BatchUnderWay)

LEMMA BatchInit == Init => BatchInv
<1> SUFFICES ASSUME Init PROVE BatchInv
  OBVIOUS
<1>1. clock = 1 /\ expires = 0 /\ began = 0 /\ call.since = 0 /\ call.op = "none" /\ ~fd
  BY DEF Init, Idle
<1>2. BatchEnded
  <2>1. 0 \in 0..1 /\ 0 = 0 + (0 - 0)
    OBVIOUS
  <2> QED BY <1>1, <2>1 DEF BatchEnded
<1>3. KeptIsOfBatch /\ ReturnedOfBatch
  BY DEF Init, KeptIsOfBatch, ReturnedOfBatch
<1> QED BY <1>1, <1>2, <1>3 DEF BatchInv

\* Where there are no faults SampledInv speaks of every session that has the port.
LEMMA NoFaultYet ==
    ASSUME PortInv, NewerInv, SampledInv, Faultless
    PROVE  faults = 0 /\ (fd /\ sessions <= 1 => sessions = 1)
<1>1. faults = 0
  BY DEF SampledInv, Faultless
<1>2. sessions = 0 => ~fd
  BY DEF NewerInv, NothingBefore, PortInv, PortTypes, PortOpenWhileUsed, Idle
<1> QED BY <1>1, <1>2 DEF NewerInv, SampleTypes

\* Behind the last input no poll follows in one go.
LEMMA FollowLast ==
    ASSUME NEW S, NEW q \in Seq(S), NEW k \in Nat, k <= Len(q), NEW b \in Nat,
           NEW a \in Nat, Follow(q, k, a, b, InOneGo)
    PROVE  /\ a <= b
           /\ a = b => \A j \in (k + 1)..Len(q) : q[j].of \in Outputs
<1>1. Len(q) \in Nat /\ k \in k..Len(q) /\ Len(q) \in k..Len(q)
  BY LenProperties
<1>2. PICK at \in [k..Len(q) -> Nat] :
         /\ at[k] = a /\ at[Len(q)] = b
         /\ \A i, j \in k..Len(q) : i <= j => <<at[i], at[j]>> \in InOneGo.upto
         /\ \A j \in (k + 1)..Len(q) :
               \/ q[j].of \in Outputs /\ at[j] = at[j - 1]
               \/ q[j].of = Inputs[at[j]] /\ <<at[j - 1], at[j]>> \in InOneGo.next
  BY DEF Follow
<1>3. \A i, j \in k..Len(q) : i <= j => at[i] <= at[j]
  BY <1>2 DEF InOneGo
<1>4. a <= b
  BY <1>1, <1>2, <1>3
<1>5. ASSUME a = b, NEW j \in (k + 1)..Len(q) PROVE q[j].of \in Outputs
  <2>1. /\ j \in k..Len(q) /\ j - 1 \in k..Len(q)
        /\ k <= j /\ j <= Len(q) /\ k <= j - 1 /\ j - 1 <= Len(q)
    BY <1>1
  <2>2. /\ at[k] <= at[j] /\ at[j] <= at[Len(q)]
        /\ at[k] <= at[j - 1] /\ at[j - 1] <= at[Len(q)]
    BY <1>1, <1>3, <2>1
  <2>3. at[j] \in Nat /\ at[j - 1] \in Nat
    BY <1>2, <2>1
  <2>4. at[j] = at[j - 1]
    BY <1>2, <1>5, <2>2, <2>3
  <2>5. <<at[j - 1], at[j]>> \notin InOneGo.next
    BY <2>3, <2>4 DEF InOneGo
  <2> QED BY <1>2, <2>5
<1> QED BY <1>4, <1>5

\* When all answers of a batch are taken nothing is under way.
LEMMA LastInTurn ==
    ASSUME NEW q \in Seq(Sample), NEW k \in Nat, NEW r \in Seq(Sample), NEW s \in Seq(Sent),
           NEW b \in Nat, NEW c \in Nat,
           IF k < Len(q) THEN Follow(q, k, InputCount, b, InOneGo) ELSE InputCount = b,
           Follow(r, 0, b, c, InOneGo), Follow(s, 0, c, InputCount, InOneGo)
    PROVE  k >= Len(q) /\ r = << >> /\ OnlyValues(s)
<1>1. InputCount \in Nat /\ 0 \in Nat
  BY InputsAssumption, LenProperties DEF InputCount
<1>2. Len(r) \in Nat /\ Len(q) \in Nat /\ Len(s) \in Nat
  BY LenProperties
<1>3. InputCount <= b
  BY <1>1, <1>2, FollowLast
<1>4. b <= c /\ (b = c => \A j \in (0 + 1)..Len(r) : r[j].of \in Outputs)
  BY <1>1, <1>2, FollowLast
<1>5. /\ c <= InputCount
      /\ c = InputCount => \A j \in (0 + 1)..Len(s) : s[j].of \in Outputs
  BY <1>1, <1>2, FollowLast
<1>6. b = InputCount /\ c = InputCount
  BY <1>1, <1>3, <1>4, <1>5
<1>7. r = << >>
  <2> SUFFICES ASSUME r # << >> PROVE FALSE
    OBVIOUS
  <2>1. 1 \in (0 + 1)..Len(r) /\ 1 \in 1..Len(r)
    BY <1>2, EmptySeq
  <2> QED BY <1>4, <1>6, <2>1, SampleIsNoValue
<1>8. k >= Len(q)
  <2> SUFFICES ASSUME k < Len(q) PROVE FALSE
    BY <1>2
  <2>1. k + 1 \in (k + 1)..Len(q) /\ k + 1 \in 1..Len(q) /\ k <= Len(q)
    BY <1>2
  <2>2. q[k + 1].of \in Outputs
    BY <1>1, <1>6, <2>1, FollowLast
  <2> QED BY <2>1, <2>2, SampleIsNoValue
<1>9. OnlyValues(s)
  BY <1>5, <1>6 DEF OnlyValues
<1> QED BY <1>7, <1>8, <1>9

\* Values ask for nothing.
LEMMA FollowValues ==
    ASSUME NEW order, IsOrder(order), NEW q \in Seq(Sent), OnlyValues(q), NEW a \in Nat
    PROVE  Follow(q, 0, a, a, order)
<1>1. Len(q) \in Nat
  BY LenProperties
<1> DEFINE at == [i \in 0..Len(q) |-> a]
<1>2. /\ at \in [0..Len(q) -> Nat] /\ at[0] = a /\ at[Len(q)] = a
      /\ \A i \in 0..Len(q) : at[i] = a
  BY <1>1
<1> HIDE DEF at
<1>3. \A i, j \in 0..Len(q) : i <= j => <<at[i], at[j]>> \in order.upto
  BY <1>2 DEF IsOrder
<1>4. \A j \in (0 + 1)..Len(q) : q[j].of \in Outputs /\ at[j] = at[j - 1]
  <2> SUFFICES ASSUME NEW j \in (0 + 1)..Len(q) PROVE q[j].of \in Outputs /\ at[j] = at[j - 1]
    OBVIOUS
  <2>1. j \in 1..Len(q) /\ j \in 0..Len(q) /\ j - 1 \in 0..Len(q)
    BY <1>1
  <2> QED BY <1>2, <2>1 DEF OnlyValues
<1> QED BY <1>2, <1>3, <1>4 DEF Follow

\* What is left when an answer is taken.
LEMMA TakesLater ==
    ASSUME SampleTypes, Ready, TakeAnswer, NEW t \in Nat, Later(t)
    PROVE  NextAnswer.at > t /\ Later(t)'
<1>1. CASE Buffered
  <2>1. pos' = pos + 1 /\ buffer' = buffer /\ line' = line
    BY <1>1 DEF TakeAnswer
  <2>2. NextAnswer = buffer[pos + 1] /\ pos + 1 \in UnreadInBuffer
    BY <1>1 DEF NextAnswer, Buffered, UnreadInBuffer, SampleTypes
  <2>3. UnreadInBuffer' \subseteq UnreadInBuffer /\ UnreadInLine' = UnreadInLine
    BY <2>1 DEF UnreadInBuffer, UnreadInLine, SampleTypes
  <2> QED BY <2>1, <2>2, <2>3 DEF Later
<1>2. CASE ~Buffered
  <2>1. /\ pos' = 1 /\ buffer' = line /\ line' = << >> /\ line # << >>
        /\ NextAnswer.at = Head(line).at
    BY <1>2 DEF TakeAnswer, Ready, NextAnswer, Message
  <2>2. 1 \in UnreadInLine /\ NextAnswer.at = line[1].at
    BY <2>1 DEF UnreadInLine, SampleTypes
  <2>3. UnreadInBuffer' \subseteq UnreadInLine /\ UnreadInLine' = {}
    BY <2>1 DEF UnreadInBuffer, UnreadInLine, SampleTypes
  <2> QED BY <2>1, <2>2, <2>3 DEF Later
<1> QED BY <1>1, <1>2

\* A step of nobody who waits for an answer, and that sends nothing.
LEMMA BatchKept ==
    ASSUME BatchInv, UNCHANGED <<world, batch_active, sessions, buffer, pos, line, polled, call,
                                 began, expires, cache, returned>>,
           clock \in Nat, clock' \in Nat, clock <= clock', fd' => fd
    PROVE  BatchInv'
<1>1. BatchEnded'
  <2>1. PICK ended \in began..clock : expires = ended + (ended - began)
    BY DEF BatchInv, BatchEnded
  <2>2. ended \in began..clock' /\ began \in Nat
    BY <2>1 DEF BatchInv, BatchEnded
  <2> QED BY <2>1, <2>2 DEF BatchInv, BatchEnded
<1>2. ASSUME Faultless', sessions' <= 1, batch_active'
      PROVE  KeptIsOfBatch' /\ ReturnedOfBatch' /\ (fd' => BatchUnderWay')
  <2>1. KeptIsOfBatch /\ ReturnedOfBatch /\ (fd => BatchUnderWay)
    BY <1>2 DEF BatchInv, Faultless
  <2>2. KeptIsOfBatch' /\ ReturnedOfBatch'
    BY <2>1 DEF KeptIsOfBatch, ReturnedOfBatch
  <2>3. \A a : InTurn(a, InOneGo) => InTurn(a, InOneGo)'
    BY DEF InTurn, Buffered, BeginningLeft
  <2>4. Later(call.since) => Later(call.since)'
    BY DEF Later, UnreadInBuffer, UnreadInLine
  <2>5. fd' => BatchUnderWay'
    BY <2>1, <2>3, <2>4 DEF BatchUnderWay, AllTaken, NothingAsked, OnlyValues
  <2> QED BY <2>2, <2>5
<1> QED BY <1>1, <1>2 DEF BatchInv

LEMMA EndKept ==
    ASSUME BatchInv, UNCHANGED <<clock, began, expires>>,
           call'.since \in Nat, call'.since <= clock
    PROVE  BatchEnded'
BY DEF BatchInv, BatchEnded

LEMMA open_portBatch ==
    ASSUME BatchInv, NewerInv, NEW cl \in Client, NEW i \in world.mapped, open_port(cl, i)
    PROVE  BatchInv'
<1>1. /\ sessions' = sessions + 1 /\ call = Idle
      /\ call' = [Idle EXCEPT !.op = "open", !.client = cl, !.of = i]
      /\ UNCHANGED <<world, batch_active, clock, cache, began, expires, returned>>
  BY DEF open_port, batchVars, resultVars
<1>2. call'.op = "open" /\ call' # Idle /\ call'.since = 0 /\ call.op # "batch" /\ 0 \in Nat
  BY <1>1 DEF Idle
<1>3. BatchEnded' /\ BatchUnderWay'
  BY <1>1, <1>2 DEF BatchInv, BatchEnded, BatchUnderWay, NewerInv, SampleTypes
<1>4. sessions' <= 1 => sessions <= 1
  BY <1>1 DEF NewerInv, SampleTypes
<1> QED
  BY <1>1, <1>2, <1>3, <1>4 DEF BatchInv, Faultless, KeptIsOfBatch, ReturnedOfBatch

\* The configuration was the only answer.
LEMMA read_configBatch ==
    ASSUME BatchInv, PortInv, NewerInv, SampledInv, read_config
    PROVE  BatchInv'
<1>1. /\ call.op = "open" /\ fd /\ Ready /\ TakeAnswer
      /\ UNCHANGED <<worldVars, sessions, unsent, polled, batchVars, resultVars>>
  BY DEF read_config, PortInv, PortTypes, PortOpenWhileUsed
<1>2. call' = call \/ call' = Idle
  BY DEF read_config, opened
<1>3. call'.op # "batch" /\ call.op # "batch"
  BY <1>1, <1>2 DEF Idle
<1>4. BatchEnded'
  <2>1. call'.since \in Nat /\ call'.since <= clock
    BY <1>2 DEF BatchInv, BatchEnded, Idle, NewerInv, SampleTypes
  <2> QED BY <1>1, <2>1, EndKept DEF worldVars, batchVars
<1>5. ASSUME Faultless, sessions <= 1, batch_active PROVE BatchUnderWay'
  <2>1. Opening
    BY <1>1, <1>5, NoFaultYet DEF SampledInv
  <2>2. ~Buffered
    BY <2>1 DEF Opening, Buffered, NewerInv, SampleTypes
  <2>3. PICK m \in Sample : line = <<m>> /\ polled = << >>
    BY <1>1, <2>1, <2>2 DEF Opening, Ready
  <2>4. pos' = 1 /\ buffer' = <<m>> /\ line' = << >> /\ polled' = << >>
    BY <1>1, <2>2, <2>3 DEF TakeAnswer
  <2>5. Len(<<m>>) = 1 /\ Len(<< >>) = 0
    OBVIOUS
  <2>6. AllTaken' /\ NothingAsked'
    BY <2>4, <2>5 DEF AllTaken, NothingAsked, OnlyValues
  <2> QED BY <1>3, <2>6 DEF BatchUnderWay
<1> QED
  BY <1>1, <1>3, <1>4, <1>5
     DEF BatchInv, Faultless, KeptIsOfBatch, ReturnedOfBatch, worldVars, batchVars, resultVars

\* A sample that is handed out is of the batch that is still valid.
LEMMA batch_hitBatch ==
    ASSUME BatchInv, NewerInv, NEW cl \in Client, batch_hit(cl)
    PROVE  BatchInv'
<1>1. /\ call = Idle /\ client[cl] \in Input /\ cache[client[cl]] # 0 /\ ~(expires < clock)
      /\ Returns("OK", client[cl], cache[client[cl]], clock)
      /\ cache' = [cache EXCEPT ![client[cl]] = 0]
      /\ UNCHANGED <<worldVars, portVars, ioVars, expires, began, call>>
  BY DEF batch_hit, Expired, deliver
<1>2. call.op # "batch" /\ call' = call /\ clock' = clock
  BY <1>1 DEF Idle, worldVars
<1>3. BatchEnded'
  BY <1>1, <1>2 DEF BatchInv, BatchEnded
<1>4. expires \in Int /\ clock \in Nat
  BY DEF BatchInv, BatchEnded, NewerInv, SampleTypes
<1>5. ASSUME Faultless, sessions <= 1, batch_active
      PROVE  KeptIsOfBatch' /\ ReturnedOfBatch' /\ (fd => BatchUnderWay')
  <2>1. KeptIsOfBatch /\ (fd => BatchUnderWay)
    BY <1>5 DEF BatchInv
  <2>2. KeptIsOfBatch'
    BY <1>1, <1>2, <2>1 DEF KeptIsOfBatch, NewerInv, SampleTypes
  <2>3. cache[client[cl]] > began
    BY <1>1, <1>2, <2>1 DEF KeptIsOfBatch
  <2>4. ReturnedOfBatch'
    BY <1>1, <1>4, <2>3 DEF ReturnedOfBatch, Returns
  <2>5. fd => BatchUnderWay'
    BY <1>1, <1>2, <2>1
       DEF BatchUnderWay, AllTaken, NothingAsked, OnlyValues, ioVars
  <2> QED BY <2>2, <2>4, <2>5
<1> QED BY <1>1, <1>3, <1>5 DEF BatchInv, Faultless, worldVars, portVars

\* A batch begins: nothing of the last one is left.
LEMMA batch_samplingBatch ==
    ASSUME BatchInv, PortInv, NewerInv, WriteInv, SampledInv, NEW cl \in Client,
           batch_sampling(cl)
    PROVE  BatchInv'
<1>1. /\ call = Idle /\ client[cl] \in Input
      /\ cache' = [i \in Input |-> IF i \in ToSet(inputs) THEN 0 ELSE cache[i]]
      /\ Flushed(unsent \o Polls(inputs)) \/ FlushFailed(unsent \o Polls(inputs))
      /\ call' = Reading(cl, "batch")
      /\ UNCHANGED <<world, batch_active, clock, sessions, fd, inputs, line, buffer, pos, expires,
                     began, returned>>
  BY DEF batch_sampling, portVars, resultVars
<1>2. /\ call'.op = "batch" /\ call' # Idle /\ call'.since = clock /\ call'.expected = Len(inputs)
      /\ call.op # "open" /\ fd
  BY <1>1, HolderHasPort, InputsAssumption DEF Reading, Idle, Input
<1>3. BatchEnded'
  <2>1. clock \in Nat
    BY DEF NewerInv, SampleTypes
  <2> QED BY <1>1, <1>2, <2>1, EndKept
<1>4. ASSUME Faultless, sessions <= 1, batch_active
      PROVE  KeptIsOfBatch' /\ ReturnedOfBatch' /\ BatchUnderWay'
  <2>1. /\ ReturnedOfBatch /\ AllTaken /\ NothingAsked
    BY <1>1, <1>2, <1>4 DEF BatchInv, BatchUnderWay
  <2>2. unsent = << >> /\ inputs = Inputs
    BY <1>2, <1>4, NoFaultYet DEF SampledInv
  <2>3. KeptIsOfBatch'
    BY <1>1, <2>2 DEF KeptIsOfBatch, Input
  <2>4. InputCount \in Nat \ {0}
    <3>1. InputCount \in Nat /\ Inputs \in Seq(ToSet(Inputs))
      BY InputsAssumption, LenProperties DEF InputCount
    <3>2. PICK i \in DOMAIN Inputs : client[cl] = Inputs[i]
      BY <1>1 DEF Input, ToSet
    <3>3. i \in 1..InputCount
      BY <3>1, <3>2 DEF InputCount
    <3> QED BY <3>1, <3>3
  <2>5. Polls(Inputs) \in Seq(Sent)
    <3>1. \A i \in 1..InputCount : Poll(Inputs[i]) \in Sent
      BY SampleIsNoValue DEF Poll, Sent
    <3>2. Polls(Inputs) = [i \in 1..InputCount |-> Poll(Inputs[i])]
      BY InputsAssumption, LenProperties DEF Polls, InputCount
    <3> QED BY <2>4, <3>1, <3>2
  <2>6. polled' = polled \o Polls(Inputs)
    <3>1. << >> \o Polls(Inputs) = Polls(Inputs)
      BY <2>5
    <3>2. Flushed(unsent \o Polls(inputs))
      BY <1>1, <1>4, NoFaults DEF SampledInv
    <3> QED BY <2>2, <3>1, <3>2 DEF Flushed
  <2>7. Follow(polled', 0, 0, InputCount, InOneGo)
    <3>1. polled \in Seq(Sent) /\ OnlyValues(polled) /\ 0 \in Nat
      BY <2>1 DEF WriteInv, WriteTypes, NothingAsked
    <3>2. Follow(polled, 0, 0, 0, InOneGo)
      BY <3>1, FollowValues, Orders
    <3>3. Follow(polled \o Polls(Inputs), 0, 0, InputCount, InOneGo)
      BY <2>4, <2>5, <3>1, <3>2, FollowConcat, PollsFollow, Orders
    <3> QED BY <2>6, <3>3
  <2>8. ~Buffered' /\ line' = << >>
    BY <1>1, <2>1 DEF AllTaken, NothingAsked, Buffered, NewerInv, SampleTypes
  <2>9. Follow(<< >>, 0, 0, 0, InOneGo)
    <3>1. << >> \in Seq(Sent) /\ OnlyValues(<< >>) /\ 0 \in Nat
      BY EmptySeq DEF OnlyValues
    <3> QED BY <3>1, FollowValues, Orders
  <2>10. InTurn(0, InOneGo)'
    BY <2>7, <2>8, <2>9 DEF InTurn
  <2>11. Later(clock)'
    <3>1. UnreadInBuffer' = {} /\ UnreadInLine' = {}
      BY <1>1, <2>1, <2>8
         DEF UnreadInBuffer, UnreadInLine, AllTaken, NewerInv, SampleTypes
    <3> QED BY <3>1 DEF Later
  <2>12. BatchUnderWay'
    <3>1. call'.expected = InputCount /\ InputCount - InputCount = 0 /\ InputCount \in 1..InputCount
      BY <1>2, <2>2, <2>4 DEF InputCount
    <3>2. InTurn(InputCount - call.expected, InOneGo)'
      BY <2>10, <3>1 DEF InTurn
    <3>3. Later(call.since)'
      BY <1>1, <1>2, <2>11 DEF Later
    <3> QED BY <1>2, <3>1, <3>2, <3>3 DEF BatchUnderWay
  <2>13. ReturnedOfBatch'
    BY <1>1, <2>1 DEF ReturnedOfBatch
  <2> QED BY <2>3, <2>12, <2>13
<1> QED BY <1>1, <1>3, <1>4 DEF BatchInv, Faultless

\* An answer of the batch; with the last one it ends, and nothing is under way.
LEMMA batch_answerBatch ==
    ASSUME BatchInv, PortInv, NewerInv, WriteInv, WholeInv, WholeInv', SampledInv, SampledInv',
           batch_answer
    PROVE  BatchInv'
<1> SUFFICES ASSUME NEW t, t = call.since PROVE BatchInv'
  OBVIOUS
<1>0. PICK m \in ReadAs(NextAnswer) :
         LET c == IF m.of \in Input THEN [cache EXCEPT ![m.of] = m.at] ELSE cache
         IN  IF call.expected > 1
             THEN /\ call' = [call EXCEPT !.expected = @ - 1]
                  /\ cache' = c /\ UNCHANGED <<expires, began, resultVars>>
             ELSE /\ call' = Idle /\ deliver(call.of, c, call.since)
                  /\ expires' = clock + (clock - call.since)
                  /\ began' = call.since
  BY DEF batch_answer
<1> DEFINE c == IF m.of \in Input THEN [cache EXCEPT ![m.of] = m.at] ELSE cache
<1>1. /\ call.op = "batch" /\ call # Idle /\ Ready /\ TakeAnswer /\ fd /\ batch_active
      /\ UNCHANGED <<world, batch_active, clock, faults, sessions, fd, unsent, polled>>
  BY DEF batch_answer, worldVars, portVars, Idle, SampledInv, NewerInv, ReadsAnInput
<1>2. /\ call.expected > 1 => /\ call' = [call EXCEPT !.expected = @ - 1]
                              /\ cache' = c /\ UNCHANGED <<expires, began, returned>>
      /\ ~(call.expected > 1) => /\ call' = Idle /\ deliver(call.of, c, call.since)
                                 /\ expires' = clock + (clock - call.since)
                                 /\ began' = call.since
  BY <1>0 DEF resultVars
<1>3. call.since \in Nat /\ call.since <= clock /\ clock \in Nat /\ call.of \in Input
  BY <1>1 DEF BatchInv, BatchEnded, NewerInv, SampleTypes, ReadsAnInput
<1>4. call.expected > 1 => /\ call'.op = "batch" /\ call'.expected = call.expected - 1
                           /\ call'.since = call.since /\ call' # Idle
  BY <1>1, <1>2 DEF PortInv, CallIsRecord, Idle
<1>5. ~(call.expected > 1) => call'.op = "none" /\ call'.since = 0
  BY <1>2 DEF Idle
<1>6. BatchEnded'
  <2>1. CASE call.expected > 1
    BY <1>1, <1>2, <1>4, <2>1 DEF BatchInv, BatchEnded
  <2>2. CASE ~(call.expected > 1)
    <3>1. clock \in call.since..clock /\ 0 \in Nat /\ 0 <= clock
      BY <1>3
    <3> QED BY <1>1, <1>2, <1>3, <1>5, <2>2, <3>1 DEF BatchEnded
  <2> QED BY <2>1, <2>2
<1>7. ASSUME Faultless, sessions <= 1
      PROVE  KeptIsOfBatch' /\ ReturnedOfBatch' /\ BatchUnderWay'
  <2>1. /\ KeptIsOfBatch /\ ReturnedOfBatch /\ Later(call.since)
        /\ call.expected \in 1..InputCount
        /\ InTurn(InputCount - call.expected, InOneGo)
    BY <1>1, <1>7 DEF BatchInv, BatchUnderWay
  <2>2. InputCount \in Nat /\ InputCount - call.expected \in Nat
    BY <2>1, InputsAssumption, LenProperties DEF InputCount
  <2>10. faults = 0 /\ faults' = 0 /\ m = NextAnswer
    BY <1>1, <1>7, NoFaultYet, NothingCut DEF NewerInv, SampleTypes
  <2>3. PICK d \in 1..InputCount :
           /\ <<InputCount - call.expected, d>> \in InOneGo.next
           /\ m.of = Inputs[d] /\ InTurn(d, InOneGo)'
    BY <1>1, <2>1, <2>2, <2>10, TakeInTurn, Orders DEF NewerInv
  <2>4. d = InputCount - (call.expected - 1)
    BY <2>1, <2>2, <2>3 DEF InOneGo
  <2>5. m.at \in Nat /\ m.at > t /\ Later(t)' /\ m.of \in Input
    <3>1. m.of \in Input
      BY <2>3, SampleIsNoValue
    <3>2. m.at > t /\ Later(t)'
      BY <1>1, <1>3, <2>1, <2>10, TakesLater DEF NewerInv
    <3> QED BY <1>1, <1>7, <2>10, <3>1, <3>2, AnswerIsASample
  <2>6. \A i \in Input : c[i] = 0 \/ c[i] > t
    BY <1>1, <2>1, <2>5 DEF KeptIsOfBatch, NewerInv, SampleTypes
  <2>7. c \in [Input -> Nat]
    BY <2>5, <2>10 DEF WholeInv, WholeSamples
  <2> HIDE DEF c
  <2>8. CASE call.expected > 1
    <3>1. KeptIsOfBatch' /\ ReturnedOfBatch'
      BY <1>2, <1>4, <2>1, <2>6, <2>8 DEF KeptIsOfBatch, ReturnedOfBatch
    <3>2. /\ call'.expected = call.expected - 1 /\ call'.since = t /\ call' # Idle
          /\ call'.op = "batch" /\ call'.expected \in 1..InputCount
          /\ InputCount - call'.expected = d
      BY <1>4, <2>1, <2>2, <2>4, <2>8
    <3>3. InTurn(InputCount - call.expected, InOneGo)'
      BY <2>3, <3>2 DEF InTurn
    <3>4. Later(call.since)'
      BY <2>5, <3>2 DEF Later
    <3> QED BY <3>1, <3>2, <3>3, <3>4 DEF BatchUnderWay
  <2>9. CASE ~(call.expected > 1)
    <3>1. d = InputCount
      BY <2>1, <2>2, <2>4, <2>9
    <3>2. AllTaken' /\ NothingAsked'
      <4>1. /\ pos' \in Nat /\ line' \in Seq(Sample) /\ buffer' \in Seq(Sample)
            /\ polled' \in Seq(Sent)
        BY <1>1, TakesOldest DEF NewerInv, WriteInv, WriteTypes
      <4>2. PICK b \in Nat, e \in Nat :
               /\ IF pos' < Len(buffer') THEN Follow(buffer', pos', InputCount, b, InOneGo)
                  ELSE InputCount = b
               /\ Follow(line', 0, b, e, InOneGo)
               /\ Follow(polled', 0, e, InputCount, InOneGo)
        <5>1. Buffered' <=> pos' < Len(buffer')
          BY <2>10, <4>1, WholeBuffered
        <5> QED BY <2>3, <3>1, <5>1 DEF InTurn
      <4>3. pos' >= Len(buffer') /\ line' = << >> /\ OnlyValues(polled')
        BY <4>1, <4>2, LastInTurn
      <4> QED BY <4>3 DEF AllTaken, NothingAsked, OnlyValues
    <3>3. BatchUnderWay'
      BY <1>5, <2>9, <3>2 DEF BatchUnderWay
    <3>4. /\ Returns("OK", call.of, c[call.of], t) /\ cache' = [c EXCEPT ![call.of] = 0]
          /\ expires' = clock + (clock - t) /\ began' = t
      BY <1>2, <2>9 DEF deliver
    <3>5. KeptIsOfBatch'
      BY <1>5, <2>6, <2>7, <2>9, <3>4 DEF KeptIsOfBatch
    <3>6. returned'.status = "OK" /\ returned'.at = c[call.of] /\ returned'.since = t
      BY <3>4 DEF Returns
    <3>7. c[call.of] # 0
      <4>1. faults' = 0 /\ sessions' = 1
        BY <1>1, <1>7, NoFaultYet
      <4> QED BY <3>6, <4>1 DEF SampledInv, SampledUnlessLost, OkMeansSampled
    <3>8. ReturnedOfBatch'
      <4>1. t <= clock + (clock - t)
        BY <1>3
      <4> QED BY <1>3, <2>6, <3>4, <3>6, <3>7, <4>1 DEF ReturnedOfBatch
    <3> QED BY <3>3, <3>5, <3>8
  <2> QED BY <2>8, <2>9
<1> QED BY <1>1, <1>6, <1>7 DEF BatchInv, Faultless

\* A value goes out between batches.
LEMMA writeBatch ==
    ASSUME BatchInv, PortInv, NewerInv, WriteInv, SampledInv, NEW cl \in Client,
           NEW value \in {0, 1}, write(cl, value)
    PROVE  BatchInv'
<1> SUFFICES ASSUME NEW w, w = client[cl], NEW p, p = Value(w, value) PROVE BatchInv'
  OBVIOUS
<1>1. /\ call = Idle /\ w \in Outputs /\ client[cl] # NULL
      /\ UNCHANGED <<world, batch_active, clock, sessions, fd, line, buffer, pos, cache, began,
                     expires, call, returned>>
      /\ Flushed(Append(unsent, p)) \/ FlushFailed(Append(unsent, p))
  BY OutputsAssumption DEF write, portVars, batchVars, resultVars
<1>2. BatchEnded'
  BY <1>1, EndKept DEF BatchInv, BatchEnded
<1>3. ASSUME Faultless, sessions <= 1, batch_active
      PROVE  KeptIsOfBatch' /\ ReturnedOfBatch' /\ BatchUnderWay'
  <2>1. fd
    BY <1>1, HolderHasPort
  <2>2. KeptIsOfBatch /\ ReturnedOfBatch /\ AllTaken /\ NothingAsked
    BY <1>1, <1>3, <2>1 DEF BatchInv, BatchUnderWay
  <2>3. unsent = << >>
    BY <1>3, <2>1, NoFaultYet DEF SampledInv
  <2>4. polled' = polled \o <<p>>
    BY <1>1, <1>3, <2>3, NoFaults DEF SampledInv, Flushed
  <2>5. p \in Sent /\ p.of \in Outputs /\ polled \in Seq(Sent) /\ OnlyValues(polled)
    BY <1>1, <2>2 DEF Value, Sent, WriteInv, WriteTypes, NothingAsked
  <2>6. OnlyValues(polled')
    BY <2>4, <2>5, OneMoreValue
  <2>7. AllTaken' /\ NothingAsked' /\ call'.op # "batch"
    BY <1>1, <2>2, <2>6 DEF AllTaken, NothingAsked, OnlyValues, Idle
  <2>8. KeptIsOfBatch' /\ ReturnedOfBatch'
    BY <1>1, <2>2 DEF KeptIsOfBatch, ReturnedOfBatch
  <2> QED BY <2>7, <2>8 DEF BatchUnderWay
<1> QED BY <1>1, <1>2, <1>3 DEF BatchInv, Faultless

\* The device takes a value, or answers a poll of the batch.
LEMMA DeviceBatch ==
    ASSUME BatchInv, PortInv, NewerInv, WriteInv, SampledInv, device_sets \/ device_answers
    PROVE  BatchInv'
<1> SUFFICES ASSUME NEW t, t = call.since PROVE BatchInv'
  OBVIOUS
<1>1. /\ polled # << >> /\ clock' \in {clock, clock + 1}
      /\ UNCHANGED <<world, batch_active, sessions, fd, buffer, pos, cache, began, expires, call,
                     returned>>
  BY DEF device_sets, device_answers, worldVars, portVars, batchVars, resultVars
<1>2. \/ /\ polled' = Tail(polled)
         /\ \/ Head(polled).of \in Outputs /\ line' = line
            \/ /\ Head(polled).of \in Input \cup {CONFIG, REST}
               /\ line' = IF fd THEN Append(line, Message(Head(polled).of, clock + 1)) ELSE line
      \/ faults < world.max_faults
  BY DEF device_sets, device_answers, Cut
<1>3. /\ t \in Nat /\ t <= clock /\ clock \in Nat /\ clock' \in Nat /\ clock <= clock'
      /\ faults \in Nat
  BY <1>1 DEF BatchInv, BatchEnded, NewerInv, SampleTypes, SampledInv
<1>4. BatchEnded'
  <2>1. PICK ended \in began..clock : expires = ended + (ended - began)
    BY DEF BatchInv, BatchEnded
  <2>2. ended \in began..clock' /\ began \in Nat
    BY <1>3, <2>1 DEF BatchInv, BatchEnded
  <2>3. t <= clock' /\ began' = began /\ expires' = expires /\ call'.since = t
    BY <1>1, <1>3
  <2> QED BY <1>3, <2>1, <2>2, <2>3 DEF BatchEnded
<1>5. ASSUME Faultless, sessions <= 1, batch_active
      PROVE  KeptIsOfBatch' /\ ReturnedOfBatch'
  BY <1>1, <1>5 DEF BatchInv, KeptIsOfBatch, ReturnedOfBatch
<1>6. ASSUME Faultless, sessions <= 1, batch_active, fd PROVE BatchUnderWay'
  <2>1. /\ polled' = Tail(polled)
        /\ \/ Head(polled).of \in Outputs /\ line' = line
           \/ /\ Head(polled).of \notin Outputs
              /\ \E m \in Sample : m.of = Head(polled).of /\ m.at > t /\ line' = Append(line, m)
    <3>1. ~(faults < world.max_faults) /\ polled' = Tail(polled)
      BY <1>2, <1>3, <1>6 DEF Faultless
    <3>2. CASE Head(polled).of \in Outputs
      BY <1>2, <3>1, <3>2, OutputsAssumption
    <3>3. CASE Head(polled).of \notin Outputs
      <4>1. /\ Head(polled).of \in Input \cup {CONFIG, REST}
            /\ line' = Append(line, Message(Head(polled).of, clock + 1))
        BY <1>2, <1>6, <3>1, <3>3
      <4>2. /\ Message(Head(polled).of, clock + 1) \in Sample
            /\ Message(Head(polled).of, clock + 1).of = Head(polled).of
            /\ Message(Head(polled).of, clock + 1).at > t
        BY <1>3, <4>1 DEF Message, Sample
      <4> QED BY <3>1, <3>3, <4>1, <4>2
    <3> QED BY <3>2, <3>3
  <2>2. BatchUnderWay
    BY <1>6 DEF BatchInv
  <2>3. ASSUME call = Idle PROVE AllTaken' /\ NothingAsked'
    <3>1. AllTaken /\ OnlyValues(polled) /\ line = << >>
      BY <2>2, <2>3 DEF BatchUnderWay, NothingAsked
    <3>2. /\ Len(polled) \in Nat \ {0} /\ Len(polled') = Len(polled) - 1 /\ Head(polled) = polled[1]
          /\ \A i \in 1..Len(polled') : i + 1 \in 1..Len(polled) /\ polled'[i] = polled[i + 1]
      BY <1>1, <2>1, TailIndices DEF WriteInv, WriteTypes
    <3>3. Head(polled).of \in Outputs /\ OnlyValues(polled')
      BY <3>1, <3>2 DEF OnlyValues
    <3>4. line' = << >>
      BY <2>1, <3>1, <3>3
    <3> QED BY <1>1, <3>1, <3>3, <3>4 DEF AllTaken, NothingAsked, OnlyValues
  <2>4. ASSUME call.op = "batch"
        PROVE  InTurn(InputCount - call.expected, InOneGo)' /\ Later(call.since)'
    <3> SUFFICES ASSUME NEW a, a = InputCount - call.expected
                 PROVE  InTurn(InputCount - call.expected, InOneGo)' /\ Later(call.since)'
      OBVIOUS
    <3>1. /\ call.expected \in 1..InputCount /\ InTurn(a, InOneGo) /\ Later(t)
      BY <2>2, <2>4 DEF BatchUnderWay
    <3>2. a \in Nat
      BY <3>1, InputsAssumption, LenProperties DEF InputCount
    <3>3. InTurn(a, InOneGo)'
      BY <1>1, <2>1, <3>1, <3>2, GiveInTurn, Orders DEF WriteInv, NewerInv
    <3>4. Later(t)'
      <4>1. UnreadInBuffer' = UnreadInBuffer /\ buffer' = buffer
        BY <1>1 DEF UnreadInBuffer
      <4>2. \A k \in UnreadInLine' : line'[k].at > t
        <5>1. CASE line' = line
          BY <3>1, <5>1 DEF Later, UnreadInLine
        <5>2. CASE \E m \in Sample : m.at > t /\ line' = Append(line, m)
          <6>1. PICK m \in Sample : m.at > t /\ line' = Append(line, m)
            BY <5>2
          <6>2. line \in Seq(Sample)
            BY DEF NewerInv, SampleTypes
          <6>3. /\ Len(line) \in Nat /\ DOMAIN line = 1..Len(line)
                /\ DOMAIN line' = 1..(Len(line) + 1) /\ line'[Len(line) + 1] = m
                /\ \A k \in 1..Len(line) : line'[k] = line[k]
            BY <6>1, <6>2, AppendProperties, LenProperties
          <6>4. \A k \in 1..(Len(line) + 1) : k = Len(line) + 1 \/ k \in 1..Len(line)
            BY <6>3
          <6> QED BY <3>1, <6>1, <6>3, <6>4 DEF Later, UnreadInLine
        <5> QED BY <2>1, <5>1, <5>2
      <4> QED BY <3>1, <4>1, <4>2 DEF Later
    <3>5. call'.since = t /\ InputCount - call'.expected = a
      BY <1>1
    <3> QED BY <3>3, <3>4, <3>5 DEF InTurn, Later
  <2> QED BY <1>1, <2>2, <2>3, <2>4 DEF BatchUnderWay
<1> QED BY <1>1, <1>4, <1>5, <1>6 DEF BatchInv, Faultless

\* Nothing is torn while a port without faults is open.
LEMMA device_misunderstandsBatch ==
    ASSUME BatchInv, PortInv, NewerInv, WriteInv, SampledInv, device_misunderstands
    PROVE  BatchInv'
<1>1. UNCHANGED <<world, batch_active, clock, sessions, fd, cache, began, expires, call, returned>>
  BY DEF device_misunderstands, worldVars, portVars, batchVars, resultVars
<1>2. BatchEnded'
  BY <1>1, EndKept DEF BatchInv, BatchEnded
<1>3. Faultless /\ sessions <= 1 /\ batch_active => ~fd
  BY NoFaultYet, NothingTorn
<1> QED BY <1>1, <1>2, <1>3 DEF BatchInv, Faultless, KeptIsOfBatch, ReturnedOfBatch

\* Every step keeps the invariant.
LEMMA BatchStep ==
    PortInv /\ NewerInv /\ WriteInv /\ WholeInv /\ WholeInv' /\ SampledInv /\ SampledInv'
       /\ BatchInv /\ [Next]_vars => BatchInv'
<1> SUFFICES ASSUME PortInv, NewerInv, WriteInv, WholeInv, WholeInv', SampledInv, SampledInv',
                    BatchInv, [Next]_vars
             PROVE  BatchInv'
  OBVIOUS
<1>0. clock \in Nat
  BY DEF NewerInv, SampleTypes
<1>1. ASSUME NEW cl \in Client, NEW i \in world.mapped, open_port(cl, i) PROVE BatchInv'
  BY <1>1, open_portBatch
<1>2. ASSUME NEW cl \in Client, NEW i \in world.mapped, channel_open(cl, i) PROVE BatchInv'
  BY <1>0, <1>2, BatchKept DEF channel_open, worldVars, ioVars, batchVars, resultVars
<1>3. ASSUME NEW cl \in Client, channel_close(cl) PROVE BatchInv'
  <2>1. fd
    BY <1>3, HolderHasPort DEF channel_close
  <2> QED BY <1>0, <1>3, <2>1, BatchKept DEF channel_close, worldVars, ioVars, batchVars, resultVars
<1>4. ASSUME NEW cl \in Client, read(cl) PROVE BatchInv'
  <2>1. /\ ~batch_active /\ UNCHANGED <<batch_active, clock, began, expires>>
        /\ call'.since \in {call.since, clock}
    BY <1>4 DEF read, batchVars, Reading
  <2>2. BatchEnded'
    BY <1>0, <2>1, EndKept DEF BatchInv, BatchEnded
  <2> QED BY <2>1, <2>2 DEF BatchInv
<1>5. ASSUME NEW cl \in Client, batch_hit(cl) PROVE BatchInv'
  BY <1>5, batch_hitBatch
<1>6. ASSUME NEW cl \in Client, batch_sampling(cl) PROVE BatchInv'
  BY <1>6, batch_samplingBatch
<1>7. ASSUME NEW cl \in Client, NEW value \in {0, 1}, write(cl, value) PROVE BatchInv'
  BY <1>7, writeBatch
<1>8. CASE read_config
  BY <1>8, read_configBatch
<1>9. CASE read_config_fails \/ read_fails
  <2>1. /\ TimedOut /\ call' = Idle
        /\ UNCHANGED <<world, batch_active, clock, sessions, began, expires>>
    BY <1>9 DEF read_config_fails, read_fails, portVars, batchVars
  <2>2. BatchEnded'
    BY <1>0, <2>1, EndKept DEF Idle
  <2>3. ~Faultless
    BY <2>1, NoFaults DEF SampledInv
  <2> QED BY <2>1, <2>2, <2>3 DEF BatchInv, Faultless
<1>15. CASE read_rest
  <2>1. /\ Ready /\ NextAnswer.of = REST /\ call' \in {call, Idle}
        /\ UNCHANGED <<world, batch_active, clock, faults, sessions, began, expires>>
    BY <1>15 DEF read_rest, worldVars, portVars, batchVars
  <2>2. BatchEnded'
    BY <1>0, <2>1, EndKept DEF BatchInv, BatchEnded, Idle
  <2>3. ~Faultless
    BY <2>1, NoFaultYet, NothingCut DEF NewerInv, SampleTypes
  <2> QED BY <2>1, <2>2, <2>3 DEF BatchInv, Faultless
<1>10. CASE read_answer
  <2>1. /\ ~batch_active /\ call' = Idle /\ UNCHANGED <<batch_active, clock, began, expires>>
    BY <1>10 DEF read_answer, worldVars, batchVars, NewerInv, ReadsAnInput
  <2>2. BatchEnded'
    BY <1>0, <2>1, EndKept DEF Idle
  <2> QED BY <2>1, <2>2 DEF BatchInv
<1>11. CASE batch_answer
  BY <1>11, batch_answerBatch
<1>12. CASE device_answers \/ device_sets
  BY <1>12, DeviceBatch
<1>13. CASE device_misunderstands
  BY <1>13, device_misunderstandsBatch
<1>14. CASE tick \/ UNCHANGED vars
  <2>1. /\ UNCHANGED <<world, batch_active, sessions, buffer, pos, line, polled, call, began,
                       expires, cache, returned, fd>>
        /\ clock' \in {clock, clock + 1}
    BY <1>14 DEF tick, vars, worldVars, portVars, ioVars, batchVars, resultVars
  <2> QED BY <1>0, <2>1, BatchKept
<1> QED
  BY <1>1, <1>2, <1>3, <1>4, <1>5, <1>6, <1>7, <1>8, <1>9, <1>10, <1>11, <1>12, <1>13, <1>14,
     <1>15
     DEF Next, HostStep

\* BatchFresh of the run, for any number of clients, inputs and writes, until the
\* port is opened again: where no answer is late or lost a batched read returns a
\* sample of the last batch, while that is valid.
THEOREM BatchCorrect == Spec => []BatchFresh
<1>1. BatchInv => BatchFresh
  BY DEF BatchInv, BatchEnded, ReturnedOfBatch, BatchFresh
<1> QED
  BY <1>1, PortInit, PortStep, NewerInit, NewerStep, WriteInit, WriteStep, WholeInit, WholeStep,
     SampledInit, SampledStep, BatchInit, BatchStep, PTL DEF Spec

-----------------------------------------------------------------------------
(* The types of the variables *)

Messages ==
    [of : Input \cup {CONFIG, TORN, REST}, value : {NULL}] \cup [of : Outputs, value : {0, 1}]

TimeTypes ==
    clock \in 1..world.max_time /\ faults \in 0..world.max_faults /\ batch_active \in BatchModes

SentTypes == polled \in Seq(Messages) /\ unsent \in Seq(Messages)

AnswerTypes == line \in Seq(Answers) /\ buffer \in Seq(Answers)

StampTypes ==
    /\ cache \in [Input -> {GARBLED} \cup 0..world.max_time]
    /\ last \in [Input -> 0..world.max_time]

\* What TypeOK adds to the types that the other invariants know.
LEMMA TypesTogether ==
    ASSUME PortInv, NewerInv, WriteInv, TimeTypes, SentTypes, AnswerTypes, StampTypes,
           misunderstood \in BOOLEAN
    PROVE  TypeOK
<1>1. /\ fd \in BOOLEAN /\ count \in Nat /\ client \in [Client -> world.mapped \cup {NULL}]
      /\ inputs \in Seq(Input) /\ pos \in Nat
  BY DEF PortInv, PortTypes, NewerInv, SampleTypes, WriteInv, WriteTypes
<1>2. {output, asked} \subseteq [Outputs -> {0, 1, NULL, GARBLED}]
  BY DEF WriteInv, WriteTypes
<1>3. {polled, unsent} \subseteq Seq(Messages)
  BY DEF SentTypes
<1> QED BY <1>1, <1>2, <1>3 DEF TypeOK, TimeTypes, AnswerTypes, StampTypes, Messages

\* The bounds of the world: somebody can still use up what is left of them.
LEMMA BoundsAreNat ==
    ASSUME PortInv
    PROVE  world.max_time \in Nat /\ world.max_time > 0 /\ world.max_faults \in Nat
  BY WorldsAssumption DEF World, PortInv, PortTypes

LEMMA TimeStep == PortInv /\ TimeTypes /\ [Next]_vars => TimeTypes'
<1> SUFFICES ASSUME PortInv, TimeTypes, [Next]_vars PROVE TimeTypes'
  OBVIOUS
<1>1. ASSUME NEW q, Flushed(q) \/ FlushFailed(q), UNCHANGED <<world, batch_active, clock>>
      PROVE  TimeTypes'
  BY <1>1, BoundsAreNat DEF TimeTypes, Flushed, FlushFailed
<1>2. ASSUME UNCHANGED worldVars PROVE TimeTypes'
  BY <1>2 DEF worldVars, TimeTypes
<1>3. ASSUME NEW cl \in Client, NEW i \in world.mapped, open_port(cl, i) PROVE TimeTypes'
  BY <1>1, <1>3 DEF open_port
<1>4. ASSUME NEW cl \in Client, read(cl) PROVE TimeTypes'
  BY <1>1, <1>4 DEF read
<1>5. ASSUME NEW cl \in Client, batch_sampling(cl) PROVE TimeTypes'
  BY <1>1, <1>5 DEF batch_sampling
<1>6. ASSUME NEW cl \in Client, NEW value, write(cl, value) PROVE TimeTypes'
  BY <1>1, <1>6 DEF write
<1>7. ASSUME NEW cl \in Client,
             (\E i \in world.mapped : channel_open(cl, i)) \/ channel_close(cl) \/ batch_hit(cl)
      PROVE  TimeTypes'
  BY <1>2, <1>7 DEF channel_open, channel_close, batch_hit
<1>8. CASE read_config \/ read_answer \/ read_rest \/ batch_answer
  BY <1>2, <1>8 DEF read_config, read_answer, read_rest, batch_answer
<1>12. CASE read_config_fails \/ read_fails
  <2>1. TimedOut /\ UNCHANGED <<world, batch_active, clock>>
    BY <1>12 DEF read_config_fails, read_fails
  <2> QED BY <2>1, BoundsAreNat DEF TimeTypes, TimedOut, Cut
<1>9. CASE device_answers
  BY <1>9, BoundsAreNat DEF device_answers, Cut, TimeTypes
<1>10. CASE tick
  <2>1. /\ clock < world.max_time /\ clock' = clock + 1
        /\ world' = world /\ batch_active' = batch_active /\ faults' = faults
    BY <1>10 DEF tick
  <2> QED BY <2>1, BoundsAreNat DEF TimeTypes
<1>11. CASE device_sets \/ device_misunderstands \/ UNCHANGED vars
  BY <1>2, <1>11 DEF device_sets, device_misunderstands, vars
<1> QED
  BY <1>3, <1>4, <1>5, <1>6, <1>7, <1>8, <1>9, <1>10, <1>11, <1>12 DEF Next, HostStep

\* A write, one that fails included, sends what it has been given, and torn values.
LEMMA FlushTypes ==
    ASSUME SentTypes, NEW polls \in Seq(Messages), Flushed(polls) \/ FlushFailed(polls)
    PROVE  SentTypes'
<1>1. polled \in Seq(Messages)
  BY DEF SentTypes
<1>2. CASE Flushed(polls)
  <2>1. polled' = polled \o polls /\ unsent' = << >>
    BY <1>2 DEF Flushed
  <2> QED BY <1>1, <2>1, ConcatProperties, EmptySeq DEF SentTypes
<1>3. CASE FlushFailed(polls)
  <2>1. PICK n \in 0..(Len(polls) - 1) : \E torn \in Beginnings(polls[n + 1]) :
            polled' = polled \o SubSeq(polls, 1, n) \o torn
    BY <1>3 DEF FlushFailed
  <2>2. PICK torn \in Beginnings(polls[n + 1]) : polled' = polled \o SubSeq(polls, 1, n) \o torn
    BY <2>1
  <2>3. unsent' = polls
    BY <1>3 DEF FlushFailed
  <2>4. torn \in Seq(Messages)
    <3>1. Poll(TORN) \in Messages
      BY DEF Poll, Messages
    <3>2. torn = << >> \/ torn = <<Poll(TORN)>>
      BY DEF Beginnings
    <3>3. << >> \in Seq(Messages) /\ <<Poll(TORN)>> \in Seq(Messages)
      BY <3>1
    <3> QED BY <3>2, <3>3
  <2>5. SubSeq(polls, 1, n) \in Seq(Messages)
    BY LenProperties, SMTT(30)
  <2>6. polled \o SubSeq(polls, 1, n) \in Seq(Messages)
    BY <1>1, <2>5, ConcatProperties
  <2>7. polled' \in Seq(Messages)
    BY <2>2, <2>4, <2>6, ConcatProperties
  <2> QED BY <2>3, <2>7 DEF SentTypes
<1> QED BY <1>2, <1>3

LEMMA TailTypes ==
    ASSUME NEW S, NEW q \in Seq(S), q # << >>
    PROVE  Tail(q) \in Seq(S) /\ Head(q) \in S
  BY HeadTailProperties, EmptySeq

\* The rest of an answer stands where the poll stood.
LEMMA CutTypes ==
    ASSUME SentTypes, Cut, unsent' = unsent
    PROVE  SentTypes'
<1>1. Poll(REST) \in Messages
  BY DEF Poll, Messages
<1>2. <<Poll(REST)>> \in Seq(Messages)
  BY <1>1
<1>3. Tail(polled) \in Seq(Messages)
  BY TailTypes DEF Cut, SentTypes
<1> QED BY <1>2, <1>3, ConcatProperties DEF Cut, SentTypes

LEMMA SentStep == PortInv /\ WriteInv /\ SentTypes /\ [Next]_vars => SentTypes'
<1> SUFFICES ASSUME PortInv, WriteInv, SentTypes, [Next]_vars PROVE SentTypes'
  OBVIOUS
<1>1. polled \in Seq(Messages) /\ unsent \in Seq(Messages)
  BY DEF SentTypes
<1>2. ASSUME UNCHANGED <<polled, unsent>> PROVE SentTypes'
  BY <1>1, <1>2 DEF SentTypes
<1>3. ASSUME NEW i \in Input \cup {CONFIG} PROVE Poll(i) \in Messages
  BY DEF Poll, Messages
<1>4. ASSUME NEW cl \in Client, NEW i \in world.mapped, open_port(cl, i) PROVE SentTypes'
  <2> DEFINE q == <<Poll(CONFIG)>>
  <2>1. q \in Seq(Messages)
    BY <1>3
  <2>2. Flushed(q) \/ FlushFailed(q)
    BY <1>4 DEF open_port
  <2> HIDE DEF q
  <2> QED BY <2>1, <2>2, FlushTypes
<1>5. ASSUME NEW cl \in Client, read(cl) PROVE SentTypes'
  <2> DEFINE q == Append(unsent, Poll(client[cl]))
  <2>1. client[cl] \in Input
    BY <1>5 DEF read
  <2>2. q \in Seq(Messages)
    BY <1>1, <1>3, <2>1, AppendProperties
  <2>3. Flushed(q) \/ FlushFailed(q)
    BY <1>5 DEF read
  <2> HIDE DEF q
  <2> QED BY <2>2, <2>3, FlushTypes
<1>6. ASSUME NEW cl \in Client, batch_sampling(cl) PROVE SentTypes'
  <2> DEFINE q == unsent \o Polls(inputs)
  <2>1. inputs \in Seq(Input)
    BY DEF WriteInv, WriteTypes
  <2>2. Polls(inputs) \in Seq(Messages)
    <3>1. Polls(inputs) = [i \in 1..Len(inputs) |-> Poll(inputs[i])] /\ Len(inputs) \in Nat
      BY <2>1 DEF Polls
    <3>2. \A i \in 1..Len(inputs) : Poll(inputs[i]) \in Messages
      BY <1>3, <2>1
    <3> QED BY <3>1, <3>2
  <2>3. q \in Seq(Messages)
    BY <1>1, <2>2, ConcatProperties
  <2>4. Flushed(q) \/ FlushFailed(q)
    BY <1>6 DEF batch_sampling
  <2> HIDE DEF q
  <2> QED BY <2>3, <2>4, FlushTypes
<1>7. ASSUME NEW cl \in Client, NEW value \in {0, 1}, write(cl, value) PROVE SentTypes'
  <2> DEFINE q == Append(unsent, Value(client[cl], value))
  <2>1. Value(client[cl], value) \in Messages
    BY <1>7 DEF write, Value, Messages
  <2>2. q \in Seq(Messages)
    BY <1>1, <2>1, AppendProperties
  <2>3. Flushed(q) \/ FlushFailed(q)
    BY <1>7 DEF write
  <2> HIDE DEF q
  <2> QED BY <2>2, <2>3, FlushTypes
<1>8. ASSUME NEW cl \in Client,
             (\E i \in world.mapped : channel_open(cl, i)) \/ channel_close(cl) \/ batch_hit(cl)
      PROVE  SentTypes'
  BY <1>2, <1>8 DEF channel_open, channel_close, batch_hit, ioVars
<1>9. CASE HostStep
  <2>1. UNCHANGED <<polled, unsent>> \/ (Cut /\ unsent' = unsent)
    BY <1>9
       DEF HostStep, read_config, read_config_fails, read_answer, read_rest, read_fails,
           batch_answer, TimedOut
  <2> QED BY <1>2, <2>1, CutTypes
<1>10. CASE device_answers \/ device_sets
  <2>1. /\ polled # << >> /\ unsent' = unsent
        /\ polled' = Tail(polled) \/ Cut
    BY <1>10 DEF device_answers, device_sets
  <2> QED BY <1>1, <2>1, TailTypes, CutTypes DEF SentTypes
<1>11. CASE device_misunderstands
  <2>1. /\ polled # << >> /\ Len(polled) > 1 /\ unsent' = unsent
        /\ polled' \in {Tail(polled), Tail(Tail(polled))}
    BY <1>1, <1>11 DEF device_misunderstands
  <2>2. Tail(polled) \in Seq(Messages)
    BY <1>1, <2>1, TailTypes
  <2>3. Tail(polled) # << >>
    <3>1. Len(Tail(polled)) = Len(polled) - 1 /\ Len(polled) \in Nat
      BY <1>1, <2>1, HeadTailProperties, LenProperties
    <3> QED BY <2>1, <2>2, <3>1, EmptySeq
  <2> QED BY <2>1, <2>2, <2>3, TailTypes DEF SentTypes
<1>12. CASE tick \/ UNCHANGED vars
  BY <1>2, <1>12 DEF tick, vars, ioVars
<1> QED
  BY <1>4, <1>5, <1>6, <1>7, <1>8, <1>9, <1>10, <1>11, <1>12 DEF Next

\* What tty_read takes is an answer, of some time up to now.
LEMMA TakesTypes ==
    ASSUME AnswerTypes, pos \in Nat, Ready, TakeAnswer, world' = world
    PROVE  AnswerTypes' /\ NextAnswer \in Answers
<1>1. Answers' = Answers
  BY DEF Answers
<1>2. line \in Seq(Answers) /\ buffer \in Seq(Answers)
  BY DEF AnswerTypes
<1>3. line' \in Seq(Answers) /\ buffer' \in Seq(Answers)
  BY <1>2, EmptySeq DEF TakeAnswer
<1>4. NextAnswer \in Answers
  <2>1. CASE Buffered
    BY <1>2, <2>1 DEF NextAnswer, Buffered
  <2>2. CASE ~Buffered
    <3>1. Head(line) \in Answers
      BY <1>2, <2>2, TailTypes DEF Ready
    <3>2. Message(REST, Head(line).at) \in Answers
      BY <3>1 DEF Message, Answers
    <3> QED BY <2>2, <3>1, <3>2 DEF NextAnswer
  <2> QED BY <2>1, <2>2
<1> QED BY <1>1, <1>3, <1>4 DEF AnswerTypes

LEMMA AnswerStep ==
    PortInv /\ NewerInv /\ TimeTypes /\ TimeTypes' /\ AnswerTypes /\ [Next]_vars => AnswerTypes'
<1> SUFFICES ASSUME PortInv, NewerInv, TimeTypes, TimeTypes', AnswerTypes, [Next]_vars
             PROVE  AnswerTypes'
  OBVIOUS
<1>1. line \in Seq(Answers) /\ buffer \in Seq(Answers) /\ pos \in Nat
  BY DEF AnswerTypes, NewerInv, SampleTypes
<1>2. ASSUME UNCHANGED <<world, line, buffer>> PROVE AnswerTypes'
  BY <1>1, <1>2 DEF AnswerTypes, Answers
<1>3. ASSUME NEW cl \in Client, NEW i \in world.mapped, open_port(cl, i) PROVE AnswerTypes'
  <2>1. line' = << >> /\ buffer' = buffer /\ world' = world
    BY <1>3 DEF open_port
  <2>2. Answers' = Answers
    BY <2>1 DEF Answers
  <2> QED BY <1>1, <2>1, <2>2, EmptySeq DEF AnswerTypes
<1>4. ASSUME NEW cl \in Client,
             \/ \E i \in world.mapped : channel_open(cl, i)
             \/ channel_close(cl) \/ batch_hit(cl) \/ read(cl) \/ batch_sampling(cl)
             \/ \E value \in {0, 1} : write(cl, value)
      PROVE  AnswerTypes'
  BY <1>2, <1>4
     DEF channel_open, channel_close, batch_hit, read, batch_sampling, write, worldVars, ioVars
<1>5. CASE read_config \/ read_answer \/ read_rest \/ batch_answer
  <2>1. Ready /\ TakeAnswer /\ world' = world
    BY <1>5 DEF read_config, read_answer, read_rest, batch_answer, worldVars
  <2> QED BY <1>1, <2>1, TakesTypes
<1>6. CASE read_config_fails \/ read_fails
  <2> DEFINE m == Message(BEGINNING, clock)
  <2>1. TimedOut /\ UNCHANGED <<world, clock>>
    BY <1>6 DEF read_config_fails, read_fails
  <2>2. m \in Answers
    BY DEF TimeTypes, Message, Answers
  <2>3. \/ buffer' = buffer
        \/ \E with \in {<< >>, buffer} : buffer' = Append(with, m)
    BY <2>1 DEF TimedOut
  <2> HIDE DEF m
  <2>4. << >> \in Seq(Answers)
    OBVIOUS
  <2>7. \A q \in Seq(Answers) : Append(q, m) \in Seq(Answers)
    BY <2>2, AppendProperties
  <2>5. buffer' \in Seq(Answers)
    BY <1>1, <2>3, <2>4, <2>7
  <2>6. line' = line /\ Answers' = Answers
    BY <2>1 DEF TimedOut, Answers
  <2> QED BY <1>1, <2>5, <2>6 DEF AnswerTypes
<1>7. CASE device_answers
  <2> DEFINE m == Message(Head(polled).of, clock')
  <2>1. /\ Head(polled).of \in Input \cup {CONFIG, REST} /\ world' = world /\ buffer' = buffer
        /\ line' = line \/ line' = Append(line, m)
    BY <1>7 DEF device_answers
  <2>2. m \in Answers
    <3>1. clock' \in 1..world.max_time
      BY <2>1 DEF TimeTypes
    <3> QED BY <2>1, <3>1 DEF Message, Answers
  <2> HIDE DEF m
  <2>3. line' \in Seq(Answers)
    BY <1>1, <2>1, <2>2, AppendProperties
  <2>4. Answers' = Answers
    BY <2>1 DEF Answers
  <2> QED BY <1>1, <2>1, <2>3, <2>4 DEF AnswerTypes
<1>8. CASE device_sets \/ device_misunderstands \/ tick \/ UNCHANGED vars
  BY <1>2, <1>8 DEF device_sets, device_misunderstands, tick, vars, worldVars, ioVars
<1> QED
  BY <1>3, <1>4, <1>5, <1>6, <1>7, <1>8 DEF Next, HostStep

LEMMA StampStep ==
    PortInv /\ NewerInv /\ AnswerTypes /\ StampTypes /\ [Next]_vars => StampTypes'
<1> SUFFICES ASSUME PortInv, NewerInv, AnswerTypes, StampTypes, [Next]_vars
             PROVE  StampTypes'
  OBVIOUS
<1> DEFINE T == 0..world.max_time
           C == {GARBLED} \cup T
<1>1. cache \in [Input -> C] /\ last \in [Input -> T] /\ pos \in Nat
  BY DEF StampTypes, NewerInv, SampleTypes
<1>2. ASSUME world' = world, cache' \in [Input -> C], last' \in [Input -> T]
      PROVE  StampTypes'
  BY <1>2 DEF StampTypes
<1>3. 0 \in T /\ (\A m \in Answers : m.at \in T) /\ \A at \in C : at > 0 => at \in T
  BY BoundsAreNat DEF Answers, GARBLED
<1>16. 0 \in C /\ \A m \in Answers : \A n \in ReadAs(m) : n.at \in C
  BY <1>3 DEF ReadAs, Message
<1> HIDE DEF T, C
<1>4. ASSUME NEW i \in Input, NEW at \in C, NEW status, NEW since, Returns(status, i, at, since)
      PROVE  last' \in [Input -> T]
  BY <1>1, <1>3, <1>4 DEF Returns
<1>5. ASSUME NEW i \in Input, NEW c \in [Input -> C], NEW since, deliver(i, c, since)
      PROVE  cache' \in [Input -> C] /\ last' \in [Input -> T]
  <2>1. c[i] \in C /\ Returns("OK", i, c[i], since) /\ cache' = [c EXCEPT ![i] = 0]
    BY <1>5 DEF deliver
  <2> QED BY <1>16, <2>1, <1>4
<1>6. ASSUME UNCHANGED <<world, cache, last>> PROVE StampTypes'
  BY <1>1, <1>2, <1>6
<1>7. ASSUME NEW cl \in Client, read(cl) PROVE StampTypes'
  <2>1. client[cl] \in Input /\ UNCHANGED <<world, cache>>
    BY <1>7 DEF read, batchVars
  <2>2. last' = last \/ Returns("EIO", client[cl], 0, clock)
    BY <1>7 DEF read, resultVars
  <2>3. last' \in [Input -> T]
    BY <1>1, <1>16, <1>4, <2>1, <2>2
  <2> QED BY <1>1, <1>2, <2>1, <2>3
<1>8. ASSUME NEW cl \in Client, batch_hit(cl) PROVE StampTypes'
  <2>1. client[cl] \in Input /\ deliver(client[cl], cache, clock) /\ world' = world
    BY <1>8 DEF batch_hit, worldVars
  <2> QED BY <1>1, <1>2, <1>5, <2>1
<1>9. ASSUME NEW cl \in Client, batch_sampling(cl) PROVE StampTypes'
  <2>1. /\ cache' = [i \in Input |-> IF i \in ToSet(inputs) THEN 0 ELSE cache[i]]
        /\ UNCHANGED <<world, last>>
    BY <1>9 DEF batch_sampling, resultVars
  <2>2. cache' \in [Input -> C]
    BY <1>1, <1>16, <2>1
  <2> QED BY <1>1, <1>2, <2>1, <2>2
<1>10. ASSUME NEW cl \in Client,
              \/ \E i \in world.mapped : open_port(cl, i) \/ channel_open(cl, i)
              \/ channel_close(cl) \/ \E value \in {0, 1} : write(cl, value)
       PROVE  StampTypes'
  BY <1>6, <1>10
     DEF open_port, channel_open, channel_close, write, worldVars, batchVars, resultVars
<1>11. CASE read_config \/ read_config_fails
  BY <1>6, <1>11 DEF read_config, read_config_fails, worldVars, batchVars, resultVars
<1>12. CASE read_answer
  <2>1. /\ call.of \in Input /\ Ready /\ TakeAnswer /\ UNCHANGED <<world, cache>>
        /\ \E m \in ReadAs(NextAnswer) : \/ Returns("OK", call.of, m.at, call.since)
                                         \/ Returns("ECHRNG", call.of, 0, call.since)
    BY <1>12 DEF read_answer, worldVars, batchVars, NewerInv, ReadsAnInput
  <2>2. \A m \in ReadAs(NextAnswer) : m.at \in C
    BY <1>1, <1>16, <2>1, TakesTypes
  <2>3. last' \in [Input -> T]
    BY <1>16, <1>4, <2>1, <2>2
  <2> QED BY <1>1, <1>2, <2>1, <2>3
<1>13. CASE read_fails
  <2>1. /\ call.of \in Input /\ Returns("ETIMEDOUT", call.of, 0, call.since)
        /\ UNCHANGED <<world, cache>>
    BY <1>13 DEF read_fails, worldVars, batchVars, NewerInv, ReadsAnInput
  <2> QED BY <1>1, <1>2, <1>16, <1>4, <2>1
<1>17. CASE read_rest
  <2>1. /\ call.of \in Input /\ UNCHANGED <<world, cache>>
        /\ last' = last \/ Returns("EINVAL", call.of, 0, call.since)
    BY <1>17 DEF read_rest, worldVars, batchVars, resultVars, NewerInv, ReadsAnInput
  <2>2. last' \in [Input -> T]
    BY <1>1, <1>16, <1>4, <2>1
  <2> QED BY <1>1, <1>2, <2>1, <2>2
<1>14. CASE batch_answer
  <2>5. PICK m \in ReadAs(NextAnswer) :
           LET c == IF m.of \in Input THEN [cache EXCEPT ![m.of] = m.at] ELSE cache
           IN  \/ cache' = c /\ last' = last
               \/ deliver(call.of, c, call.since)
    BY <1>14 DEF batch_answer, resultVars
  <2> DEFINE c == IF m.of \in Input THEN [cache EXCEPT ![m.of] = m.at] ELSE cache
  <2>1. /\ call.of \in Input /\ Ready /\ TakeAnswer /\ world' = world
        /\ \/ cache' = c /\ last' = last
           \/ deliver(call.of, c, call.since)
    BY <1>14, <2>5 DEF batch_answer, worldVars, NewerInv, ReadsAnInput
  <2>2. m.at \in C
    BY <1>1, <1>16, <2>1, TakesTypes
  <2>3. c \in [Input -> C]
    BY <1>1, <2>2
  <2> HIDE DEF c
  <2>4. cache' \in [Input -> C] /\ last' \in [Input -> T]
    BY <1>1, <1>5, <2>1, <2>3
  <2> QED BY <1>2, <2>1, <2>4
<1>15. CASE device_answers \/ device_sets \/ device_misunderstands \/ tick \/ UNCHANGED vars
  BY <1>6, <1>15
     DEF device_answers, device_sets, device_misunderstands, tick, vars, worldVars, batchVars,
         resultVars
<1> QED
  BY <1>7, <1>8, <1>9, <1>10, <1>11, <1>12, <1>13, <1>14, <1>15, <1>17
     DEF Next, HostStep

LEMMA MisunderstoodStep == misunderstood \in BOOLEAN /\ [Next]_vars => misunderstood' \in BOOLEAN
<1> SUFFICES ASSUME misunderstood \in BOOLEAN, [Next]_vars
             PROVE  misunderstood' = misunderstood \/ misunderstood'
  OBVIOUS
<1>1. CASE device_misunderstands
  BY <1>1 DEF device_misunderstands
<1>2. CASE ~device_misunderstands
  BY <1>2
     DEF Next, HostStep, open_port, channel_open, channel_close, read, batch_hit, batch_sampling,
         write, read_config, read_config_fails, read_answer, read_rest, read_fails, batch_answer,
         device_answers, device_sets, tick, vars, outputVars
<1> QED BY <1>1, <1>2

\* The types of Serial2002, for any world: samples carry times the device has
\* reached, what is on the way in either direction is a message the other side
\* knows, torn ones included, and port.count never goes below zero.
THEOREM SerialTypeCorrect == Spec => []TypeOK
<1> DEFINE Types == TimeTypes /\ SentTypes /\ AnswerTypes /\ StampTypes /\ misunderstood \in BOOLEAN
<1>1. Init => Types
  <2> SUFFICES ASSUME Init PROVE Types
    OBVIOUS
  <2>1. world.max_time \in Nat /\ world.max_time > 0 /\ world.max_faults \in Nat
    BY WorldsAssumption DEF Init, World
  <2>2. TimeTypes
    BY <2>1 DEF Init, TimeTypes
  <2>3. SentTypes /\ AnswerTypes
    BY EmptySeq DEF Init, SentTypes, AnswerTypes
  <2>4. StampTypes
    BY <2>1 DEF Init, StampTypes
  <2>5. misunderstood \in BOOLEAN
    BY Zenon DEF Init
  <2> QED BY <2>2, <2>3, <2>4, <2>5
<1>2. PortInv /\ NewerInv /\ WriteInv /\ Types /\ [Next]_vars => Types'
  BY TimeStep, SentStep, AnswerStep, StampStep, MisunderstoodStep
<1>3. PortInv /\ NewerInv /\ WriteInv /\ Types => TypeOK
  BY TypesTogether
<1> QED
  BY <1>1, <1>2, <1>3, PortInit, PortStep, NewerInit, NewerStep, WriteInit, WriteStep, PTL DEF Spec
=============================================================================
