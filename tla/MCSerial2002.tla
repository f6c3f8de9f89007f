---------------------------- MODULE MCSerial2002 ----------------------------
(***************************************************************************)
(* Instances of Serial2002 for TLC: a device with two inputs, in the order *)
(* batch_sampling polls them.  Digital, analog and encoder inputs differ   *)
(* in the byte that polls them only.  An answer of a sample is taken to be *)
(* two bytes or more here, so that a timeout may fall inside any of them   *)
(* (a digital one is a single byte), and the samples to have so few bits   *)
(* that what is left of one is never too long to be a message.  The answer *)
(* with the configuration is one message.                                  *)
(***************************************************************************)
EXTENDS Serial2002

Two == <<"channel0", "channel1">>

\* A line without faults; one that delays, loses and cuts answers, also where opening
\* is tried again; a program that also writes; a second session without faults.  The
\* device has no channel2.
Inputs3 == {"channel0", "channel1", "channel2"}
Calm == [mapped |-> Inputs3, may_timeout |-> FALSE, max_faults |-> 0,
         max_time |-> 8, max_sessions |-> 1]
Faulty == [mapped |-> Inputs3, may_timeout |-> TRUE, max_faults |-> 1,
           max_time |-> 5, max_sessions |-> 1]
Retrying == [mapped |-> Inputs3, may_timeout |-> TRUE, max_faults |-> 1,
             max_time |-> 3, max_sessions |-> 2]
Writing == [mapped |-> {"channel0", "output0"}, may_timeout |-> TRUE, max_faults |-> 2,
            max_time |-> 3, max_sessions |-> 1]
Reopened == [mapped |-> Inputs3, may_timeout |-> FALSE, max_faults |-> 0,
             max_time |-> 6, max_sessions |-> 2]

AllWorlds == {Calm, Faulty, Retrying, Writing}
OnlyReopened == {Reopened}
=============================================================================
