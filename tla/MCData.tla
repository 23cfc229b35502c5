--------------------------------- MODULE MCData ---------------------------------
(***************************************************************************)
(* The small parts - what decodes a stream, what is sent when, and what is *)
(* kept of a measurement and made of it - checked in one run: a behaviour  *)
(* is one of a response stream, a control stream, a fixed-rate schedule,   *)
(* load workers, ring buffers, samplers or a comparison, and the other     *)
(* parts stay as they are at first.                                        *)
(***************************************************************************)
EXTENDS ResponseParser, NdjsonDecoder, RateSchedule, LoadMeasurement, RingBuffers,
        MemorySampling, Regression

VARIABLE part   \* which of them the behaviour is about

\* A latency on each side of every edge of the histogram.
SomeEvents ==
    LET memory == [op : {"memory"}, usage : {[heapUsed |-> 3, external |-> 1, arrayBuffers |-> 1],
                                             [heapUsed |-> 2, external |-> 2, arrayBuffers |-> 1]}]
        edges == {NonFinite, 0, Lowest - 1, Lowest, Lowest + 1, Highest, Highest + 1}
    IN  [http1 |-> memory
             \cup [op : {"response"}, status : {200}, ms : edges]
             \cup [op : {"response"}, status : {304}, ms : {Lowest + 1}]
             \cup [op : {"requests"}, n : {2}, bytes : {4}]
             \cup [op : {"write", "backpressure", "timeout"}]
             \cup [op : {"bytes"}, n : {3}]
             \cup [op : {"wait"}, ms : {2}],
         websocket |-> memory
             \cup [op : {"message"}, ms : {0, Highest}, bytes : {3}]
             \cup [op : {"send"}, bytes : {2}]
             \cup [op : {"connection", "protocol"}]
             \cup [op : {"aborted", "dropped"}, n : {2}]
             \cup [op : {"buffered"}, n : {1, 2}]
             \cup [op : {"lag"}, ms : {1, 3}]]

Symmetry == Permutations(Workers)

NoResponses ==
    /\ written = <<>> /\ method = "GET" /\ unread = <<>> /\ input = <<>>
    /\ parser = Fresh /\ reported = <<>>

NoFrames ==
    /\ frames = <<>> /\ wire = <<>> /\ buffered = <<>> /\ messages = <<>>
    /\ loop = FALSE /\ failed = FALSE /\ ended = TRUE /\ cuts = {}

Init ==
    /\ part \in {"responses", "frames", "schedule", "load", "rings", "samplers", "comparison"}
    /\ IF part = "responses" THEN ParserInit ELSE NoResponses
    /\ IF part = "frames" THEN DecoderInit ELSE NoFrames
    /\ ScheduleInit /\ MeasurementInit /\ RingInit /\ SamplingInit /\ RegressionInit
    /\ part = "load" \/ protocol = "http1"
    /\ part = "comparison" \/ Len(plan) = 2

Streams == <<parserVars, decoderVars, scheduleVars>>

Next ==
    /\ UNCHANGED part
    /\ \/ /\ part = "responses" /\ ParserNext
          /\ UNCHANGED <<decoderVars, scheduleVars, measurementVars, ringVars, samplingVars, regressionVars>>
       \/ /\ part = "frames" /\ DecoderNext
          /\ UNCHANGED <<parserVars, scheduleVars, measurementVars, ringVars, samplingVars, regressionVars>>
       \/ /\ part = "schedule" /\ ScheduleNext
          /\ UNCHANGED <<parserVars, decoderVars, measurementVars, ringVars, samplingVars, regressionVars>>
       \/ /\ part = "load" /\ MeasurementNext
          /\ UNCHANGED <<Streams, ringVars, samplingVars, regressionVars>>
       \/ /\ part = "rings" /\ RingNext
          /\ UNCHANGED <<Streams, measurementVars, samplingVars, regressionVars>>
       \/ /\ part = "samplers" /\ SamplingNext
          /\ UNCHANGED <<Streams, measurementVars, ringVars, regressionVars>>
       \/ /\ part = "comparison" /\ RegressionNext
          /\ UNCHANGED <<Streams, measurementVars, ringVars, samplingVars>>

Spec == Init /\ [][Next]_<<part, Streams, measurementVars, ringVars, samplingVars, regressionVars>>
================================================================================
