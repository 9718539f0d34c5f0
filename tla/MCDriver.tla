------------------------------ MODULE MCDriver ------------------------------
(* The launch files' parameters and the ones that go wrong.                *)
EXTENDS Driver

CONSTANTS l1, l2, DataType, ScanPattern

\* An entry without an address, and two for one lidar: the second one counts.
MCFile == <<[ip |-> l1, options |-> {DataType}],
            [ip |-> NoLidar, options |-> {ScanPattern}],
            [ip |-> l1, options |-> {DataType, ScanPattern}]>>

Launch == [xfer_format |-> 1, multi_topic |-> TRUE, raw_lidar |-> TRUE,
           output_type |-> 0, publish_freq |-> 100,
           summary |-> TRUE, livox_type |-> TRUE, sdk |-> TRUE]

\* 0.1 Hz; absolute times into a bag; and the starts that bring no data.
MCSettings ==
  {[Launch EXCEPT !.publish_freq = 1],
   [Launch EXCEPT !.xfer_format = 0, !.output_type = 1, !.publish_freq = 2000],
   [Launch EXCEPT !.raw_lidar = FALSE], [Launch EXCEPT !.summary = FALSE],
   [Launch EXCEPT !.sdk = FALSE], [Launch EXCEPT !.livox_type = FALSE]}

\* The lidars are not in the file, and each has a topic of its own.
NoFile == <<>>
MCLaunch == {Launch}
=============================================================================
