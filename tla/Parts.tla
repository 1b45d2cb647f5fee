------------------------------- MODULE Parts -------------------------------
(***************************************************************************)
(* The parts of the system that run on their own, next to each other: the  *)
(* sums of a key (KeySums), the hashes of a message (HashCircuits) and the *)
(* stream of labels (LabelStream).  A behaviour is one of one subject; the *)
(* other two rest.                                                         *)
(***************************************************************************)
EXTENDS KeySums, HashCircuits, LabelStream

VARIABLE subject

Init ==
    /\ subject \in {"sums", "hashes", "labels"}
    /\ SumInit /\ HashInit /\ StreamInit
    /\ subject # "sums" => size = 1

Next ==
    /\ UNCHANGED subject
    /\ \/ subject = "sums" /\ SumNext /\ UNCHANGED <<hashvars, streamvars>>
       \/ subject = "hashes" /\ HashNext /\ UNCHANGED <<sumvars, streamvars>>
       \/ subject = "labels" /\ StreamNext /\ UNCHANGED <<sumvars, hashvars>>

Spec == Init /\ [][Next]_<<subject, sumvars, hashvars, streamvars>>

-----------------------------------------------------------------------------

\* The hash circuits are the standards' for every key and message (see
\* HmacStandard and Blake2bStandard), where these are the subject.
HashesStandard == subject = "hashes" => HmacStandard /\ Blake2bStandard

=============================================================================
