-------------------------- MODULE MCVoicePipeline --------------------------
(* Instances of VoicePipeline for TLC. *)
EXTENDS VoicePipeline

MCThreads == 1..3

\* Two utterances spoken to the end across one stop, and two stops that may
\* overlap with little audio.
MCLoads == {[chunks |-> 4, stops |-> 1], [chunks |-> 2, stops |-> 2]}

\* One utterance and one sleep.
MCWakeLoads == {[chunks |-> 1, stops |-> 1]}
=============================================================================
