------------------------- MODULE MCResourceGovernor -------------------------
(* Instances of ResourceGovernor for TLC. *)
EXTENDS ResourceGovernor

CONSTANTS g1, g2, j1     \* two loop threads and a transcription, model values

Reading(c, m, b, h, s, k) ==
    [cpu |-> c, mem |-> m, battery |-> b, hot |-> h, asleep |-> s, mic |-> k]

\* Calm; one pressure; both; calm and hot; calm on a low battery; a critical
\* battery and a failed microphone under pressure; asleep.
Quiet  == Reading(FALSE, FALSE, "ok", FALSE, FALSE, TRUE)
Busy   == Reading(TRUE, FALSE, "ok", FALSE, FALSE, TRUE)
Strain == Reading(TRUE, TRUE, "ok", FALSE, FALSE, TRUE)
Hot    == Reading(FALSE, FALSE, "ok", TRUE, FALSE, TRUE)
LowBattery == Reading(FALSE, FALSE, "low", FALSE, FALSE, TRUE)
Worst  == Reading(FALSE, TRUE, "critical", FALSE, FALSE, FALSE)
Asleep == Reading(FALSE, FALSE, "ok", FALSE, TRUE, TRUE)

Readings == {Quiet, Busy, Strain, Hot, LowBattery, Worst, Asleep}

\* One loop thread under all the readings; a transcription that the unloads
\* may meet; downgrading disabled; a stop and a start, after which the old
\* loop may go on beside the new one, while the pressure falls or with a
\* transcription that outlives the session.
MCSetups ==
    {[downgrade |-> TRUE, loops |-> {g1}, jobs |-> {}, changes |-> 1, stops |-> 0,
      first |-> {Busy, LowBattery, Asleep}, envs |-> Readings],
     [downgrade |-> TRUE, loops |-> {g1}, jobs |-> {j1}, changes |-> 1, stops |-> 0,
      first |-> {Strain}, envs |-> {Worst}],
     [downgrade |-> FALSE, loops |-> {g1}, jobs |-> {}, changes |-> 1, stops |-> 0,
      first |-> {Quiet, LowBattery}, envs |-> {Quiet, Busy}],
     [downgrade |-> TRUE, loops |-> {g1, g2}, jobs |-> {}, changes |-> 1, stops |-> 1,
      first |-> {Busy}, envs |-> {Quiet}],
     [downgrade |-> TRUE, loops |-> {g1, g2}, jobs |-> {j1}, changes |-> 0, stops |-> 1,
      first |-> {Strain}, envs |-> {}]}
=============================================================================
