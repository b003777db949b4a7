------------------------------ MODULE MCMonitor ------------------------------
(* Plans of Monitor for TLC: runs that are resumed, cleared and refused,    *)
(* and one for each way in which recording may fail.                        *)
EXTENDS Monitor

Plain == [uid |-> 0, force |-> FALSE, resume |-> FALSE, write_upon_reset |-> FALSE, autoreset |-> FALSE, videos |-> FALSE,
          mode |-> "rgb_array", async |-> FALSE, frames |-> {"good"}, evaluates |-> FALSE,
          episodes |-> 1, steps |-> 1, resets |-> 2]
Flushing == [Plain EXCEPT !.write_upon_reset = TRUE, !.episodes = 2]
Resuming == [Plain EXCEPT !.resume = TRUE, !.steps = 2]
Video == [Plain EXCEPT !.videos = TRUE, !.episodes = 2, !.resets = 3]

MCPlans == {<<[Flushing EXCEPT !.evaluates = TRUE], Resuming>>,
            <<[Flushing EXCEPT !.autoreset = TRUE, !.steps = 2], [Resuming EXCEPT !.autoreset = TRUE, !.write_upon_reset = TRUE]>>,
            <<[Plain EXCEPT !.mode = "none", !.videos = TRUE], [Flushing EXCEPT !.force = TRUE]>>,
            <<Plain, Resuming, Plain>>,
            <<[Video EXCEPT !.uid = 3], [Video EXCEPT !.uid = 3, !.resume = TRUE, !.episodes = 1, !.resets = 1]>>,
            <<[Video EXCEPT !.async = TRUE, !.frames = {"good", "none"}]>>,
            <<[Video EXCEPT !.frames = {"good", "none", "bad"}, !.autoreset = TRUE]>>,
            <<[Video EXCEPT !.frames = {"good", "raise"}, !.steps = 2]>>,
            <<[Video EXCEPT !.frames = {"good", "raise"}, !.autoreset = TRUE, !.steps = 2, !.episodes = 3]>>,
            <<[Video EXCEPT !.mode = "ansi", !.frames = {"good", "bad"}, !.autoreset = TRUE]>>,
            <<[Video EXCEPT !.mode = "ansi", !.frames = {"good", "bad"}], [Plain EXCEPT !.force = TRUE]>>}
MCPids == {1, 2}
==============================================================================
