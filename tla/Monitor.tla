------------------------------- MODULE Monitor -------------------------------
(***************************************************************************)
(* gym's Monitor: a wrapper that writes to a directory the statistics and  *)
(* the videos of the episodes of an environment, and a manifest that says  *)
(* which files they are; and load_results(), which reads them back.        *)
(*                                                                         *)
(* Processes run one after another over one directory, each with monitors  *)
(* one after another.  A call changes memory at once and leaves its writes *)
(* in io, done one by one in order: a process may be killed between any    *)
(* two of them.  Memory dies with the process.  The name of a file is its  *)
(* kind, the infix of the monitor (its number in the process, and the uid  *)
(* it was given or os.getpid(), which the system may give again) and, for  *)
(* videos, the episode; a kind that ends in ~ is the temporary file of     *)
(* atomic_write().                                                         *)
(***************************************************************************)
EXTENDS Integers, Sequences, FiniteSets

CONSTANTS Plans,         \* sequences of the monitors that are made, each with the arguments of Monitor(),
                         \* what its environment renders, whether the program changes its mode, and
                         \* the bounds episodes, steps (of an episode) and resets
          Pids,          \* numbers that the system may give a process, one after another to several
          MaxProcesses   \* bound: processes

\* The arguments of Monitor() (uid 0 is none), what render() may give, and the bounds.
Options == [uid : Nat, force : BOOLEAN, resume : BOOLEAN, write_upon_reset : BOOLEAN, autoreset : BOOLEAN, videos : BOOLEAN,
            mode : {"none", "rgb_array", "ansi"}, async : BOOLEAN, frames : SUBSET {"good", "none", "bad", "raise"},
            evaluates : BOOLEAN, episodes : Nat, steps : Nat, resets : Nat]

ASSUME MonitorAssumption == Plans \subseteq Seq(Options) /\ Pids \subseteq Nat /\ MaxProcesses \in Nat

Seqs == INSTANCE SequencesExt

VARIABLES plan,     \* the monitors that are still to be made
          files,    \* the directory: what each file holds
          io,       \* writes of the last call that are still to be done
          mon,      \* the monitor of the process, NoMonitor before one is made
          pid,      \* the process and its number for the system, next_id of its closer and whether it runs
          made,     \* every monitor that was made: its process and its infix
          history,  \* every episode that the environments completed: its monitor (a place in made), its
                    \* length, and whether step() raised before it was counted
          torn      \* a process was killed in the middle of clear_monitor_files()
vars == <<plan, files, io, mon, pid, made, history, torn>>

NoMonitor == [enabled |-> FALSE, id |-> <<0, 0>>]
Torn == [whole |-> FALSE]

Init == /\ plan \in Plans /\ files = << >> /\ io = <<>> /\ mon = NoMonitor /\ made = <<>> /\ history = <<>> /\ torn = FALSE
        /\ \E os \in Pids : pid = [n |-> 1, os |-> os, next_id |-> 0, alive |-> TRUE]

-----------------------------------------------------------------------------
(* Writes.                                                                 *)

Write(name, content) == [op |-> "write", name |-> name, content |-> content]
Unlink(name) == [op |-> "unlink", name |-> name]

\* atomic_write(): a temporary file is opened, filled and renamed.
atomic_write(kind, tmp, id, content) ==
  <<Write(<<tmp, id>>, Torn), Write(<<tmp, id>>, content),
    [op |-> "replace", name |-> <<tmp, id>>, to |-> <<kind, id>>]>>

Put(name, content) == [n \in DOMAIN files \cup {name} |-> IF n = name THEN content ELSE files[n]]
Without(names) == [n \in DOMAIN files \ names |-> files[n]]

\* clear_monitor_files() unlinks in the order of os.listdir(), any.
DoIO ==
  /\ io # <<>> /\ pid.alive
  /\ LET w == Head(io)
     IN  CASE w.op = "write" -> files' = Put(w.name, w.content) /\ io' = Tail(io)
           [] w.op = "touch" -> files' = (IF w.name \in DOMAIN files THEN files ELSE Put(w.name, Torn)) /\ io' = Tail(io)
           [] w.op = "unlink" -> files' = Without({w.name}) /\ io' = Tail(io)
           [] w.op = "replace" -> files' = [n \in (DOMAIN files \ {w.name}) \cup {w.to} |->
                                              IF n = w.to THEN files[w.name] ELSE files[n]]
                                  /\ io' = Tail(io)
           [] w.op = "clear" -> \E n \in w.names : files' = Without({n})
                                  /\ io' = IF w.names = {n} THEN Tail(io)
                                           ELSE <<[w EXCEPT !.names = @ \ {n}]>> \o Tail(io)
  /\ UNCHANGED <<plan, mon, pid, made, history, torn>>

-----------------------------------------------------------------------------
(* StatsRecorder.  A timestamp is the place of the episode in history.     *)

NewStats == [episodes |-> <<>>, types |-> <<>>, type |-> "t", steps |-> 0, done |-> "None", closed |-> FALSE]

\* before_step() and before_reset() raise unless these hold.
MayStep(st) == ~st.closed /\ st.done = "no"
MayReset(st) == ~st.closed /\ ~(st.done = "no" /\ st.steps > 0)

AfterReset(st) == [st EXCEPT !.done = "no", !.steps = 0, !.types = Append(@, st.type)]
AfterStep(st, done, autoreset) ==
  LET s == [st EXCEPT !.steps = @ + 1]
      saved == [s EXCEPT !.done = "yes", !.episodes = Append(@, [time |-> Len(history) + 1, len |-> s.steps])]
  IN  IF ~done THEN s ELSE IF autoreset THEN AfterReset(saved) ELSE saved

StatsFile(st) == [whole |-> TRUE, episodes |-> st.episodes, types |-> st.types]
StatsFlush(id, st) == IF st.closed THEN <<>> ELSE atomic_write("stats", "stats~", id, StatsFile(st))

-----------------------------------------------------------------------------
(* VideoRecorder.  A video holds the frames that were encoded.             *)

capped_cubic_video_schedule(episode_id) == \E k \in 0..9 : k * k * k = episode_id   \* below 1000
VideoEnabled(m, ep) == m.opt.videos /\ m.opt.mode # "none" /\ capped_cubic_video_schedule(ep)

NoVideo == [enabled |-> FALSE]
NewVideo(m) == IF VideoEnabled(m, m.episode_id)
               THEN [enabled |-> TRUE, ep |-> m.episode_id, encoder |-> "None", broken |-> FALSE]
               ELSE NoVideo
VideoPath(m, v) == <<"video", m.id, v.ep>>
MetaPath(m, v) == <<"meta", m.id, v.ep>>
Meta(empty, broken) == [whole |-> TRUE, empty |-> empty, broken |-> broken]
\* The constructor touches the file and writes the metadata.
TouchVideo(m, v) ==
  IF ~v.enabled THEN <<>>
  ELSE <<[op |-> "touch", name |-> VideoPath(m, v)], Write(MetaPath(m, v), Meta(FALSE, FALSE))>>

functional(v) == v.enabled /\ ~v.broken

\* capture_frame(): what render() gives is a good frame, none, a frame that the
\* encoder refuses ("bad"), or an exception of its own.  A refused frame of text raises
\* and leaves an encoder with no frames, if it was the first.
Frames(m, v) == IF functional(v) THEN m.opt.frames ELSE {"skip"}
Captured(m, v, frame) ==
  CASE frame \in {"skip", "raise"} -> v
    [] frame = "good" -> [v EXCEPT !.encoder = "frames"]
    [] frame = "none" -> IF m.opt.async THEN v ELSE [v EXCEPT !.broken = TRUE]
    [] frame = "bad" -> IF m.opt.mode = "ansi" THEN [v EXCEPT !.encoder = IF @ = "None" THEN "empty" ELSE @]
                        ELSE [v EXCEPT !.encoder = "frames", !.broken = TRUE]
Raises(m, frame) == frame = "raise" \/ (frame = "bad" /\ m.opt.mode = "ansi")

\* close() raises for a text encoder without frames: max() of nothing.
CloseRaises(v) == v.enabled /\ v.encoder = "empty"
CloseVideo(m, v) ==
  IF ~v.enabled THEN <<>>
  ELSE (IF v.encoder = "None" THEN <<Unlink(VideoPath(m, v))>> ELSE <<Write(VideoPath(m, v), [whole |-> TRUE])>>)
         \o (IF v.broken THEN <<Unlink(VideoPath(m, v))>> ELSE <<>>)
         \o <<Write(MetaPath(m, v), Meta(v.encoder = "None", v.broken))>>

\* _close_video_recorder() lists the video.  The variant forgets to.
NeverListed(m) == m.videos
Listed(m) == IF functional(m.video) THEN Append(m.videos, <<VideoPath(m, m.video), MetaPath(m, m.video)>>)
             ELSE m.videos

\* reset_video_recorder(): the changes to the monitor and the writes.
ResetVideo(m, frame) ==
  LET v == NewVideo(m) IN [m EXCEPT !.videos = Listed(m), !.video = Captured(m, v, frame)]
ResetVideoIO(m) == CloseVideo(m, m.video) \o TouchVideo(m, NewVideo(m))

-----------------------------------------------------------------------------
(* Monitor.                                                                *)

Manifest(m) == [whole |-> TRUE, stats |-> <<"stats", m.id>>, videos |-> m.videos]

\* _flush(): the statistics, then the manifest that names them.  And the other
\* way round.
FlushManifestFirst(m, force) ==
  IF m.opt.write_upon_reset \/ force
  THEN atomic_write("manifest", "manifest~", m.id, Manifest(m)) \o StatsFlush(m.id, m.stats) ELSE <<>>
Flush(m, force) ==
  IF m.opt.write_upon_reset \/ force
  THEN StatsFlush(m.id, m.stats) \o atomic_write("manifest", "manifest~", m.id, Manifest(m)) ELSE <<>>

detect_training_manifests == {n \in DOMAIN files : n[1] \in {"manifest", "manifest~"}}

Ready == pid.alive /\ io = <<>>

\* The Closer counts the monitors of the process.  The variant gives the number
\* of a closed one again.
NumberAgain == pid.next_id
generate_next_id == pid.next_id + 1

\* Monitor(): of the same process once its other monitor is closed, and of a
\* new one when the last is gone.  It raises if the directory has manifests,
\* which it may clear (force) or keep (resume).  Its files may have the names of
\* another process's, if that had the same uid or number.
file_infix(opt) == <<pid.next_id, IF opt.uid # 0 THEN opt.uid ELSE pid.os>>
Start ==
  /\ plan # <<>> /\ Ready /\ ~mon.enabled
  /\ LET opt == Head(plan)
     IN  /\ opt.force \/ opt.resume \/ detect_training_manifests = {}
         /\ io' = IF opt.force /\ files # << >> THEN <<[op |-> "clear", names |-> DOMAIN files]>> ELSE <<>>
         /\ mon' = [enabled |-> TRUE, id |-> file_infix(opt), run |-> Len(made) + 1, opt |-> opt, stats |-> NewStats,
                    episode_id |-> 0, videos |-> <<>>, video |-> NoVideo, taken |-> 0, resets |-> 0]
         /\ made' = Append(made, [process |-> pid.n, id |-> file_infix(opt)])
         /\ torn' = (torn /\ ~opt.force)
  /\ pid' = [pid EXCEPT !.next_id = generate_next_id]
  /\ plan' = Tail(plan)
  /\ UNCHANGED <<files, history>>

SetMode == /\ Ready /\ mon.enabled /\ mon.opt.evaluates /\ mon.stats.type = "t" /\ ~mon.stats.closed
           /\ mon' = [mon EXCEPT !.stats.type = "e"]
           /\ UNCHANGED <<plan, files, io, pid, made, history, torn>>

\* reset().  If the old recorder does not close, or the first frame raises, the
\* episode number is not bumped and nothing is flushed.  taken counts the steps of
\* the environment, whose own reset() comes first.
Reset ==
  /\ Ready /\ mon.enabled /\ MayReset(mon.stats) /\ mon.resets < mon.opt.resets
  /\ LET m == [mon EXCEPT !.stats = AfterReset(@), !.taken = 0, !.resets = @ + 1]
     IN  IF CloseRaises(m.video) THEN mon' = m /\ UNCHANGED io
         ELSE \E frame \in Frames(m, NewVideo(m)) :
                LET r == ResetVideo(m, frame)
                IN  IF Raises(m, frame) THEN mon' = r /\ io' = ResetVideoIO(m)
                    ELSE LET b == [r EXCEPT !.episode_id = @ + 1]
                         IN  mon' = b /\ io' = ResetVideoIO(m) \o Flush(b, FALSE)
  /\ UNCHANGED <<plan, files, pid, made, history, torn>>

\* step().  With autoreset the environment has begun its next episode when it
\* returns, and the video and the flush come before the last one is counted: any
\* exception of theirs leaves it uncounted, and its steps in the count.
Step(done) ==
  /\ Ready /\ mon.enabled /\ MayStep(mon.stats) /\ mon.taken < mon.opt.steps
  /\ done => /\ Cardinality({t \in DOMAIN history : history[t].run = mon.run}) < mon.opt.episodes
             /\ mon.opt.autoreset => mon.resets < mon.opt.resets
  /\ LET auto == done /\ mon.opt.autoreset
         m == [mon EXCEPT !.taken = IF auto THEN 0 ELSE @ + 1]
         Ended(lost) == history' = IF done THEN Append(history, [run |-> mon.run, len |-> mon.taken + 1, lost |-> lost])
                                   ELSE history
     IN  IF auto /\ CloseRaises(m.video) THEN mon' = m /\ UNCHANGED io /\ Ended(TRUE)
         ELSE \E first \in IF auto THEN Frames(m, NewVideo(m)) ELSE {"skip"} :
           LET r == IF auto THEN ResetVideo(m, first) ELSE m
               b == IF auto THEN [r EXCEPT !.episode_id = @ + 1, !.resets = @ + 1] ELSE m
               writes == IF auto THEN ResetVideoIO(m) ELSE <<>>
           IN  IF auto /\ Raises(m, first) THEN mon' = r /\ io' = writes /\ Ended(TRUE)
               ELSE \E frame \in Frames(b, b.video) :
                      /\ mon' = [b EXCEPT !.stats = AfterStep(@, done, mon.opt.autoreset),
                                          !.video = Captured(b, @, frame)]
                      /\ io' = writes \o IF auto THEN Flush(b, FALSE) ELSE <<>>
                      /\ Ended(FALSE)
  /\ UNCHANGED <<plan, files, pid, made, torn>>

\* close(), by the program, by __del__ or by the closer when the program ends.
\* If the recorder does not close, the statistics are closed all the same.
Close ==
  /\ Ready /\ mon.enabled
  /\ LET closed == [mon EXCEPT !.stats.closed = TRUE]
         stats == StatsFlush(mon.id, mon.stats)
     IN  IF CloseRaises(mon.video) THEN mon' = closed /\ io' = stats
         ELSE LET m == [closed EXCEPT !.videos = Listed(mon)]
              IN  /\ mon' = [m EXCEPT !.enabled = FALSE]
                  /\ io' = stats \o CloseVideo(mon, mon.video) \o Flush(m, TRUE)
  /\ UNCHANGED <<plan, files, pid, made, history, torn>>

\* The process ends, or is killed at any point.
Exit == /\ Ready /\ ~mon.enabled
        /\ pid' = [pid EXCEPT !.alive = FALSE] /\ mon' = NoMonitor
        /\ UNCHANGED <<plan, files, io, made, history, torn>>
Kill == /\ pid.alive
        /\ pid' = [pid EXCEPT !.alive = FALSE] /\ mon' = NoMonitor /\ io' = <<>>
        /\ torn' = (torn \/ (io # <<>> /\ Head(io).op = "clear"))
        /\ UNCHANGED <<plan, files, made, history>>
Launch == /\ ~pid.alive /\ plan # <<>> /\ pid.n < MaxProcesses
          /\ \E os \in Pids : pid' = [n |-> pid.n + 1, os |-> os, next_id |-> 0, alive |-> TRUE]
          /\ UNCHANGED <<plan, files, io, mon, made, history, torn>>

Next == \/ DoIO \/ Start \/ SetMode \/ Reset \/ Close \/ Exit \/ Kill \/ Launch
        \/ \E done \in BOOLEAN : Step(done)

Spec == Init /\ [][Next]_vars

-----------------------------------------------------------------------------
(* load_results().                                                         *)

\* It raises unless every manifest it finds and their statistics can be read.
Loads == \A n \in detect_training_manifests :
           files[n].whole /\ files[n].stats \in DOMAIN files /\ files[files[n].stats].whole

\* merge_stats_files(), the manifests in some order: the episodes and the types of
\* the statistics that each names, one file after another; a file without
\* episodes is passed over.
StatsOf(order, i) == files[files[order[i]].stats]
Episodes(order) == Seqs!FlattenSeq([i \in DOMAIN order |-> StatsOf(order, i).episodes])
Types(order) == Seqs!FlattenSeq([i \in DOMAIN order |-> IF StatsOf(order, i).episodes = <<>> THEN <<>>
                                                       ELSE StatsOf(order, i).types])

\* argsort() of the times: in each place, the index of the episode with as many
\* before it.  The variant keeps the order of the files.
ArgsortAsRead(order) == [i \in DOMAIN Episodes(order) |-> i]
EarlierThan(e, i) == {j \in DOMAIN e : e[j].time < e[i].time \/ (e[j].time = e[i].time /\ j < i)}
argsort(order) ==
  LET e == Episodes(order)
  IN  [place \in DOMAIN e |-> CHOOSE i \in DOMAIN e : Cardinality(EarlierThan(e, i)) = place - 1]

\* Its types are put in order as if there were one for each episode.
merge_stats_files(order) ==
  LET idxs == argsort(order)
  IN  [i \in DOMAIN idxs |-> [time |-> Episodes(order)[idxs[i]].time, len |-> Episodes(order)[idxs[i]].len,
                              type |-> Types(order)[idxs[i]]]]
Orders == Seqs!SetToSeqs(detect_training_manifests)

-----------------------------------------------------------------------------
(* Properties.                                                             *)

\* Whatever is killed, and whenever, what is found under the names that
\* load_results() reads is sound: statistics and manifests are whole
\* ("Writeable file object that atomically updates a file"), and no manifest
\* names statistics that are not there, unless a clear was cut.
Clearing == io # <<>> /\ Head(io).op = "clear"
DirectorySound ==
  \A n \in DOMAIN files :
    /\ n[1] \in {"stats", "manifest"} => files[n].whole
    /\ n[1] = "manifest" => files[n].stats \in DOMAIN files \/ torn \/ Clearing

\* The last episode of a run before the t-th of the history h was lost.
LostBefore(h, run, t) ==
  \E u \in 1..(t - 1) : h[u].run = run /\ h[u].lost /\ \A v \in (u + 1)..(t - 1) : h[v].run # run

\* When no temporary manifest is left behind, what load_results() merges, in
\* whatever order the directory lists the manifests, is each episode once, in
\* the order in which they ended and with its length (unless the steps of one
\* that was lost were counted with it); of the episodes of one monitor, the
\* first ones, but for those that step() raised before counting.
Leftovers == \E n \in DOMAIN files : n[1] = "manifest~"
MergeExact ==
  Loads /\ ~Leftovers =>
    \A order \in Orders :
      LET merged == merge_stats_files(order)
          times == {merged[i].time : i \in DOMAIN merged}
      IN  /\ \A i \in 1..(Len(merged) - 1) : merged[i].time < merged[i + 1].time
          /\ \A i \in DOMAIN merged :
               LET t == merged[i].time
               IN  merged[i].len = history[t].len \/ LostBefore(history, history[t].run, t)
          /\ \A t \in times : \A u \in 1..(t - 1) : history[u].run = history[t].run => u \in times \/ history[u].lost

\* Two processes had a monitor with the same infix.
Shared(id) ==
  \E i, k \in DOMAIN made : made[i].id = id /\ made[k].id = id /\ made[i].process # made[k].process

\* A monitor that has closed has left everything on disk: all its episodes that
\* were counted, and each of its videos, either a complete file or noted as empty
\* or broken, with no video out of the list, unless another process had its names.
ClosedKept ==
  mon # NoMonitor /\ ~mon.enabled /\ io = <<>> =>
    LET man == <<"manifest", mon.id>>
        st == <<"stats", mon.id>>
    IN  /\ {man, st} \subseteq DOMAIN files
        /\ {files[st].episodes[i].time : i \in DOMAIN files[st].episodes} =
             {t \in DOMAIN history : history[t].run = mon.run /\ ~history[t].lost}
        /\ LET paths == {files[man].videos[i][1] : i \in DOMAIN files[man].videos}
           IN  /\ ~Shared(mon.id) => {n \in DOMAIN files : n[1] = "video" /\ n[2] = mon.id} \subseteq paths
               /\ \A p \in paths : IF p \in DOMAIN files THEN files[p].whole
                                   ELSE LET meta == files[<<"meta", p[2], p[3]>>] IN meta.empty \/ meta.broken

\* Statistics that are on disk stay there, and only grow, until a monitor is
\* started with force; unless another process had a monitor of the same name.
StatsGrow ==
  [][\A n \in DOMAIN files : n[1] = "stats" /\ ~Clearing /\ ~Shared(n[2]) =>
       /\ n \in DOMAIN files'
       /\ Seqs!IsPrefix(files[n].episodes, files'[n].episodes)]_vars
==============================================================================
