--------------------------- MODULE MonitorProofs ---------------------------
(***************************************************************************)
(* Proofs about Monitor, for any plans of monitors and any number of       *)
(* processes over the directory.                                           *)
(***************************************************************************)
EXTENDS Monitor, SequenceTheorems, FiniteSetTheorems, NaturalsInduction, WellFoundedInduction, TLAPS

-----------------------------------------------------------------------------
(* Sequences of writes.                                                    *)

IsSeq(s) == s \in Seq({s[i] : i \in DOMAIN s})

LEMMA SeqFacts ==
  ASSUME NEW s, IsSeq(s)
  PROVE  Len(s) \in Nat /\ DOMAIN s = 1..Len(s)
BY DEF IsSeq

LEMMA AnySeq == ASSUME NEW S, NEW s \in Seq(S) PROVE IsSeq(s)
<1>1. s \in [1..Len(s) -> {s[i] : i \in DOMAIN s}] /\ Len(s) \in Nat
  BY LenProperties
<1>. QED BY <1>1 DEF IsSeq

LEMMA Concat ==
  ASSUME NEW s, NEW t, IsSeq(s), IsSeq(t)
  PROVE  /\ IsSeq(s \o t)
         /\ Len(s \o t) = Len(s) + Len(t)
         /\ \A i \in 1..(Len(s) + Len(t)) : (s \o t)[i] = IF i <= Len(s) THEN s[i] ELSE t[i - Len(s)]
<1>. DEFINE S == {s[i] : i \in DOMAIN s} \cup {t[i] : i \in DOMAIN t}
<1>1. s \in Seq(S)
  BY SeqMonotonic DEF IsSeq
<1>2. t \in Seq(S)
  BY SeqMonotonic DEF IsSeq
<1>. HIDE DEF S
<1>3. s \o t \in Seq(S)
  BY <1>1, <1>2, ConcatProperties
<1>. QED BY <1>1, <1>2, <1>3, ConcatProperties, AnySeq

LEMMA PairConcat == ASSUME NEW a, NEW b PROVE <<a>> \o <<b>> = <<a, b>>
<1>. DEFINE S == {a, b}
            s == <<a>>
            t == <<b>>
            u == <<a, b>>
<1>1. s \in Seq(S) /\ t \in Seq(S) /\ u \in Seq(S)
  OBVIOUS
<1>2. Len(s) = 1 /\ Len(t) = 1 /\ Len(u) = 2 /\ s[1] = a /\ t[1] = b /\ u[1] = a /\ u[2] = b
  OBVIOUS
<1>. HIDE DEF S, s, t, u
<1>3. /\ s \o t \in Seq(S) /\ Len(s \o t) = Len(s) + Len(t)
      /\ \A i \in 1..(Len(s) + Len(t)) : (s \o t)[i] = IF i <= Len(s) THEN s[i] ELSE t[i - Len(s)]
  BY <1>1, ConcatProperties
<1>4. Len(s \o t) = 2 /\ (s \o t)[1] = a /\ (s \o t)[2] = b
  BY <1>2, <1>3
<1>5. \A i \in 1..2 : (s \o t)[i] = u[i]
  <2>1. \A i \in 1..2 : i = 1 \/ i = 2
    OBVIOUS
  <2>. QED BY <1>2, <1>4, <2>1
<1>6. s \o t = u
  BY <1>1, <1>2, <1>3, <1>4, <1>5, SeqEqual
<1>. QED BY <1>6 DEF s, t, u

LEMMA TailFacts ==
  ASSUME NEW s, IsSeq(s), s # <<>>
  PROVE  /\ IsSeq(Tail(s)) /\ Len(s) \in Nat /\ Len(s) >= 1
         /\ Head(s) = s[1]
         /\ Len(Tail(s)) = Len(s) - 1
         /\ \A i \in 1..(Len(s) - 1) : Tail(s)[i] = s[i + 1]
<1>1. Tail(s) \in Seq({s[i] : i \in DOMAIN s})
  BY HeadTailProperties DEF IsSeq
<1>2. /\ Len(s) \in Nat /\ Len(s) >= 1 /\ Head(s) = s[1]
      /\ Len(Tail(s)) = Len(s) - 1
      /\ \A i \in 1..(Len(s) - 1) : Tail(s)[i] = s[i + 1]
  BY HeadTailProperties DEF IsSeq
<1>. QED BY <1>1, <1>2, AnySeq

LEMMA PrefixRefl ==
  ASSUME NEW S, NEW s \in Seq(S) PROVE Seqs!IsPrefix(s, s)
BY DEF Seqs!IsPrefix

LEMMA PrefixTrans ==
  ASSUME NEW S, NEW s \in Seq(S), NEW t \in Seq(S), NEW u \in Seq(S),
         Seqs!IsPrefix(s, t), Seqs!IsPrefix(t, u)
  PROVE  Seqs!IsPrefix(s, u)
<1>1. Len(s) \in Nat /\ Len(t) \in Nat /\ Len(u) \in Nat /\ Len(s) <= Len(t) /\ Len(t) <= Len(u)
  BY DEF Seqs!IsPrefix
<1>2. ASSUME NEW i \in 1..Len(s) PROVE s[i] = u[i]
  <2>1. SubSeq(s, 1, Len(s))[i] = SubSeq(t, 1, Len(s))[i]
    BY DEF Seqs!IsPrefix
  <2>2. SubSeq(t, 1, Len(t))[i] = SubSeq(u, 1, Len(t))[i]
    BY DEF Seqs!IsPrefix
  <2>. QED BY <1>1, <2>1, <2>2
<1>3. SubSeq(s, 1, Len(s)) = SubSeq(u, 1, Len(s))
  BY <1>1, <1>2
<1>. QED BY <1>1, <1>3 DEF Seqs!IsPrefix

LEMMA PrefixAppend ==
  ASSUME NEW S, NEW s \in Seq(S), NEW e \in S
  PROVE  Append(s, e) \in Seq(S) /\ Seqs!IsPrefix(s, Append(s, e))
BY DEF Seqs!IsPrefix

-----------------------------------------------------------------------------
(* The writes that a call leaves.                                          *)

\* What the i-th write of s renames, with F the directory before the first.
Filled(s, F, i) == IF i = 1 THEN s[1].name \in DOMAIN F ELSE s[i - 1].op = "write" /\ s[i - 1].name = s[i].name
Source(s, F, i) == IF i = 1 THEN F[s[1].name] ELSE s[i - 1].content

\* The statistics of id are there when the i-th write is done.
Stated(s, F, id, i) ==
  <<"stats", id>> \in DOMAIN F \/ \E j \in 1..(i - 1) : s[j].op = "replace" /\ s[j].to = <<"stats", id>>

Visual(w, id) == w.op \in {"write", "touch", "unlink"} /\ w.name[1] \in {"video", "meta"} /\ w.name[2] = id
Temporary(w, id) == w.op = "write" /\ w.name \in {<<"stats~", id>>, <<"manifest~", id>>}
PutsStats(s, F, id, E, i) ==
  /\ s[i].op = "replace" /\ s[i].name = <<"stats~", id>> /\ s[i].to = <<"stats", id>>
  /\ Filled(s, F, i) /\ Source(s, F, i).whole /\ Source(s, F, i).episodes = E
PutsManifest(s, F, id, i) ==
  /\ s[i].op = "replace" /\ s[i].name = <<"manifest~", id>> /\ s[i].to = <<"manifest", id>>
  /\ Filled(s, F, i) /\ Source(s, F, i).whole /\ Source(s, F, i).stats = <<"stats", id>>
  /\ Stated(s, F, id, i)

\* The writes s of monitor id are safe over the directory F: what they rename is
\* whole, and is the statistics of the episodes E or a manifest that comes after.
Pending(s, F, id, E) ==
  /\ IsSeq(s)
  /\ \A i \in 1..Len(s) : \/ Visual(s[i], id) \/ Temporary(s[i], id)
                          \/ PutsStats(s, F, id, E, i) \/ PutsManifest(s, F, id, i)

Nothing == << >>
OnlyStats(id) == [n \in {<<"stats", id>>} |-> Torn]

LEMMA NoDomain == DOMAIN Nothing = {}
BY DEF Nothing

LEMMA PendingAnywhere ==
  ASSUME NEW s, NEW F, NEW id, NEW E, Pending(s, Nothing, id, E)
  PROVE  Pending(s, F, id, E)
<1>1. IsSeq(s) /\ Len(s) \in Nat
  BY SeqFacts DEF Pending
<1>2. ASSUME NEW i \in 1..Len(s), PutsStats(s, Nothing, id, E, i) PROVE PutsStats(s, F, id, E, i)
  BY <1>2, NoDomain DEF PutsStats, Filled, Source
<1>3. ASSUME NEW i \in 1..Len(s), PutsManifest(s, Nothing, id, i) PROVE PutsManifest(s, F, id, i)
  BY <1>3, NoDomain DEF PutsManifest, Filled, Source, Stated
<1>. QED BY <1>1, <1>2, <1>3 DEF Pending

\* Writes after writes: the second may count on the statistics of the first.
LEMMA PendingConcat ==
  ASSUME NEW s, NEW t, NEW id, NEW E, NEW F,
         Pending(s, Nothing, id, E), Pending(t, F, id, E),
         \/ F = Nothing
         \/ F = OnlyStats(id) /\ \E j \in 1..Len(s) : s[j].op = "replace" /\ s[j].to = <<"stats", id>>
  PROVE  Pending(s \o t, Nothing, id, E)
<1>1. IsSeq(s) /\ IsSeq(t) /\ Len(s) \in Nat /\ Len(t) \in Nat
  BY SeqFacts DEF Pending
<1>. DEFINE u == s \o t
<1>2. IsSeq(u) /\ Len(u) = Len(s) + Len(t)
  BY <1>1, Concat
<1>3. \A i \in 1..Len(s) : u[i] = s[i]
  BY <1>1, Concat
<1>4. \A i \in 1..Len(t) : u[Len(s) + i] = t[i]
  BY <1>1, Concat
<1>. HIDE DEF u
<1>5. ASSUME NEW i \in 1..Len(s)
      PROVE  \/ Visual(u[i], id) \/ Temporary(u[i], id)
             \/ PutsStats(u, Nothing, id, E, i) \/ PutsManifest(u, Nothing, id, i)
  <2>1. u[i] = s[i] /\ (i # 1 => i - 1 \in 1..Len(s) /\ u[i - 1] = s[i - 1]) /\ u[1] = s[1]
    BY <1>1, <1>3
  <2>2. Stated(s, Nothing, id, i) => Stated(u, Nothing, id, i)
    BY <1>1, <1>3 DEF Stated
  <2>3. PutsStats(s, Nothing, id, E, i) => PutsStats(u, Nothing, id, E, i)
    BY <2>1 DEF PutsStats, Filled, Source
  <2>4. PutsManifest(s, Nothing, id, i) => PutsManifest(u, Nothing, id, i)
    BY <2>1, <2>2 DEF PutsManifest, Filled, Source
  <2>. QED BY <2>1, <2>3, <2>4 DEF Pending
<1>6. ASSUME NEW i \in 1..Len(t)
      PROVE  LET k == Len(s) + i
             IN  \/ Visual(u[k], id) \/ Temporary(u[k], id)
                 \/ PutsStats(u, Nothing, id, E, k) \/ PutsManifest(u, Nothing, id, k)
  <2>. DEFINE k == Len(s) + i
  <2>1. u[k] = t[i] /\ k \in Nat /\ (i # 1 => k # 1 /\ u[k - 1] = t[i - 1])
    <3>1. i # 1 => i - 1 \in 1..Len(t) /\ k - 1 = Len(s) + (i - 1)
      BY <1>1
    <3>. QED BY <1>1, <1>4, <3>1
  <2>2. Filled(t, F, i) /\ t[i].name[1] # "stats" => i # 1
    BY NoDomain DEF Filled, OnlyStats
  <2>3. Stated(t, F, id, i) => Stated(u, Nothing, id, k)
    <3>1. CASE \E j \in 1..(i - 1) : t[j].op = "replace" /\ t[j].to = <<"stats", id>>
      <4>1. PICK j \in 1..(i - 1) : t[j].op = "replace" /\ t[j].to = <<"stats", id>>
        BY <3>1
      <4>2. Len(s) + j \in 1..(k - 1) /\ u[Len(s) + j] = t[j]
        BY <1>1, <1>4
      <4>. QED BY <4>1, <4>2 DEF Stated
    <3>2. CASE \E j \in 1..Len(s) : s[j].op = "replace" /\ s[j].to = <<"stats", id>>
      <4>1. PICK j \in 1..Len(s) : s[j].op = "replace" /\ s[j].to = <<"stats", id>>
        BY <3>2
      <4>2. j \in 1..(k - 1) /\ u[j] = s[j]
        BY <1>1, <1>3
      <4>. QED BY <4>1, <4>2 DEF Stated
    <3>. QED BY <3>1, <3>2, NoDomain DEF Stated
  <2>. HIDE DEF k
  <2>4. PutsStats(t, F, id, E, i) => PutsStats(u, Nothing, id, E, k)
    BY <2>1, <2>2 DEF PutsStats, Filled, Source
  <2>5. PutsManifest(t, F, id, i) => PutsManifest(u, Nothing, id, k)
    BY <2>1, <2>2, <2>3 DEF PutsManifest, Filled, Source
  <2>6. QED BY <2>1, <2>4, <2>5 DEF Pending, k
<1>7. ASSUME NEW i \in 1..Len(u), i > Len(s) PROVE i - Len(s) \in 1..Len(t) /\ i = Len(s) + (i - Len(s))
  BY <1>1, <1>2, <1>7
<1>8. ASSUME NEW i \in 1..Len(u)
      PROVE  \/ Visual(u[i], id) \/ Temporary(u[i], id)
             \/ PutsStats(u, Nothing, id, E, i) \/ PutsManifest(u, Nothing, id, i)
  <2>1. CASE i <= Len(s)
    <3>1. i \in 1..Len(s)
      BY <2>1, <1>1
    <3>. QED BY <3>1, <1>5
  <2>2. CASE i > Len(s)
    <3>. DEFINE j == i - Len(s)
    <3>1. j \in 1..Len(t) /\ i = Len(s) + j
      BY <2>2, <1>7
    <3>. HIDE DEF j
    <3>. QED BY <3>1, <1>6
  <2>. QED BY <2>1, <2>2, <1>1, <1>2
<1>. QED BY <1>2, <1>8 DEF Pending, u

VideoWrites(s, id) == IsSeq(s) /\ \A i \in 1..Len(s) : Visual(s[i], id)

LEMMA VideoPending ==
  ASSUME NEW s, NEW id, NEW E, VideoWrites(s, id)
  PROVE  Pending(s, Nothing, id, E)
BY DEF VideoWrites, Pending

LEMMA VideoConcat ==
  ASSUME NEW s, NEW t, NEW id, VideoWrites(s, id), VideoWrites(t, id)
  PROVE  VideoWrites(s \o t, id)
<1>1. IsSeq(s) /\ IsSeq(t) /\ Len(s) \in Nat /\ Len(t) \in Nat
  BY SeqFacts DEF VideoWrites
<1>2. /\ IsSeq(s \o t) /\ Len(s \o t) = Len(s) + Len(t)
      /\ \A i \in 1..(Len(s) + Len(t)) : (s \o t)[i] = IF i <= Len(s) THEN s[i] ELSE t[i - Len(s)]
  BY <1>1, Concat
<1>3. ASSUME NEW i \in 1..Len(s \o t) PROVE Visual((s \o t)[i], id)
  <2>1. i <= Len(s) => i \in 1..Len(s)
    BY <1>1
  <2>2. ~(i <= Len(s)) => i - Len(s) \in 1..Len(t)
    BY <1>1, <1>2
  <2>. QED BY <1>1, <1>2, <2>1, <2>2 DEF VideoWrites
<1>. QED BY <1>2, <1>3 DEF VideoWrites

LEMMA NoWrites == ASSUME NEW id PROVE VideoWrites(<<>>, id)
<1>1. <<>> \in Seq({})
  OBVIOUS
<1>2. IsSeq(<<>>)
  BY <1>1, AnySeq
<1>. QED BY <1>2 DEF VideoWrites

LEMMA OneWrite ==
  ASSUME NEW w, NEW id, Visual(w, id) PROVE VideoWrites(<<w>>, id)
<1>1. <<w>> \in Seq({w})
  OBVIOUS
<1>2. IsSeq(<<w>>)
  BY <1>1, AnySeq
<1>. QED BY <1>2 DEF VideoWrites

LEMMA TwoWrites ==
  ASSUME NEW a, NEW b, NEW id, Visual(a, id), Visual(b, id) PROVE VideoWrites(<<a, b>>, id)
<1>1. <<a, b>> \in Seq({a, b})
  OBVIOUS
<1>2. IsSeq(<<a, b>>)
  BY <1>1, AnySeq
<1>. QED BY <1>2 DEF VideoWrites

LEMMA TouchVideoWrites ==
  ASSUME NEW m, NEW v PROVE VideoWrites(TouchVideo(m, v), m.id)
<1>. DEFINE a == [op |-> "touch", name |-> VideoPath(m, v)]
            b == Write(MetaPath(m, v), Meta(FALSE, FALSE))
<1>1. Visual(a, m.id) /\ Visual(b, m.id)
  BY DEF Visual, VideoPath, MetaPath, Write
<1>. HIDE DEF a, b
<1>2. VideoWrites(<<a, b>>, m.id)
  BY <1>1, TwoWrites
<1>. QED BY <1>2, NoWrites DEF TouchVideo, a, b

LEMMA CloseVideoWrites ==
  ASSUME NEW m, NEW v PROVE VideoWrites(CloseVideo(m, v), m.id)
<1>. DEFINE a == IF v.encoder = "None" THEN <<Unlink(VideoPath(m, v))>> ELSE <<Write(VideoPath(m, v), [whole |-> TRUE])>>
            b == IF v.broken THEN <<Unlink(VideoPath(m, v))>> ELSE <<>>
            c == <<Write(MetaPath(m, v), Meta(v.encoder = "None", v.broken))>>
<1>1. /\ Visual(Unlink(VideoPath(m, v)), m.id) /\ Visual(Write(VideoPath(m, v), [whole |-> TRUE]), m.id)
      /\ Visual(Write(MetaPath(m, v), Meta(v.encoder = "None", v.broken)), m.id)
  BY DEF Visual, VideoPath, MetaPath, Write, Unlink
<1>2. VideoWrites(a, m.id) /\ VideoWrites(b, m.id) /\ VideoWrites(c, m.id)
  BY <1>1, OneWrite, NoWrites
<1>3. CloseVideo(m, v) = IF ~v.enabled THEN <<>> ELSE (a \o b) \o c
  BY DEF CloseVideo
<1>. HIDE DEF a, b, c
<1>4. VideoWrites((a \o b) \o c, m.id)
  BY <1>2, VideoConcat
<1>. QED BY <1>3, <1>4, NoWrites

LEMMA ResetVideoWrites ==
  ASSUME NEW m PROVE VideoWrites(ResetVideoIO(m), m.id)
BY CloseVideoWrites, TouchVideoWrites, VideoConcat DEF ResetVideoIO

-----------------------------------------------------------------------------
(* The flushes.                                                            *)

LEMMA AtomicSeq ==
  ASSUME NEW kind, NEW tmp, NEW id, NEW content, NEW s, s = atomic_write(kind, tmp, id, content)
  PROVE  /\ IsSeq(s) /\ Len(s) = 3
         /\ s[1].op = "write" /\ s[1].name = <<tmp, id>>
         /\ s[2].op = "write" /\ s[2].name = <<tmp, id>> /\ s[2].content = content
         /\ s[3].op = "replace" /\ s[3].name = <<tmp, id>> /\ s[3].to = <<kind, id>>
<1>. DEFINE a == Write(<<tmp, id>>, Torn)
            b == Write(<<tmp, id>>, content)
            c == [op |-> "replace", name |-> <<tmp, id>>, to |-> <<kind, id>>]
<1>1. s = <<a, b, c>>
  BY DEF atomic_write
<1>2. /\ a.op = "write" /\ a.name = <<tmp, id>> /\ b.op = "write" /\ b.name = <<tmp, id>> /\ b.content = content
      /\ c.op = "replace" /\ c.name = <<tmp, id>> /\ c.to = <<kind, id>>
  BY DEF Write
<1>. HIDE DEF a, b, c
<1>3. s \in Seq({a, b, c})
  BY <1>1
<1>4. IsSeq(s)
  BY <1>3, AnySeq
<1>. QED BY <1>1, <1>2, <1>4

LEMMA StatsPending ==
  ASSUME NEW id, NEW st
  PROVE  LET s == atomic_write("stats", "stats~", id, StatsFile(st))
         IN  /\ Pending(s, Nothing, id, st.episodes)
             /\ \E j \in 1..Len(s) : s[j].op = "replace" /\ s[j].to = <<"stats", id>>
<1>. DEFINE s == atomic_write("stats", "stats~", id, StatsFile(st))
<1>1. /\ IsSeq(s) /\ Len(s) = 3
      /\ s[1].op = "write" /\ s[1].name = <<"stats~", id>>
      /\ s[2].op = "write" /\ s[2].name = <<"stats~", id>> /\ s[2].content = StatsFile(st)
      /\ s[3].op = "replace" /\ s[3].name = <<"stats~", id>> /\ s[3].to = <<"stats", id>>
  <2>1. s = atomic_write("stats", "stats~", id, StatsFile(st))
    OBVIOUS
  <2>. HIDE DEF s
  <2>. QED BY <2>1, AtomicSeq
<1>. HIDE DEF s
<1>2. Temporary(s[1], id) /\ Temporary(s[2], id)
  BY <1>1 DEF Temporary
<1>3. PutsStats(s, Nothing, id, st.episodes, 3)
  BY <1>1 DEF PutsStats, Filled, Source, StatsFile
<1>4. Pending(s, Nothing, id, st.episodes)
  BY <1>1, <1>2, <1>3 DEF Pending
<1>. QED BY <1>1, <1>4 DEF s

LEMMA ManifestPending ==
  ASSUME NEW m, NEW E
  PROVE  Pending(atomic_write("manifest", "manifest~", m.id, Manifest(m)), OnlyStats(m.id), m.id, E)
<1>. DEFINE id == m.id
            s == atomic_write("manifest", "manifest~", id, Manifest(m))
<1>1. /\ IsSeq(s) /\ Len(s) = 3
      /\ s[1].op = "write" /\ s[1].name = <<"manifest~", id>>
      /\ s[2].op = "write" /\ s[2].name = <<"manifest~", id>> /\ s[2].content = Manifest(m)
      /\ s[3].op = "replace" /\ s[3].name = <<"manifest~", id>> /\ s[3].to = <<"manifest", id>>
  <2>1. s = atomic_write("manifest", "manifest~", id, Manifest(m))
    OBVIOUS
  <2>. HIDE DEF s
  <2>. QED BY <2>1, AtomicSeq
<1>. HIDE DEF s
<1>2. Temporary(s[1], id) /\ Temporary(s[2], id)
  BY <1>1 DEF Temporary
<1>3. PutsManifest(s, OnlyStats(id), id, 3)
  BY <1>1 DEF PutsManifest, Filled, Source, Manifest, Stated, OnlyStats
<1>4. Pending(s, OnlyStats(id), id, E)
  BY <1>1, <1>2, <1>3 DEF Pending
<1>. QED BY <1>4 DEF s

LEMMA EmptyPending == ASSUME NEW id, NEW E PROVE Pending(<<>>, Nothing, id, E)
BY NoWrites, VideoPending

\* _flush() of a recorder that is open writes the statistics before the manifest.
LEMMA FlushPending ==
  ASSUME NEW m, NEW force, ~m.stats.closed
  PROVE  Pending(Flush(m, force), Nothing, m.id, m.stats.episodes)
<1>. DEFINE s == atomic_write("stats", "stats~", m.id, StatsFile(m.stats))
            t == atomic_write("manifest", "manifest~", m.id, Manifest(m))
<1>1. /\ Pending(s, Nothing, m.id, m.stats.episodes)
      /\ \E j \in 1..Len(s) : s[j].op = "replace" /\ s[j].to = <<"stats", m.id>>
  BY StatsPending
<1>2. Pending(t, OnlyStats(m.id), m.id, m.stats.episodes)
  BY ManifestPending
<1>3. Flush(m, force) = IF m.opt.write_upon_reset \/ force THEN s \o t ELSE <<>>
  BY DEF Flush, StatsFlush
<1>. HIDE DEF s, t
<1>4. Pending(s \o t, Nothing, m.id, m.stats.episodes)
  BY <1>1, <1>2, PendingConcat
<1>. QED BY <1>3, <1>4, EmptyPending

\* close(): the statistics, the video, and the manifest that _flush() writes once
\* the statistics are closed.
LEMMA ClosePending ==
  ASSUME NEW v, NEW m, NEW st, VideoWrites(v, m.id), m.stats.closed, ~st.closed
  PROVE  Pending(StatsFlush(m.id, st) \o v \o Flush(m, TRUE), Nothing, m.id, st.episodes)
<1>. DEFINE s == atomic_write("stats", "stats~", m.id, StatsFile(st))
            t == atomic_write("manifest", "manifest~", m.id, Manifest(m))
<1>1. /\ Pending(s, Nothing, m.id, st.episodes)
      /\ \E j \in 1..Len(s) : s[j].op = "replace" /\ s[j].to = <<"stats", m.id>>
  BY StatsPending
<1>2. Pending(t, OnlyStats(m.id), m.id, st.episodes)
  BY ManifestPending
<1>3. StatsFlush(m.id, st) = s /\ Flush(m, TRUE) = <<>> \o t
  BY DEF Flush, StatsFlush
<1>. HIDE DEF s, t
<1>4. IsSeq(s) /\ IsSeq(t) /\ IsSeq(v) /\ Len(s) \in Nat
  BY <1>1, <1>2, SeqFacts DEF Pending, VideoWrites
<1>5. <<>> \o t = t
  BY <1>4, ConcatEmptySeq DEF IsSeq
<1>6. Pending(s \o v, Nothing, m.id, st.episodes)
  BY <1>1, VideoPending, PendingConcat
<1>7. \E j \in 1..Len(s \o v) : (s \o v)[j].op = "replace" /\ (s \o v)[j].to = <<"stats", m.id>>
  <2>1. PICK j \in 1..Len(s) : s[j].op = "replace" /\ s[j].to = <<"stats", m.id>>
    BY <1>1
  <2>2. Len(s \o v) = Len(s) + Len(v) /\ Len(v) \in Nat /\ (s \o v)[j] = s[j]
    BY <1>4, Concat, SeqFacts
  <2>. QED BY <1>4, <2>1, <2>2
<1>8. Pending((s \o v) \o t, Nothing, m.id, st.episodes)
  BY <1>2, <1>6, <1>7, PendingConcat
<1>. QED BY <1>3, <1>5, <1>8

-----------------------------------------------------------------------------
(* Monitors.                                                               *)

Id == Nat \X Nat
Episode == [time : Nat, len : Nat]
Stats == [episodes : Seq(Episode), types : Seq({"t", "e"}), type : {"t", "e"}, steps : Nat,
          done : {"None", "no", "yes"}, closed : BOOLEAN]

IsMonitor(m) ==
  m \in [enabled : BOOLEAN, id : Id, run : Nat, opt : {m.opt}, stats : Stats, episode_id : {m.episode_id},
         videos : {m.videos}, video : {m.video}, taken : Nat, resets : {m.resets}]

\* A monitor that is open and has closed its statistics never closes its video.
HalfClosed(m) == m.enabled /\ m.stats.closed => CloseRaises(m.video)

\* What reset(), step() and close() do to their monitor, and the writes they leave.
Called ==
  /\ IsMonitor(mon') /\ mon'.id = mon.id /\ mon'.run = mon.run /\ HalfClosed(mon')
  /\ Seqs!IsPrefix(mon.stats.episodes, mon'.stats.episodes)
  /\ Pending(io', Nothing, mon.id, mon.stats.episodes)

LEMMA AfterResetStats ==
  ASSUME NEW st \in Stats
  PROVE  AfterReset(st) \in Stats /\ AfterReset(st).episodes = st.episodes /\ AfterReset(st).closed = st.closed
<1>1. Append(st.types, st.type) \in Seq({"t", "e"})
  BY DEF Stats
<1>. QED BY <1>1 DEF AfterReset, Stats

LEMMA AfterStepStats ==
  ASSUME NEW st \in Stats, NEW done, NEW auto, Len(history) \in Nat
  PROVE  /\ AfterStep(st, done, auto) \in Stats /\ AfterStep(st, done, auto).closed = st.closed
         /\ Seqs!IsPrefix(st.episodes, AfterStep(st, done, auto).episodes)
<1>. DEFINE s == [st EXCEPT !.steps = @ + 1]
            e == [time |-> Len(history) + 1, len |-> s.steps]
            saved == [s EXCEPT !.done = "yes", !.episodes = Append(@, e)]
<1>1. s \in Stats /\ s.closed = st.closed /\ s.episodes = st.episodes
  BY DEF Stats
<1>2. e \in Episode
  BY <1>1 DEF Stats, Episode
<1>3. st.episodes \in Seq(Episode)
  BY DEF Stats
<1>4. Append(st.episodes, e) \in Seq(Episode) /\ Seqs!IsPrefix(st.episodes, Append(st.episodes, e))
  BY <1>2, <1>3, PrefixAppend
<1>5. saved \in Stats /\ saved.closed = st.closed /\ saved.episodes = Append(st.episodes, e)
  <2>. HIDE DEF e
  <2>. QED BY <1>1, <1>4 DEF Stats
<1>6. AfterReset(saved) \in Stats /\ AfterReset(saved).closed = st.closed /\ AfterReset(saved).episodes = saved.episodes
  BY <1>5, AfterResetStats
<1>7. AfterStep(st, done, auto) = IF ~done THEN s ELSE IF auto THEN AfterReset(saved) ELSE saved
  BY DEF AfterStep
<1>8. Seqs!IsPrefix(st.episodes, st.episodes)
  BY <1>3, PrefixRefl
<1>. HIDE DEF s, saved, e
<1>. QED BY <1>1, <1>4, <1>5, <1>6, <1>7, <1>8

\* The recorder of the video is renewed; the statistics and the number are not touched.
LEMMA ResetVideoMonitor ==
  ASSUME NEW m, IsMonitor(m), NEW frame
  PROVE  /\ IsMonitor(ResetVideo(m, frame)) /\ ResetVideo(m, frame).stats = m.stats
         /\ ResetVideo(m, frame).id = m.id /\ ResetVideo(m, frame).enabled = m.enabled
         /\ ResetVideo(m, frame).run = m.run /\ ResetVideo(m, frame).taken = m.taken
BY DEF ResetVideo, IsMonitor

LEMMA ResetCalls ==
  ASSUME IsMonitor(mon), Reset
  PROVE  Called
<1>. DEFINE m == [mon EXCEPT !.stats = AfterReset(@), !.taken = 0, !.resets = @ + 1]
<1>1. mon.stats \in Stats /\ ~mon.stats.closed /\ io = <<>>
  BY DEF IsMonitor, Reset, MayReset, Ready
<1>2. /\ IsMonitor(m) /\ m.id = mon.id /\ m.run = mon.run /\ m.stats.episodes = mon.stats.episodes /\ ~m.stats.closed
      /\ m.stats = AfterReset(mon.stats)
  BY <1>1, AfterResetStats DEF IsMonitor
<1>3. \/ mon' = m /\ io' = io
      \/ \E frame : \/ mon' = ResetVideo(m, frame) /\ io' = ResetVideoIO(m)
                    \/ LET b == [ResetVideo(m, frame) EXCEPT !.episode_id = @ + 1]
                       IN  mon' = b /\ io' = ResetVideoIO(m) \o Flush(b, FALSE)
  BY DEF Reset
<1>4. Seqs!IsPrefix(mon.stats.episodes, mon.stats.episodes)
  BY <1>1, PrefixRefl DEF Stats
<1>. HIDE DEF m
<1>5. CASE mon' = m /\ io' = io
  BY <1>1, <1>2, <1>4, <1>5, EmptyPending DEF Called, HalfClosed
<1>6. ASSUME NEW frame, mon' = ResetVideo(m, frame) /\ io' = ResetVideoIO(m)
      PROVE  Called
  <2>1. /\ IsMonitor(mon') /\ mon'.id = mon.id /\ mon'.run = mon.run /\ mon'.stats = m.stats
    BY <1>2, <1>6, ResetVideoMonitor
  <2>2. Pending(io', Nothing, mon.id, mon.stats.episodes)
    BY <1>2, <1>6, ResetVideoWrites, VideoPending
  <2>. QED BY <1>2, <1>4, <2>1, <2>2 DEF Called, HalfClosed
<1>7. ASSUME NEW frame, NEW b, b = [ResetVideo(m, frame) EXCEPT !.episode_id = @ + 1],
             mon' = b, io' = ResetVideoIO(m) \o Flush(b, FALSE)
      PROVE  Called
  <2>1. IsMonitor(b) /\ b.id = mon.id /\ b.run = mon.run /\ b.stats = m.stats
    BY <1>2, <1>7, ResetVideoMonitor DEF IsMonitor
  <2>2. Pending(Flush(b, FALSE), Nothing, mon.id, mon.stats.episodes)
    BY <1>2, <2>1, FlushPending
  <2>3. Pending(ResetVideoIO(m), Nothing, mon.id, mon.stats.episodes)
    BY <1>2, ResetVideoWrites, VideoPending
  <2>4. Pending(io', Nothing, mon.id, mon.stats.episodes)
    BY <1>7, <2>2, <2>3, PendingConcat
  <2>. QED BY <1>2, <1>4, <1>7, <2>1, <2>4 DEF Called, HalfClosed
<1>. QED BY <1>3, <1>5, <1>6, <1>7

\* The environment took a step, which may have begun its next episode.
Took(auto) == [mon EXCEPT !.taken = IF auto THEN 0 ELSE @ + 1]

LEMMA TookFacts ==
  ASSUME IsMonitor(mon), NEW auto
  PROVE  /\ IsMonitor(Took(auto)) /\ Took(auto).taken = (IF auto THEN 0 ELSE mon.taken + 1)
         /\ Took(auto).id = mon.id /\ Took(auto).run = mon.run /\ Took(auto).stats = mon.stats
         /\ Took(auto).enabled = mon.enabled /\ Took(auto).videos = mon.videos /\ Took(auto).video = mon.video
         /\ Took(auto).opt = mon.opt /\ Took(auto).episode_id = mon.episode_id
BY DEF Took, IsMonitor

LEMMA StepCalls ==
  ASSUME IsMonitor(mon), Len(history) \in Nat, HalfClosed(mon), NEW done, Step(done)
  PROVE  Called
<1>. DEFINE auto == done /\ mon.opt.autoreset
            m == Took(auto)
            R(first) == IF auto THEN ResetVideo(m, first) ELSE m
            B(first) == IF auto THEN [R(first) EXCEPT !.episode_id = @ + 1, !.resets = @ + 1] ELSE m
            writes == IF auto THEN ResetVideoIO(m) ELSE <<>>
<1>1. mon.stats \in Stats /\ ~mon.stats.closed /\ io = <<>>
  BY DEF IsMonitor, Step, MayStep, Ready
<1>0. IsMonitor(m) /\ m.id = mon.id /\ m.run = mon.run /\ m.stats = mon.stats
  BY TookFacts
<1>2. \/ mon' = m /\ io' = io
      \/ \E first : \/ mon' = R(first) /\ io' = writes
                    \/ \E frame : /\ mon' = [B(first) EXCEPT !.stats = AfterStep(@, done, mon.opt.autoreset),
                                                             !.video = Captured(B(first), @, frame)]
                                  /\ io' = writes \o IF auto THEN Flush(B(first), FALSE) ELSE <<>>
  BY DEF Step, Took
<1>3. Seqs!IsPrefix(mon.stats.episodes, mon.stats.episodes)
  BY <1>1, PrefixRefl DEF Stats
<1>4. ASSUME NEW first
      PROVE  /\ IsMonitor(R(first)) /\ R(first).id = mon.id /\ R(first).run = mon.run /\ R(first).stats = mon.stats
             /\ IsMonitor(B(first)) /\ B(first).id = mon.id /\ B(first).run = mon.run /\ B(first).stats = mon.stats
  <2>. HIDE DEF m
  <2>1. /\ IsMonitor(ResetVideo(m, first)) /\ ResetVideo(m, first).id = mon.id
        /\ ResetVideo(m, first).run = mon.run /\ ResetVideo(m, first).stats = mon.stats
    BY <1>0, ResetVideoMonitor
  <2>. QED BY <1>0, <2>1 DEF IsMonitor
<1>5. Pending(writes, Nothing, mon.id, mon.stats.episodes)
  <2>. HIDE DEF m
  <2>. QED BY <1>0, ResetVideoWrites, VideoPending, EmptyPending
<1>. HIDE DEF auto, m, R, B, writes
<1>6. CASE mon' = m /\ io' = io
  BY <1>0, <1>1, <1>3, <1>6, EmptyPending DEF Called, HalfClosed
<1>7. ASSUME NEW first, mon' = R(first), io' = writes
      PROVE  Called
  BY <1>1, <1>3, <1>4, <1>5, <1>7 DEF Called, HalfClosed
<1>8. ASSUME NEW first, NEW frame,
             mon' = [B(first) EXCEPT !.stats = AfterStep(@, done, mon.opt.autoreset),
                                     !.video = Captured(B(first), @, frame)],
             io' = writes \o IF auto THEN Flush(B(first), FALSE) ELSE <<>>
      PROVE  Called
  <2>. DEFINE st == AfterStep(mon.stats, done, mon.opt.autoreset)
              F == IF auto THEN Flush(B(first), FALSE) ELSE <<>>
  <2>1. st \in Stats /\ ~st.closed /\ Seqs!IsPrefix(mon.stats.episodes, st.episodes)
    BY <1>1, AfterStepStats
  <2>2. mon'.stats = AfterStep(B(first).stats, done, mon.opt.autoreset) /\ mon'.id = B(first).id /\ mon'.run = B(first).run
    BY <1>4, <1>8 DEF IsMonitor
  <2>3. mon'.stats = st
    BY <2>2, <1>4
  <2>. HIDE DEF st
  <2>4. IsMonitor(mon')
    BY <1>4, <1>8, <2>1, <2>2, <2>3 DEF IsMonitor
  <2>5. Pending(F, Nothing, mon.id, mon.stats.episodes)
    <3>1. Pending(Flush(B(first), FALSE), Nothing, mon.id, mon.stats.episodes)
      BY <1>1, <1>4, FlushPending
    <3>. QED BY <3>1, EmptyPending
  <2>6. io' = writes \o F
    BY <1>8
  <2>. HIDE DEF F
  <2>7. Pending(io', Nothing, mon.id, mon.stats.episodes)
    BY <1>5, <2>5, <2>6, PendingConcat
  <2>. QED BY <1>4, <2>1, <2>2, <2>3, <2>4, <2>7 DEF Called, HalfClosed
<1>. QED BY <1>2, <1>6, <1>7, <1>8

LEMMA CloseCalls ==
  ASSUME IsMonitor(mon), HalfClosed(mon), Close
  PROVE  Called
<1>. DEFINE closed == [mon EXCEPT !.stats.closed = TRUE]
            m == [closed EXCEPT !.videos = Listed(mon)]
            stats == StatsFlush(mon.id, mon.stats)
<1>1. mon.stats \in Stats /\ mon.enabled
  BY DEF IsMonitor, Close
<1>2. /\ IsMonitor(closed) /\ closed.id = mon.id /\ closed.run = mon.run /\ closed.stats.episodes = mon.stats.episodes
      /\ closed.video = mon.video /\ closed.stats.closed
  BY <1>1 DEF IsMonitor, Stats
<1>3. \/ CloseRaises(mon.video) /\ mon' = closed /\ io' = stats
      \/ /\ ~CloseRaises(mon.video) /\ mon' = [m EXCEPT !.enabled = FALSE]
         /\ io' = stats \o CloseVideo(mon, mon.video) \o Flush(m, TRUE)
  BY DEF Close
<1>. HIDE DEF closed
<1>4. Seqs!IsPrefix(mon.stats.episodes, mon.stats.episodes)
  BY <1>1, PrefixRefl DEF Stats
<1>5. CASE CloseRaises(mon.video) /\ mon' = closed /\ io' = stats
  <2>1. Pending(stats, Nothing, mon.id, mon.stats.episodes)
    BY StatsPending, EmptyPending DEF StatsFlush
  <2>. QED BY <1>2, <1>4, <1>5, <2>1 DEF Called, HalfClosed
<1>6. CASE /\ ~CloseRaises(mon.video) /\ mon' = [m EXCEPT !.enabled = FALSE]
           /\ io' = stats \o CloseVideo(mon, mon.video) \o Flush(m, TRUE)
  <2>1. IsMonitor(m) /\ m.id = mon.id /\ m.run = mon.run /\ m.stats = closed.stats
    BY <1>2 DEF IsMonitor
  <2>2. ~mon.stats.closed
    BY <1>1, <1>6 DEF HalfClosed
  <2>. HIDE DEF m
  <2>3. IsMonitor(mon') /\ mon'.id = mon.id /\ mon'.run = mon.run /\ mon'.stats = closed.stats /\ ~mon'.enabled
    BY <1>6, <2>1 DEF IsMonitor
  <2>4. Pending(io', Nothing, mon.id, mon.stats.episodes)
    <3>1. VideoWrites(CloseVideo(mon, mon.video), mon.id)
      BY CloseVideoWrites
    <3>. QED BY <1>2, <1>6, <2>1, <2>2, <3>1, ClosePending
  <2>. QED BY <1>2, <1>4, <2>3, <2>4 DEF Called, HalfClosed
<1>. QED BY <1>3, <1>5, <1>6

-----------------------------------------------------------------------------
(* The inductive invariant.                                                *)

\* A monitor was made whose infix is id.
Named(id) == \E i \in DOMAIN made : made[i].id = id

Processes == [n : Nat, os : Nat, next_id : Nat, alive : BOOLEAN]

\* The closer of a process gives each of its monitors a number of its own.
Made == /\ IsSeq(made)
        /\ \A i \in DOMAIN made :
             /\ made[i] \in [process : Nat, id : Id] /\ made[i].process <= pid.n
             /\ made[i].process = pid.n => made[i].id[1] < pid.next_id

Running == /\ plan \in Seq(Options) /\ pid \in Processes /\ Made
           /\ IsSeq(history)
           /\ \/ mon = NoMonitor
              \/ IsMonitor(mon) /\ HalfClosed(mon) /\ mon.run \in DOMAIN made /\ made[mon.run].id = mon.id

\* DirectorySound, and that the statistics are those of monitors that were made.
Directory ==
  \A n \in DOMAIN files :
    /\ n[1] \in {"stats", "manifest"} => files[n].whole
    /\ n[1] = "manifest" => files[n].stats[1] = "stats" /\ (files[n].stats \in DOMAIN files \/ torn \/ Clearing)
    /\ n[1] = "stats" => files[n].episodes \in Seq(Episode) /\ \E id \in Id : n = <<"stats", id>> /\ Named(id)
    /\ n[1] = "video" => n[2] \in Id /\ Named(n[2])

\* The episodes of id that are on disk are the first of E, unless another process
\* had a monitor of the same name.
Kept(id, E) ==
  ~Shared(id) /\ <<"stats", id>> \in DOMAIN files => Seqs!IsPrefix(files[<<"stats", id>>].episodes, E)

Clears == io = <<[op |-> "clear", names |-> DOMAIN files]>>
Saves == \E E \in Seq(Episode) : /\ Pending(io, files, mon.id, E) /\ Kept(mon.id, E)
                                 /\ Seqs!IsPrefix(E, mon.stats.episodes)
Queue == io = <<>> \/ Clears \/ (IsMonitor(mon) /\ Saves)

IInv == /\ Running /\ Directory /\ Queue
        /\ mon # NoMonitor => Kept(mon.id, mon.stats.episodes)

LEMMA NoMonitorDisabled == ~NoMonitor.enabled /\ NoMonitor.id = <<0, 0>>
BY DEF NoMonitor

LEMMA InitIInv == Init => IInv
<1>. SUFFICES ASSUME Init PROVE IInv
  OBVIOUS
<1>1. DOMAIN files = {} /\ io = <<>> /\ mon = NoMonitor
  BY DEF Init
<1>2. IsSeq(history)
  <2>1. <<>> \in Seq({})
    OBVIOUS
  <2>. QED BY <2>1, AnySeq DEF Init
<1>3. pid \in Processes /\ made = <<>>
  BY MonitorAssumption DEF Init, Processes
<1>4. IsSeq(made) /\ DOMAIN made = {}
  <2>1. <<>> \in Seq({})
    OBVIOUS
  <2>2. IsSeq(made)
    BY <1>3, <2>1, AnySeq
  <2>. QED BY <1>3, <2>2
<1>5. plan \in Seq(Options)
  BY MonitorAssumption DEF Init
<1>. QED BY <1>1, <1>2, <1>3, <1>4, <1>5 DEF IInv, Running, Made, Directory, Queue

\* One write of a call done: the names that load_results() reads change only by
\* a replace, and stay.
LEMMA WriteDone ==
  ASSUME NEW id, NEW E, Pending(io, files, id, E), DoIO
  PROVE  /\ io' = Tail(io) /\ io # <<>> /\ Head(io) = io[1] /\ 1 \in 1..Len(io) /\ io[1].op # "clear"
         /\ \A n \in DOMAIN files : n[1] \in {"stats", "manifest"} => n \in DOMAIN files'
         /\ io[1].op = "write" => io[1].name \in DOMAIN files' /\ files'[io[1].name] = io[1].content
         /\ io[1].op = "replace" => io[1].to \in DOMAIN files' /\ files'[io[1].to] = files[io[1].name]
         /\ \A n \in DOMAIN files' : n[1] \in {"stats", "manifest"} =>
              \/ n \in DOMAIN files /\ files'[n] = files[n]
              \/ io[1].op = "replace" /\ n = io[1].to
         /\ \A n \in DOMAIN files' : n[1] = "video" => n \in DOMAIN files \/ n[2] = id
<1>. DEFINE w == io[1]
<1>1. io # <<>> /\ Head(io) = w /\ 1 \in 1..Len(io)
  <2>1. io # <<>> /\ IsSeq(io)
    BY DEF DoIO, Pending
  <2>. QED BY <2>1, TailFacts
<1>2. \/ Visual(w, id) \/ Temporary(w, id)
      \/ PutsStats(io, files, id, E, 1) \/ PutsManifest(io, files, id, 1)
  BY <1>1 DEF Pending
<1>3. CASE w.op = "write" /\ w.name[1] \notin {"stats", "manifest"}
  <2>1. files' = Put(w.name, w.content) /\ io' = Tail(io)
    BY <1>1, <1>3 DEF DoIO
  <2>2. w.name[1] = "video" => w.name[2] = id
    BY <1>2 DEF Visual, Temporary, PutsStats, PutsManifest
  <2>. QED BY <1>1, <1>3, <2>1, <2>2 DEF Put
<1>4. CASE w.op = "touch" /\ w.name[1] \notin {"stats", "manifest"}
  <2>1. files' = (IF w.name \in DOMAIN files THEN files ELSE Put(w.name, Torn)) /\ io' = Tail(io)
    BY <1>1, <1>4 DEF DoIO
  <2>2. w.name[1] = "video" => w.name[2] = id
    BY <1>2 DEF Visual, Temporary, PutsStats, PutsManifest
  <2>. QED BY <1>1, <1>4, <2>1, <2>2 DEF Put
<1>5. CASE w.op = "unlink" /\ w.name[1] \notin {"stats", "manifest"}
  <2>1. files' = Without({w.name}) /\ io' = Tail(io)
    BY <1>1, <1>5 DEF DoIO
  <2>. QED BY <1>1, <1>5, <2>1 DEF Without
<1>6. CASE w.op = "replace" /\ w.name[1] \notin {"stats", "manifest"}
  <2>1. /\ files' = [n \in (DOMAIN files \ {w.name}) \cup {w.to} |-> IF n = w.to THEN files[w.name] ELSE files[n]]
        /\ io' = Tail(io)
    BY <1>1, <1>6 DEF DoIO
  <2>2. w.to[1] \in {"stats", "manifest"}
    BY <1>2, <1>6 DEF Visual, Temporary, PutsStats, PutsManifest
  <2>. QED BY <1>1, <1>6, <2>1, <2>2
<1>7. w.op \in {"write", "touch", "unlink", "replace"} /\ w.name[1] \notin {"stats", "manifest"}
  BY <1>2 DEF Visual, Temporary, PutsStats, PutsManifest
<1>. QED BY <1>3, <1>4, <1>5, <1>6, <1>7

\* What is left of a call is safe over the directory that its first write makes.
LEMMA RestPending ==
  ASSUME NEW id, NEW E, Pending(io, files, id, E), DoIO
  PROVE  Pending(Tail(io), files', id, E)
<1>. DEFINE t == Tail(io)
<1>1. /\ io # <<>> /\ io[1].op # "clear"
      /\ \A n \in DOMAIN files : n[1] \in {"stats", "manifest"} => n \in DOMAIN files'
      /\ io[1].op = "write" => io[1].name \in DOMAIN files' /\ files'[io[1].name] = io[1].content
      /\ io[1].op = "replace" => io[1].to \in DOMAIN files'
  BY WriteDone
<1>2. /\ IsSeq(t) /\ Len(io) \in Nat /\ Len(io) >= 1 /\ Len(t) = Len(io) - 1
      /\ \A i \in 1..(Len(io) - 1) : t[i] = io[i + 1]
  BY <1>1, TailFacts DEF Pending
<1>. HIDE DEF t
<1>3. ASSUME NEW i \in 1..Len(t)
      PROVE  \/ Visual(t[i], id) \/ Temporary(t[i], id)
             \/ PutsStats(t, files', id, E, i) \/ PutsManifest(t, files', id, i)
  <2>. DEFINE k == i + 1
  <2>1. t[i] = io[k] /\ k \in 1..Len(io) /\ k # 1 /\ k - 1 = i
    BY <1>2
  <2>2. i = 1 => k - 1 = 1
    BY <2>1
  <2>3. i # 1 => i - 1 \in 1..(Len(io) - 1) /\ t[i - 1] = io[k - 1]
    BY <1>2
  <2>4. 1 \in 1..(Len(io) - 1) /\ t[1] = io[2]
    BY <1>2
  <2>5. Filled(io, files, k) => Filled(t, files', i) /\ Source(t, files', i) = Source(io, files, k)
    <3>1. CASE i = 1
      BY <1>1, <2>1, <2>2, <3>1 DEF Filled, Source
    <3>2. CASE i # 1
      BY <2>1, <2>3, <3>2 DEF Filled, Source
    <3>. QED BY <3>1, <3>2
  <2>6. Stated(io, files, id, k) => Stated(t, files', id, i)
    <3>1. CASE <<"stats", id>> \in DOMAIN files
      BY <1>1, <3>1 DEF Stated
    <3>2. CASE io[1].op = "replace" /\ io[1].to = <<"stats", id>>
      BY <1>1, <3>2 DEF Stated
    <3>3. ASSUME NEW j \in 1..(k - 1), j # 1, io[j].op = "replace", io[j].to = <<"stats", id>>
          PROVE  Stated(t, files', id, i)
      <4>1. j - 1 \in 1..(i - 1) /\ j - 1 \in 1..(Len(io) - 1) /\ (j - 1) + 1 = j
        BY <1>2, <3>3
      <4>2. t[j - 1] = io[j]
        BY <1>2, <4>1
      <4>. QED BY <3>3, <4>1, <4>2 DEF Stated
    <3>. QED BY <3>1, <3>2, <3>3 DEF Stated
  <2>. HIDE DEF k
  <2>7. PutsStats(io, files, id, E, k) => PutsStats(t, files', id, E, i)
    BY <2>1, <2>5 DEF PutsStats
  <2>8. PutsManifest(io, files, id, k) => PutsManifest(t, files', id, i)
    BY <2>1, <2>5, <2>6 DEF PutsManifest
  <2>. QED BY <2>1, <2>7, <2>8 DEF Pending
<1>. QED BY <1>2, <1>3 DEF Pending, t

ClearWrite == [op |-> "clear", names |-> DOMAIN files]

LEMMA ClearsFacts ==
  ASSUME Clears
  PROVE  /\ Clearing /\ io # <<>> /\ Head(io) = ClearWrite /\ Tail(io) = <<>>
         /\ Head(io).op = "clear" /\ Head(io).names = DOMAIN files
BY DEF Clears, Clearing, ClearWrite

LEMMA PendingNoClear ==
  ASSUME NEW s, NEW F, NEW id, NEW E, Pending(s, F, id, E)
  PROVE  \A N : s # <<[op |-> "clear", names |-> N]>>
<1>1. SUFFICES ASSUME NEW N, s = <<[op |-> "clear", names |-> N]>> PROVE FALSE
  OBVIOUS
<1>2. s[1].op = "clear" /\ 1 \in 1..Len(s)
  BY <1>1
<1>. QED BY <1>2 DEF Pending, Visual, Temporary, PutsStats, PutsManifest

LEMMA SavesNoClear ==
  ASSUME Saves PROVE ~Clearing
<1>1. PICK E \in Seq(Episode) : Pending(io, files, mon.id, E)
  BY DEF Saves
<1>2. SUFFICES ASSUME io # <<>> PROVE Head(io).op # "clear"
  BY DEF Clearing
<1>3. Head(io) = io[1] /\ 1 \in 1..Len(io)
  BY <1>1, <1>2, TailFacts DEF Pending
<1>. QED BY <1>1, <1>3 DEF Pending, Visual, Temporary, PutsStats, PutsManifest

\* One file less of those that clear_monitor_files() unlinks.
LEMMA ClearCases ==
  ASSUME Clears, DoIO
  PROVE  /\ (io' = <<>> /\ DOMAIN files' = {}) \/ Clears'
         /\ DOMAIN files' \subseteq DOMAIN files /\ \A k \in DOMAIN files' : files'[k] = files[k]
<1>1. /\ Clearing /\ Head(io) = ClearWrite /\ Tail(io) = <<>> /\ Head(io).op = "clear"
      /\ Head(io).names = DOMAIN files
  BY ClearsFacts
<1>2. PICK n \in DOMAIN files :
        /\ files' = Without({n})
        /\ io' = IF DOMAIN files = {n} THEN <<>> ELSE <<[ClearWrite EXCEPT !.names = @ \ {n}]>>
  <2>1. PICK n \in DOMAIN files :
          /\ files' = Without({n})
          /\ io' = IF DOMAIN files = {n} THEN <<>> ELSE <<[ClearWrite EXCEPT !.names = @ \ {n}]>> \o <<>>
    BY <1>1 DEF DoIO
  <2>2. <<[ClearWrite EXCEPT !.names = @ \ {n}]>> \o <<>> = <<[ClearWrite EXCEPT !.names = @ \ {n}]>>
    <3>. DEFINE w == [ClearWrite EXCEPT !.names = @ \ {n}]
    <3>1. <<w>> \in Seq({w})
      OBVIOUS
    <3>. QED BY <3>1, ConcatEmptySeq
  <2>. QED BY <2>1, <2>2
<1>3. DOMAIN files' = DOMAIN files \ {n} /\ \A k \in DOMAIN files' : files'[k] = files[k]
  BY <1>2 DEF Without
<1>4. [ClearWrite EXCEPT !.names = @ \ {n}] = ClearWrite'
  BY <1>3 DEF ClearWrite
<1>5. (io' = <<>> /\ DOMAIN files' = {}) \/ Clears'
  BY <1>2, <1>3, <1>4 DEF Clears, ClearWrite
<1>. QED BY <1>3, <1>5

LEMMA ClearStep ==
  ASSUME IInv, Clears, DoIO
  PROVE  IInv'
<1>3. DOMAIN files' \subseteq DOMAIN files /\ \A k \in DOMAIN files' : files'[k] = files[k]
  BY ClearCases
<1>5. (io' = <<>> /\ DOMAIN files' = {}) \/ Clears'
  BY ClearCases
<1>6. UNCHANGED <<plan, mon, pid, made, history, torn>>
  BY DEF DoIO
<1>7. Running'
  BY <1>6 DEF IInv, Running, Made
<1>8. DOMAIN files' = {} \/ Clearing'
  <2>1. Clears' => Clearing'
    BY DEF Clears, Clearing
  <2>. QED BY <1>5, <2>1
<1>9. Directory'
  BY <1>3, <1>6, <1>8 DEF IInv, Directory, Named
<1>10. Queue'
  BY <1>5 DEF Queue
<1>11. (mon # NoMonitor => Kept(mon.id, mon.stats.episodes))'
  BY <1>3, <1>6 DEF IInv, Kept, Shared
<1>. QED BY <1>7, <1>9, <1>10, <1>11 DEF IInv

\* The episodes of id that are on disk after the first write.
LEMMA KeptStep ==
  ASSUME NEW id, NEW E \in Seq(Episode), Pending(io, files, id, E), DoIO, Kept(id, E)
  PROVE  ~Shared(id) /\ <<"stats", id>> \in DOMAIN files' => Seqs!IsPrefix(files'[<<"stats", id>>].episodes, E)
<1>1. SUFFICES ASSUME ~Shared(id), <<"stats", id>> \in DOMAIN files'
               PROVE  Seqs!IsPrefix(files'[<<"stats", id>>].episodes, E)
  OBVIOUS
<1>2. \/ <<"stats", id>> \in DOMAIN files /\ files'[<<"stats", id>>] = files[<<"stats", id>>]
      \/ /\ io[1].op = "replace" /\ <<"stats", id>> = io[1].to /\ files'[io[1].to] = files[io[1].name]
         /\ 1 \in 1..Len(io)
  BY <1>1, WriteDone
<1>3. CASE /\ io[1].op = "replace" /\ <<"stats", id>> = io[1].to /\ files'[io[1].to] = files[io[1].name]
           /\ 1 \in 1..Len(io)
  <2>1. PutsStats(io, files, id, E, 1)
    BY <1>3 DEF Pending, Visual, Temporary, PutsManifest
  <2>2. files'[<<"stats", id>>].episodes = E
    BY <1>3, <2>1 DEF PutsStats, Source
  <2>. QED BY <2>2, PrefixRefl
<1>. QED BY <1>1, <1>2, <1>3 DEF Kept

LEMMA SaveStep ==
  ASSUME IInv, io # <<>>, ~Clears, DoIO
  PROVE  IInv'
<1>1. IsMonitor(mon) /\ Saves
  BY DEF IInv, Queue
<1>2. PICK E \in Seq(Episode) : /\ Pending(io, files, mon.id, E) /\ Kept(mon.id, E)
                                /\ Seqs!IsPrefix(E, mon.stats.episodes)
  BY <1>1 DEF Saves
<1>3. /\ io' = Tail(io) /\ 1 \in 1..Len(io)
      /\ \A n \in DOMAIN files : n[1] \in {"stats", "manifest"} => n \in DOMAIN files'
      /\ io[1].op = "replace" => io[1].to \in DOMAIN files' /\ files'[io[1].to] = files[io[1].name]
      /\ \A n \in DOMAIN files' : n[1] \in {"stats", "manifest"} =>
           \/ n \in DOMAIN files /\ files'[n] = files[n]
           \/ io[1].op = "replace" /\ n = io[1].to
      /\ \A n \in DOMAIN files' : n[1] = "video" => n \in DOMAIN files \/ n[2] = mon.id
  BY <1>2, WriteDone
<1>4. UNCHANGED <<plan, mon, pid, made, history, torn>>
  BY DEF DoIO
<1>5. Running'
  BY <1>4 DEF IInv, Running, Made
<1>6. Pending(io', files', mon.id, E)
  BY <1>2, <1>3, RestPending
<1>7. Kept(mon.id, E)'
  <2>1. ~Shared(mon.id) /\ <<"stats", mon.id>> \in DOMAIN files' =>
          Seqs!IsPrefix(files'[<<"stats", mon.id>>].episodes, E)
    BY <1>2, KeptStep
  <2>. QED BY <1>4, <2>1 DEF Kept, Shared
<1>8. Queue'
  BY <1>1, <1>2, <1>4, <1>6, <1>7 DEF Queue, Saves
<1>9. (mon # NoMonitor => Kept(mon.id, mon.stats.episodes))'
  <2>1. <<"stats", mon.id>> \in DOMAIN files' => files'[<<"stats", mon.id>>].episodes \in Seq(Episode)
    <3>1. CASE <<"stats", mon.id>> \in DOMAIN files /\ files'[<<"stats", mon.id>>] = files[<<"stats", mon.id>>]
      BY <3>1 DEF IInv, Directory
    <3>2. CASE io[1].op = "replace" /\ <<"stats", mon.id>> = io[1].to
      <4>1. PutsStats(io, files, mon.id, E, 1)
        BY <1>2, <1>3, <3>2 DEF Pending, Visual, Temporary, PutsManifest
      <4>. QED BY <1>3, <3>2, <4>1 DEF PutsStats, Source
    <3>. QED BY <1>3, <3>1, <3>2
  <2>2. mon.stats.episodes \in Seq(Episode)
    BY <1>1 DEF IsMonitor, Stats
  <2>3. ~Shared(mon.id)' /\ <<"stats", mon.id>> \in DOMAIN files' =>
          Seqs!IsPrefix(files'[<<"stats", mon.id>>].episodes, E)
    BY <1>4, <1>7 DEF Kept
  <2>4. ~Shared(mon.id)' /\ <<"stats", mon.id>> \in DOMAIN files' =>
          Seqs!IsPrefix(files'[<<"stats", mon.id>>].episodes, mon.stats.episodes)
    BY <1>2, <2>1, <2>2, <2>3, PrefixTrans
  <2>. QED BY <1>4, <2>4 DEF Kept
<1>10. ~Clearing
  BY <1>1, SavesNoClear
<1>11. mon.id \in Id /\ Named(mon.id)
  <2>1. mon # NoMonitor => Named(mon.id)
    BY DEF IInv, Running, Named
  <2>2. mon # NoMonitor
    BY <1>1, <1>2 DEF IInv, Queue, IsMonitor, NoMonitor
  <2>. QED BY <1>1, <2>1, <2>2 DEF IsMonitor
<1>12. ASSUME NEW n \in DOMAIN files'
       PROVE /\ n[1] \in {"stats", "manifest"} => files'[n].whole
             /\ n[1] = "manifest" => files'[n].stats[1] = "stats" /\ (files'[n].stats \in DOMAIN files' \/ torn)
             /\ n[1] = "stats" => files'[n].episodes \in Seq(Episode) /\ \E id \in Id : n = <<"stats", id>> /\ Named(id)
             /\ n[1] = "video" => n[2] \in Id /\ Named(n[2])
  <2>1. CASE n \in DOMAIN files /\ files'[n] = files[n]
    BY <1>3, <1>10, <2>1 DEF IInv, Directory
  <2>2. CASE io[1].op = "replace" /\ n = io[1].to
    <3>1. PutsStats(io, files, mon.id, E, 1) \/ PutsManifest(io, files, mon.id, 1)
      BY <1>2, <1>3, <2>2 DEF Pending, Visual, Temporary
    <3>2. CASE PutsStats(io, files, mon.id, E, 1)
      BY <1>3, <1>11, <2>2, <3>2 DEF PutsStats, Source
    <3>3. CASE PutsManifest(io, files, mon.id, 1)
      <4>1. <<"stats", mon.id>> \in DOMAIN files
        BY <3>3 DEF PutsManifest, Stated
      <4>2. n = <<"manifest", mon.id>> /\ files'[n].whole /\ files'[n].stats = <<"stats", mon.id>>
        BY <1>3, <2>2, <3>3 DEF PutsManifest, Source
      <4>3. n[1] = "manifest" /\ <<"stats", mon.id>>[1] = "stats"
        BY <4>2
      <4>4. <<"stats", mon.id>> \in DOMAIN files'
        BY <1>3, <4>1
      <4>. QED BY <4>2, <4>3, <4>4
    <3>. QED BY <3>1, <3>2, <3>3
  <2>3. CASE n[1] \notin {"stats", "manifest"}
    BY <1>3, <1>11, <2>3 DEF IInv, Directory
  <2>. QED BY <1>3, <2>1, <2>2, <2>3
<1>13. Directory'
  BY <1>4, <1>12 DEF Directory, Named
<1>. QED BY <1>5, <1>8, <1>9, <1>13 DEF IInv

LEMMA HistoryAppend == ASSUME NEW s, NEW e, IsSeq(s) PROVE IsSeq(Append(s, e))
<1>. DEFINE S == {s[i] : i \in DOMAIN s} \cup {e}
<1>1. s \in Seq(S)
  BY SeqMonotonic DEF IsSeq
<1>2. Append(s, e) \in Seq(S)
  <2>. HIDE DEF S
  <2>1. e \in S
    BY DEF S
  <2>. QED BY <1>1, <2>1
<1>. QED BY <1>2, AnySeq

LEMMA AppendFacts ==
  ASSUME NEW s, NEW e, IsSeq(s)
  PROVE  /\ IsSeq(Append(s, e)) /\ Len(s) \in Nat /\ DOMAIN s = 1..Len(s)
         /\ DOMAIN Append(s, e) = 1..(Len(s) + 1)
         /\ \A i \in 1..Len(s) : Append(s, e)[i] = s[i]
         /\ Append(s, e)[Len(s) + 1] = e
<1>1. IsSeq(Append(s, e)) /\ Len(s) \in Nat /\ DOMAIN s = 1..Len(s)
  BY HistoryAppend, SeqFacts
<1>2. s \in Seq({s[i] : i \in DOMAIN s})
  BY DEF IsSeq
<1>3. /\ DOMAIN Append(s, e) = 1..(Len(s) + 1)
      /\ \A i \in 1..Len(s) : Append(s, e)[i] = s[i]
      /\ Append(s, e)[Len(s) + 1] = e
  BY <1>2
<1>. QED BY <1>1, <1>3

\* The monitor that Monitor() makes: it takes its own place in made, and a name
\* that no other monitor of its process had.
LEMMA StartMade ==
  ASSUME Running, Start
  PROVE  /\ Made' /\ pid' \in Processes
         /\ DOMAIN made \subseteq DOMAIN made' /\ \A i \in DOMAIN made : made'[i] = made[i]
         /\ mon'.run \in DOMAIN made' /\ mon'.run \notin DOMAIN made /\ made'[mon'.run].id = mon'.id
         /\ mon'.id \in Id /\ mon'.run \in Nat
         /\ Named(mon'.id) => Shared(mon.id)'
<1>. DEFINE id == file_infix(Head(plan))
            e == [process |-> pid.n, id |-> id]
<1>1. /\ made' = Append(made, e) /\ mon'.run = Len(made) + 1 /\ mon'.id = id
      /\ pid' = [pid EXCEPT !.next_id = generate_next_id]
  BY DEF Start
<1>2. /\ pid \in Processes /\ pid' \in Processes /\ pid'.n = pid.n /\ pid'.next_id = pid.next_id + 1
      /\ pid.n \in Nat /\ pid.next_id \in Nat
  BY <1>1 DEF Running, Processes, generate_next_id
<1>3. id \in Id /\ id[1] = pid.next_id
  <2>1. Head(plan) \in Options
    BY HeadTailProperties DEF Start, Running
  <2>2. Head(plan).uid \in Nat /\ pid.os \in Nat
    BY <1>2, <2>1 DEF Options, Processes
  <2>. QED BY <1>2, <2>2 DEF file_infix, Id
<1>4. e \in [process : Nat, id : Id] /\ e.process = pid.n /\ e.id = id
  BY <1>2, <1>3
<1>. HIDE DEF id, e
<1>5. /\ IsSeq(made') /\ Len(made) \in Nat /\ DOMAIN made = 1..Len(made) /\ DOMAIN made' = 1..(Len(made) + 1)
      /\ \A i \in 1..Len(made) : made'[i] = made[i]
      /\ made'[Len(made) + 1] = e
  BY <1>1, AppendFacts DEF Running, Made
<1>6. \A i \in DOMAIN made : /\ made[i] \in [process : Nat, id : Id] /\ made[i].process <= pid.n
                             /\ made[i].process = pid.n => made[i].id[1] < pid.next_id
  BY DEF Running, Made
<1>7. ASSUME NEW i \in DOMAIN made'
      PROVE  /\ made'[i] \in [process : Nat, id : Id] /\ made'[i].process <= pid'.n
             /\ made'[i].process = pid'.n => made'[i].id[1] < pid'.next_id
  <2>1. CASE i = Len(made) + 1
    BY <1>2, <1>3, <1>4, <1>5, <2>1
  <2>2. CASE i \in DOMAIN made
    <3>1. made'[i] = made[i] /\ made[i].id[1] \in Nat
      BY <1>5, <1>6, <2>2 DEF Id
    <3>. QED BY <1>2, <1>6, <2>2, <3>1
  <2>. QED BY <1>5, <2>1, <2>2
<1>8. Made'
  BY <1>5, <1>7 DEF Made
<1>9. ASSUME Named(id) PROVE Shared(mon.id)'
  <2>1. PICK i \in DOMAIN made : made[i].id = id
    BY <1>9 DEF Named
  <2>2. made[i].process # pid.n
    BY <1>2, <1>3, <1>6, <2>1
  <2>3. i \in DOMAIN made' /\ Len(made) + 1 \in DOMAIN made' /\ made'[i] = made[i]
    BY <1>5, <2>1
  <2>4. made'[i].id = mon'.id /\ made'[Len(made) + 1].id = mon'.id
        /\ made'[i].process # made'[Len(made) + 1].process
    BY <1>1, <1>4, <1>5, <2>1, <2>2, <2>3
  <2>. QED BY <2>3, <2>4 DEF Shared
<1>. QED BY <1>1, <1>2, <1>3, <1>4, <1>5, <1>8, <1>9

LEMMA NewMonitor ==
  ASSUME NEW id \in Id, NEW run \in Nat, NEW opt, NEW m,
         m = [enabled |-> TRUE, id |-> id, run |-> run, opt |-> opt, stats |-> NewStats,
              episode_id |-> 0, videos |-> <<>>, video |-> NoVideo, taken |-> 0, resets |-> 0]
  PROVE  IsMonitor(m) /\ m.stats = NewStats
<1>1. NewStats \in Stats
  BY DEF NewStats, Stats
<1>. QED BY <1>1 DEF IsMonitor

LEMMA StartStep ==
  ASSUME IInv, Start
  PROVE  IInv'
<1>. DEFINE opt == Head(plan)
<1>1. /\ io = <<>> /\ files' = files /\ history' = history /\ plan' = Tail(plan) /\ plan # <<>>
      /\ io' = (IF opt.force /\ files # << >> THEN <<[op |-> "clear", names |-> DOMAIN files]>> ELSE <<>>)
      /\ torn' = (torn /\ ~opt.force)
      /\ mon' = [enabled |-> TRUE, id |-> mon'.id, run |-> mon'.run, opt |-> opt, stats |-> NewStats,
                 episode_id |-> 0, videos |-> <<>>, video |-> NoVideo, taken |-> 0, resets |-> 0]
  BY DEF Start, Ready
<1>. HIDE DEF opt
<1>2. /\ Made' /\ pid' \in Processes
      /\ DOMAIN made \subseteq DOMAIN made' /\ \A i \in DOMAIN made : made'[i] = made[i]
      /\ mon'.run \in DOMAIN made' /\ made'[mon'.run].id = mon'.id /\ mon'.id \in Id /\ mon'.run \in Nat
      /\ Named(mon'.id) => Shared(mon.id)'
  BY StartMade DEF IInv
<1>3. ASSUME NEW id, Named(id) PROVE Named(id)'
  BY <1>2, <1>3 DEF Named
<1>4. /\ IsMonitor(mon') /\ HalfClosed(mon') /\ mon'.stats = NewStats
  <2>1. NewStats \in Stats /\ ~NewStats.closed
    BY DEF NewStats, Stats
  <2>2. IsMonitor(mon') /\ mon'.stats = NewStats
    BY <1>1, <1>2, NewMonitor
  <2>. QED BY <2>1, <2>2 DEF HalfClosed
<1>5. Running'
  <2>1. plan' \in Seq(Options) /\ IsSeq(history')
    BY <1>1, HeadTailProperties DEF IInv, Running
  <2>. QED BY <1>2, <1>4, <2>1 DEF Running
<1>7. opt.force => Clearing' \/ DOMAIN files = {}
  BY <1>1 DEF Clearing
<1>8. ~Clearing
  BY <1>1 DEF Clearing
<1>9. Directory'
  BY <1>1, <1>3, <1>7, <1>8 DEF IInv, Directory
<1>10. Queue'
  BY <1>1 DEF Queue, Clears
<1>11. ~Shared(mon.id)' => <<"stats", mon'.id>> \notin DOMAIN files
  <2>1. ASSUME <<"stats", mon'.id>> \in DOMAIN files PROVE Named(mon'.id)
    <3>1. PICK id \in Id : <<"stats", mon'.id>> = <<"stats", id>> /\ Named(id)
      BY <2>1 DEF IInv, Directory
    <3>. QED BY <3>1
  <2>. QED BY <1>2, <2>1
<1>12. (mon # NoMonitor => Kept(mon.id, mon.stats.episodes))'
  BY <1>1, <1>11 DEF Kept
<1>. QED BY <1>5, <1>9, <1>10, <1>12 DEF IInv

LEMMA CallStep ==
  ASSUME IInv, io = <<>>, IsMonitor(mon), mon # NoMonitor, Called, UNCHANGED <<plan, files, pid, made, torn>>,
         IsSeq(history')
  PROVE  IInv'
<1>1. /\ IsMonitor(mon') /\ mon'.id = mon.id /\ mon'.run = mon.run /\ HalfClosed(mon')
      /\ Seqs!IsPrefix(mon.stats.episodes, mon'.stats.episodes)
      /\ Pending(io', Nothing, mon.id, mon.stats.episodes)
  BY DEF Called
<1>2. Running'
  BY <1>1 DEF IInv, Running, Made
<1>3. Directory'
  BY DEF IInv, Directory, Clearing, Named
<1>4. mon.stats.episodes \in Seq(Episode) /\ mon'.stats.episodes \in Seq(Episode)
  BY <1>1 DEF IsMonitor, Stats
<1>5. Kept(mon.id, mon.stats.episodes)
  BY DEF IInv
<1>6. Pending(io', files', mon'.id, mon.stats.episodes)
  BY <1>1, PendingAnywhere
<1>7. ~Shared(mon.id)' /\ <<"stats", mon'.id>> \in DOMAIN files' =>
        Seqs!IsPrefix(files'[<<"stats", mon'.id>>].episodes, mon.stats.episodes)
  BY <1>1, <1>5 DEF Kept, Shared
<1>8. Saves'
  <2>1. Kept(mon.id, mon.stats.episodes)' <=>
          (~Shared(mon.id)' /\ <<"stats", mon'.id>> \in DOMAIN files' =>
             Seqs!IsPrefix(files'[<<"stats", mon'.id>>].episodes, mon'.stats.episodes))
    BY DEF Kept
  <2>. QED BY <1>1, <1>4, <1>6, <1>7 DEF Saves, Kept
<1>9. <<"stats", mon.id>> \in DOMAIN files => files[<<"stats", mon.id>>].episodes \in Seq(Episode)
  BY DEF IInv, Directory
<1>10. (Kept(mon.id, mon.stats.episodes))'
  <2>1. ASSUME ~Shared(mon.id)', <<"stats", mon'.id>> \in DOMAIN files'
        PROVE  Seqs!IsPrefix(files'[<<"stats", mon'.id>>].episodes, mon'.stats.episodes)
    BY <1>1, <1>4, <1>7, <1>9, <2>1, PrefixTrans
  <2>. QED BY <2>1 DEF Kept
<1>. QED BY <1>1, <1>2, <1>3, <1>8, <1>10 DEF IInv, Queue

LEMMA NextIInv == ASSUME IInv, [Next]_vars PROVE IInv'
<1>0. IsSeq(history) /\ Len(history) \in Nat
  BY SeqFacts DEF IInv, Running
<1>1. mon.enabled => mon # NoMonitor /\ IsMonitor(mon) /\ HalfClosed(mon)
  BY NoMonitorDisabled DEF IInv, Running
<1>2. CASE DoIO
  <2>1. io # <<>>
    BY <1>2 DEF DoIO
  <2>. QED BY <1>2, <2>1, ClearStep, SaveStep
<1>3. CASE Start
  BY <1>3, StartStep
<1>4. CASE SetMode
  <2>1. /\ io = <<>> /\ io' = io /\ UNCHANGED <<plan, files, pid, made, torn, history>>
        /\ mon.enabled /\ ~mon.stats.closed /\ mon' = [mon EXCEPT !.stats.type = "e"]
    BY <1>4 DEF SetMode, Ready
  <2>2. /\ IsMonitor(mon') /\ mon'.id = mon.id /\ mon'.run = mon.run /\ HalfClosed(mon')
        /\ mon'.stats.episodes = mon.stats.episodes /\ mon.stats \in Stats
    BY <1>1, <2>1 DEF IsMonitor, Stats, HalfClosed
  <2>3. Called
    BY <2>1, <2>2, PrefixRefl, EmptyPending DEF Called, Stats
  <2>. QED BY <1>0, <1>1, <2>1, <2>3, CallStep
<1>5. CASE Reset
  <2>1. io = <<>> /\ UNCHANGED <<plan, files, pid, made, torn, history>> /\ mon.enabled
    BY <1>5 DEF Reset, Ready
  <2>. QED BY <1>0, <1>1, <1>5, <2>1, ResetCalls, CallStep
<1>6. CASE Close
  <2>1. io = <<>> /\ UNCHANGED <<plan, files, pid, made, torn, history>> /\ mon.enabled
    BY <1>6 DEF Close, Ready
  <2>. QED BY <1>0, <1>1, <1>6, <2>1, CloseCalls, CallStep
<1>7. ASSUME NEW done \in BOOLEAN, Step(done) PROVE IInv'
  <2>1. io = <<>> /\ UNCHANGED <<plan, files, pid, made, torn>> /\ mon.enabled
    BY <1>7 DEF Step, Ready
  <2>2. history' = history \/ \E e : history' = Append(history, e)
    BY <1>7 DEF Step
  <2>3. IsSeq(history')
    BY <1>0, <2>2, HistoryAppend
  <2>. QED BY <1>0, <1>1, <1>7, <2>1, <2>3, StepCalls, CallStep
<1>8. CASE Exit
  <2>1. io = <<>> /\ UNCHANGED <<plan, files, io, made, torn, history>> /\ mon' = NoMonitor
        /\ pid' = [pid EXCEPT !.alive = FALSE]
    BY <1>8 DEF Exit, Ready
  <2>2. Running' /\ pid'.n = pid.n /\ pid'.next_id = pid.next_id
    BY <2>1 DEF IInv, Running, Made, Processes
  <2>. QED BY <2>1, <2>2 DEF IInv, Directory, Clearing, Named, Queue
<1>9. CASE Kill
  <2>1. io' = <<>> /\ UNCHANGED <<plan, files, made, history>> /\ mon' = NoMonitor
        /\ pid' = [pid EXCEPT !.alive = FALSE] /\ torn' = (torn \/ Clearing)
    BY <1>9 DEF Kill, Clearing
  <2>2. Running' /\ pid'.n = pid.n /\ pid'.next_id = pid.next_id
    BY <2>1 DEF IInv, Running, Made, Processes
  <2>3. Directory'
    BY <2>1, <2>2 DEF IInv, Directory, Named
  <2>. QED BY <2>1, <2>2, <2>3 DEF IInv, Queue
<1>10. CASE Launch
  <2>1. PICK os \in Pids : pid' = [n |-> pid.n + 1, os |-> os, next_id |-> 0, alive |-> TRUE]
    BY <1>10 DEF Launch
  <2>2. UNCHANGED <<plan, files, io, mon, made, history, torn>>
    BY <1>10 DEF Launch
  <2>3. pid \in Processes /\ pid' \in Processes /\ pid'.n = pid.n + 1 /\ pid.n \in Nat
    BY <2>1, MonitorAssumption DEF IInv, Running, Processes
  <2>4. Made'
    <3>1. ASSUME NEW i \in DOMAIN made PROVE made[i].process <= pid'.n /\ made[i].process # pid'.n
      <4>1. made[i].process \in Nat /\ made[i].process <= pid.n
        BY DEF IInv, Running, Made
      <4>. QED BY <2>3, <4>1
    <3>. QED BY <2>2, <3>1 DEF IInv, Running, Made
  <2>5. Running'
    BY <2>2, <2>3, <2>4 DEF IInv, Running
  <2>6. Directory'
    BY <2>2 DEF IInv, Directory, Clearing, Named
  <2>7. Queue' /\ (mon # NoMonitor => Kept(mon.id, mon.stats.episodes))'
    BY <2>2 DEF IInv, Queue, Clears, Saves, Kept, Shared
  <2>. QED BY <2>5, <2>6, <2>7 DEF IInv
<1>11. CASE UNCHANGED vars
  <2>1. UNCHANGED <<plan, files, io, mon, pid, made, history, torn>>
    BY <1>11 DEF vars
  <2>2. Running'
    BY <2>1 DEF IInv, Running, Made
  <2>3. Directory'
    BY <2>1 DEF IInv, Directory, Clearing, Named
  <2>4. Queue' /\ (mon # NoMonitor => Kept(mon.id, mon.stats.episodes))'
    BY <2>1 DEF IInv, Queue, Clears, Saves, Kept, Shared
  <2>. QED BY <2>2, <2>3, <2>4 DEF IInv
<1>. QED BY <1>2, <1>3, <1>4, <1>5, <1>6, <1>7, <1>8, <1>9, <1>10, <1>11 DEF Next

LEMMA InvariantHolds == Spec => []IInv
<1>. QED BY InitIInv, NextIInv, PTL DEF Spec

\* Whatever is killed, and whenever, what load_results() finds is whole, and no
\* manifest names statistics that are missing, unless clear_monitor_files() was
\* cut: _flush() writes the statistics first and atomic_write() renames.
THEOREM DirectoryAlwaysSound == Spec => []DirectorySound
<1>1. IInv => DirectorySound
  BY DEF IInv, Directory, DirectorySound
<1>. QED BY InvariantHolds, <1>1, PTL

\* The statistics that are on disk are never lost, nor overwritten by another
\* monitor, nor do they shrink: generate_next_id() gives each monitor of a process
\* its own file.  Of a monitor of another process it says nothing if that was given
\* the same uid, or the same number by the system (monitor.py:99).
THEOREM StatsOnlyGrow == Spec => StatsGrow
<1>1. ASSUME IInv, [Next]_vars, NEW n \in DOMAIN files, n[1] = "stats", ~Clearing, ~Shared(n[2])
      PROVE  n \in DOMAIN files' /\ Seqs!IsPrefix(files[n].episodes, files'[n].episodes)
  <2>1. files[n].episodes \in Seq(Episode)
    BY <1>1 DEF IInv, Directory
  <2>2. Seqs!IsPrefix(files[n].episodes, files[n].episodes)
    BY <2>1, PrefixRefl
  <2>3. CASE files' = files
    BY <2>2, <2>3
  <2>4. CASE DoIO
    <3>1. io # <<>> /\ ~Clears
      BY <1>1, <2>4, ClearsFacts DEF DoIO
    <3>2. PICK E \in Seq(Episode) : Pending(io, files, mon.id, E) /\ Kept(mon.id, E)
      BY <1>1, <3>1 DEF IInv, Queue, Saves
    <3>3. /\ n \in DOMAIN files' /\ 1 \in 1..Len(io)
          /\ \/ files'[n] = files[n]
             \/ io[1].op = "replace" /\ n = io[1].to /\ files'[io[1].to] = files[io[1].name]
      BY <1>1, <2>4, <3>2, WriteDone
    <3>4. CASE io[1].op = "replace" /\ n = io[1].to /\ files'[io[1].to] = files[io[1].name]
      <4>1. PutsStats(io, files, mon.id, E, 1)
        BY <1>1, <3>2, <3>3, <3>4 DEF Pending, Visual, Temporary, PutsManifest
      <4>2. n = <<"stats", mon.id>> /\ ~Shared(mon.id) /\ files'[n].episodes = E
        BY <1>1, <3>3, <3>4, <4>1 DEF PutsStats, Source
      <4>. QED BY <3>2, <3>3, <4>2 DEF Kept
    <3>. QED BY <2>2, <3>3, <3>4
  <2>. QED BY <1>1, <2>3, <2>4 DEF Next, vars, Start, SetMode, Reset, Step, Close, Exit, Kill, Launch
<1>2. IInv /\ [Next]_vars =>
        [\A n \in DOMAIN files : n[1] = "stats" /\ ~Clearing /\ ~Shared(n[2]) =>
           /\ n \in DOMAIN files'
           /\ Seqs!IsPrefix(files[n].episodes, files'[n].episodes)]_vars
  BY <1>1
<1>. QED BY InvariantHolds, <1>2, PTL DEF Spec, StatsGrow

-----------------------------------------------------------------------------
(* The directory that a call leads to.                                     *)

Apply(w, F) ==
  CASE w.op = "write" -> [n \in DOMAIN F \cup {w.name} |-> IF n = w.name THEN w.content ELSE F[n]]
    [] w.op = "touch" -> IF w.name \in DOMAIN F THEN F
                         ELSE [n \in DOMAIN F \cup {w.name} |-> IF n = w.name THEN Torn ELSE F[n]]
    [] w.op = "unlink" -> [n \in DOMAIN F \ {w.name} |-> F[n]]
    [] w.op = "replace" -> [n \in (DOMAIN F \ {w.name}) \cup {w.to} |-> IF n = w.to THEN F[w.name] ELSE F[n]]

\* The writes s, done one by one over the directory F, make the directory G.
Leads(s, F, G) ==
  /\ IsSeq(s)
  /\ \E D : D[0] = F /\ D[Len(s)] = G /\ \A j \in 1..Len(s) : D[j] = Apply(s[j], D[j - 1])

\* G differs from F at most in what the names of N hold.
Agree(F, G, N) == \A n : n \notin N => (n \in DOMAIN F <=> n \in DOMAIN G) /\ (n \in DOMAIN F => G[n] = F[n])

LEMMA AgreeTrans ==
  ASSUME NEW F, NEW G, NEW H, NEW N, Agree(F, G, N), Agree(G, H, N)
  PROVE  Agree(F, H, N)
BY DEF Agree

LEMMA ApplyWrite ==
  ASSUME NEW F, NEW name, NEW content, NEW G, G = Apply(Write(name, content), F)
  PROVE  name \in DOMAIN G /\ G[name] = content /\ Agree(F, G, {name})
BY DEF Apply, Write, Agree

LEMMA ApplyUnlink ==
  ASSUME NEW F, NEW name, NEW G, G = Apply(Unlink(name), F)
  PROVE  name \notin DOMAIN G /\ Agree(F, G, {name})
BY DEF Apply, Unlink, Agree

LEMMA ApplyTouch ==
  ASSUME NEW F, NEW name, NEW G, G = Apply([op |-> "touch", name |-> name], F)
  PROVE  Agree(F, G, {name})
BY DEF Apply, Agree

LEMMA LeadsNowhere ==
  ASSUME NEW F PROVE Leads(<<>>, F, F) /\ \A G : Leads(<<>>, F, G) => G = F
<1>1. IsSeq(<<>>)
  BY NoWrites DEF VideoWrites
<1>2. LET D == [j \in {0} |-> F]
      IN  D[0] = F /\ D[Len(<<>>)] = F /\ \A j \in 1..Len(<<>>) : D[j] = Apply((<<>>)[j], D[j - 1])
  OBVIOUS
<1>. QED BY <1>1, <1>2 DEF Leads

LEMMA LeadsOne == ASSUME NEW F, NEW w PROVE Leads(<<w>>, F, Apply(w, F))
<1>1. <<w>> \in Seq({w})
  OBVIOUS
<1>2. IsSeq(<<w>>)
  BY <1>1, AnySeq
<1>. DEFINE D == [j \in 0..1 |-> IF j = 0 THEN F ELSE Apply(w, F)]
<1>3. D[0] = F /\ D[1] = Apply(w, F) /\ \A j \in 1..1 : D[j] = Apply(<<w>>[j], D[j - 1])
  OBVIOUS
<1>. HIDE DEF D
<1>. QED BY <1>2, <1>3 DEF Leads

LEMMA LeadsConcat ==
  ASSUME NEW s, NEW t, NEW F, NEW G, NEW H, Leads(s, F, G), Leads(t, G, H)
  PROVE  Leads(s \o t, F, H)
<1>1. IsSeq(s) /\ IsSeq(t) /\ Len(s) \in Nat /\ Len(t) \in Nat
  BY SeqFacts DEF Leads
<1>2. /\ IsSeq(s \o t) /\ Len(s \o t) = Len(s) + Len(t)
      /\ \A i \in 1..(Len(s) + Len(t)) : (s \o t)[i] = IF i <= Len(s) THEN s[i] ELSE t[i - Len(s)]
  BY <1>1, Concat
<1>3. PICK C : C[0] = F /\ C[Len(s)] = G /\ \A j \in 1..Len(s) : C[j] = Apply(s[j], C[j - 1])
  BY DEF Leads
<1>4. PICK D : D[0] = G /\ D[Len(t)] = H /\ \A j \in 1..Len(t) : D[j] = Apply(t[j], D[j - 1])
  BY DEF Leads
<1>. DEFINE n == Len(s) + Len(t)
            E == [j \in 0..n |-> IF j <= Len(s) THEN C[j] ELSE D[j - Len(s)]]
<1>5. \A j \in 0..n : E[j] = IF j <= Len(s) THEN C[j] ELSE D[j - Len(s)]
  OBVIOUS
<1>6. n \in Nat /\ 0 \in 0..n /\ n \in 0..n
  BY <1>1
<1>. HIDE DEF E
<1>7. E[0] = F
  BY <1>1, <1>3, <1>5, <1>6
<1>8. E[n] = H
  <2>1. CASE Len(t) = 0
    BY <1>1, <1>3, <1>4, <1>5, <1>6, <2>1
  <2>2. CASE Len(t) # 0
    <3>1. ~(n <= Len(s)) /\ n - Len(s) = Len(t)
      BY <1>1, <2>2
    <3>. QED BY <1>4, <1>5, <1>6, <3>1
  <2>. QED BY <2>1, <2>2
<1>9. ASSUME NEW j \in 1..n PROVE E[j] = Apply((s \o t)[j], E[j - 1])
  <2>1. CASE j <= Len(s)
    <3>1. j \in 1..Len(s) /\ j \in 0..n /\ j - 1 \in 0..n /\ j - 1 <= Len(s)
      BY <1>1, <2>1
    <3>2. E[j] = C[j] /\ E[j - 1] = C[j - 1] /\ (s \o t)[j] = s[j]
      BY <1>2, <1>5, <2>1, <3>1
    <3>. QED BY <1>3, <3>1, <3>2
  <2>2. CASE j > Len(s)
    <3>. DEFINE i == j - Len(s)
    <3>1. i \in 1..Len(t) /\ j \in 0..n /\ j - 1 \in 0..n /\ ~(j <= Len(s)) /\ (j - 1) - Len(s) = i - 1
      BY <1>1, <2>2
    <3>2. E[j] = D[i] /\ (s \o t)[j] = t[i]
      BY <1>2, <1>5, <3>1
    <3>3. E[j - 1] = D[i - 1]
      <4>1. CASE j - 1 <= Len(s)
        <5>1. j - 1 = Len(s) /\ i - 1 = 0
          BY <1>1, <2>2, <3>1, <4>1
        <5>. QED BY <1>3, <1>4, <1>5, <3>1, <5>1
      <4>2. CASE ~(j - 1 <= Len(s))
        BY <1>5, <3>1, <4>2
      <4>. QED BY <4>1, <4>2
    <3>. HIDE DEF i
    <3>. QED BY <1>4, <3>1, <3>2, <3>3
  <2>. QED BY <1>1, <2>1, <2>2
<1>. QED BY <1>2, <1>7, <1>8, <1>9 DEF Leads

LEMMA LeadsTail ==
  ASSUME NEW s, NEW F, NEW G, Leads(s, F, G), s # <<>>
  PROVE  Leads(Tail(s), Apply(Head(s), F), G)
<1>1. /\ IsSeq(Tail(s)) /\ Len(s) \in Nat /\ Len(s) >= 1 /\ Head(s) = s[1] /\ Len(Tail(s)) = Len(s) - 1
      /\ \A i \in 1..(Len(s) - 1) : Tail(s)[i] = s[i + 1]
  BY TailFacts DEF Leads
<1>2. PICK D : D[0] = F /\ D[Len(s)] = G /\ \A j \in 1..Len(s) : D[j] = Apply(s[j], D[j - 1])
  BY DEF Leads
<1>. DEFINE n == Len(s) - 1
            E == [j \in 0..n |-> D[j + 1]]
<1>3. \A j \in 0..n : E[j] = D[j + 1]
  OBVIOUS
<1>. HIDE DEF E
<1>4. 0 \in 0..n /\ n \in 0..n /\ n + 1 = Len(s) /\ 1 \in 1..Len(s)
  BY <1>1
<1>5. E[0] = Apply(Head(s), F)
  <2>1. E[0] = D[1]
    BY <1>3, <1>4
  <2>2. D[1] = Apply(s[1], D[0])
    BY <1>2, <1>4
  <2>. QED BY <1>1, <1>2, <2>1, <2>2
<1>6. E[n] = G
  BY <1>2, <1>3, <1>4
<1>7. ASSUME NEW j \in 1..n PROVE E[j] = Apply(Tail(s)[j], E[j - 1])
  <2>1. j \in 0..n /\ j - 1 \in 0..n /\ (j - 1) + 1 = j /\ j + 1 \in 1..Len(s) /\ (j + 1) - 1 = j
    BY <1>1
  <2>2. E[j] = D[j + 1] /\ E[j - 1] = D[j] /\ Tail(s)[j] = s[j + 1]
    BY <1>1, <1>3, <2>1
  <2>3. D[j + 1] = Apply(s[j + 1], D[j])
    BY <1>2, <2>1
  <2>. QED BY <2>2, <2>3
<1>. QED BY <1>1, <1>5, <1>6, <1>7 DEF Leads

\* atomic_write() puts the whole content under the name, and touches no other but
\* the temporary file.
LEMMA AtomicLeads ==
  ASSUME NEW kind, NEW tmp, NEW id, NEW content, NEW F, kind # tmp
  PROVE  \E G : /\ Leads(atomic_write(kind, tmp, id, content), F, G)
                /\ <<kind, id>> \in DOMAIN G /\ G[<<kind, id>>] = content
                /\ Agree(F, G, {<<kind, id>>, <<tmp, id>>})
<1>. DEFINE a == Write(<<tmp, id>>, Torn)
            b == Write(<<tmp, id>>, content)
            c == [op |-> "replace", name |-> <<tmp, id>>, to |-> <<kind, id>>]
            Fa == Apply(a, F)
            Fb == Apply(b, Fa)
            Fc == Apply(c, Fb)
            N == {<<kind, id>>, <<tmp, id>>}
<1>1. Agree(F, Fa, {<<tmp, id>>})
  BY ApplyWrite
<1>2. <<tmp, id>> \in DOMAIN Fb /\ Fb[<<tmp, id>>] = content /\ Agree(Fa, Fb, {<<tmp, id>>})
  <2>. HIDE DEF Fa
  <2>. QED BY ApplyWrite
<1>3. Agree(F, Fa, N) /\ Agree(Fa, Fb, N)
  <2>. HIDE DEF Fa, Fb
  <2>. QED BY <1>1, <1>2 DEF Agree
<1>4. <<kind, id>> \in DOMAIN Fc /\ Fc[<<kind, id>>] = content /\ Agree(Fb, Fc, N)
  <2>1. Fc = [n \in (DOMAIN Fb \ {<<tmp, id>>}) \cup {<<kind, id>>} |-> IF n = <<kind, id>> THEN Fb[<<tmp, id>>] ELSE Fb[n]]
    <3>. HIDE DEF Fb
    <3>. QED BY DEF Apply
  <2>. HIDE DEF Fb, Fc
  <2>. QED BY <1>2, <2>1 DEF Agree
<1>. HIDE DEF Fa, Fb, Fc, N
<1>5. Agree(F, Fc, N)
  BY <1>3, <1>4, AgreeTrans
<1>6. Leads(<<a, b, c>>, F, Fc)
  <2>. HIDE DEF a, b, c
  <2>1. <<a, b, c>> \in Seq({a, b, c})
    OBVIOUS
  <2>2. IsSeq(<<a, b, c>>)
    BY <2>1, AnySeq
  <2>. DEFINE D == [j \in 0..3 |-> IF j = 0 THEN F ELSE IF j = 1 THEN Fa ELSE IF j = 2 THEN Fb ELSE Fc]
              s == <<a, b, c>>
  <2>3. D[0] = F /\ D[1] = Fa /\ D[2] = Fb /\ D[3] = Fc /\ Len(s) = 3 /\ s[1] = a /\ s[2] = b /\ s[3] = c
    OBVIOUS
  <2>. HIDE DEF D, s
  <2>4. Fa = Apply(a, F) /\ Fb = Apply(b, Fa) /\ Fc = Apply(c, Fb)
    BY DEF Fa, Fb, Fc
  <2>5. ASSUME NEW j \in 1..3 PROVE D[j] = Apply(s[j], D[j - 1])
    <3>1. j = 1 \/ j = 2 \/ j = 3
      OBVIOUS
    <3>2. 1 - 1 = 0 /\ 2 - 1 = 1 /\ 3 - 1 = 2
      OBVIOUS
    <3>. QED BY <2>3, <2>4, <3>1, <3>2
  <2>6. IsSeq(s)
    BY <2>2 DEF s
  <2>7. Leads(s, F, Fc)
    BY <2>3, <2>5, <2>6 DEF Leads
  <2>. QED BY <2>7 DEF s
<1>7. atomic_write(kind, tmp, id, content) = <<a, b, c>>
  BY DEF atomic_write
<1>. QED BY <1>4, <1>5, <1>6, <1>7 DEF N

-----------------------------------------------------------------------------
(* The videos of a monitor.                                                *)

Settled(G, id, ep) ==
  LET meta == <<"meta", id, ep>>
  IN  IF <<"video", id, ep>> \in DOMAIN G THEN G[<<"video", id, ep>>].whole
      ELSE meta \in DOMAIN G /\ (G[meta].empty \/ G[meta].broken)

\* Over the directory G, the list P of videos of monitor id, whose recorder is v,
\* has all of them (but those of another process that had its name), complete or
\* noted, but for the one that is being recorded.
Shelf(G, id, P, v) ==
  /\ ~Shared(id) => \A n \in DOMAIN G : n[1] = "video" /\ n[2] = id => n \in P \/ (v.enabled /\ n = <<"video", id, v.ep>>)
  /\ \A p \in P : \E ep : p = <<"video", id, ep>> /\ (Settled(G, id, ep) \/ (v.enabled /\ ep = v.ep))

Videos == {NoVideo} \cup [enabled : {TRUE}, ep : Nat, encoder : {"None", "frames", "empty"}, broken : BOOLEAN]
Paths(list) == {list[i][1] : i \in DOMAIN list}

Recording(m) == m.opt \in Options /\ m.episode_id \in Nat /\ m.video \in Videos /\ IsSeq(m.videos)

LEMMA VideoFacts ==
  ASSUME NEW v \in Videos
  PROVE  /\ v.enabled \in BOOLEAN
         /\ v.enabled => v.broken \in BOOLEAN /\ v.ep \in Nat
         /\ v.enabled => v \in [enabled : {TRUE}, ep : Nat, encoder : {"None", "frames", "empty"}, broken : BOOLEAN]
<1>1. CASE v = NoVideo
  <2>1. v.enabled = FALSE
    BY <1>1 DEF NoVideo
  <2>. QED BY <2>1
<1>2. CASE v \in [enabled : {TRUE}, ep : Nat, encoder : {"None", "frames", "empty"}, broken : BOOLEAN]
  BY <1>2
<1>. QED BY <1>1, <1>2 DEF Videos

LEMMA CapturedVideo ==
  ASSUME NEW m, m.opt \in Options, NEW v \in Videos, NEW frame \in Frames(m, v)
  PROVE  /\ Captured(m, v, frame) \in Videos
         /\ Captured(m, v, frame).enabled = v.enabled /\ (v.enabled => Captured(m, v, frame).ep = v.ep)
<1>1. CASE frame = "skip"
  BY <1>1 DEF Captured
<1>2. CASE frame \in {"good", "none", "bad", "raise"} /\ functional(v)
  <2>1. v \in [enabled : {TRUE}, ep : Nat, encoder : {"None", "frames", "empty"}, broken : BOOLEAN]
    BY <1>2, VideoFacts DEF functional
  <2>. QED BY <1>2, <2>1 DEF Captured, Videos
<1>3. frame = "skip" \/ (frame \in {"good", "none", "bad", "raise"} /\ functional(v))
  BY DEF Frames, Options
<1>. QED BY <1>1, <1>2, <1>3

\* The variant of the recorder that v is makes no difference but for its episode.
LEMMA ShelfSame ==
  ASSUME NEW G, NEW id, NEW P, NEW v, NEW w, Shelf(G, id, P, v), w.enabled = v.enabled, v.enabled => w.ep = v.ep
  PROVE  Shelf(G, id, P, w)
BY DEF Shelf

LEMMA ShelfFrame ==
  ASSUME NEW F, NEW G, NEW id, NEW P, NEW v, NEW N, Shelf(F, id, P, v), Agree(F, G, N),
         \A n \in N : n[1] \notin {"video", "meta"}
  PROVE  Shelf(G, id, P, v)
<1>1. \A n : n[1] \in {"video", "meta"} => (n \in DOMAIN F <=> n \in DOMAIN G) /\ (n \in DOMAIN F => G[n] = F[n])
  BY DEF Agree
<1>2. \A ep : <<"video", id, ep>>[1] = "video" /\ <<"meta", id, ep>>[1] = "meta"
  OBVIOUS
<1>3. ASSUME NEW ep, Settled(F, id, ep) PROVE Settled(G, id, ep)
  BY <1>1, <1>2, <1>3 DEF Settled
<1>. QED BY <1>1, <1>3 DEF Shelf

LEMMA CloseVideoLeads ==
  ASSUME NEW m, NEW v \in Videos, NEW F, v.enabled
  PROVE  \E G : /\ Leads(CloseVideo(m, v), F, G) /\ Agree(F, G, {VideoPath(m, v), MetaPath(m, v)})
                /\ VideoPath(m, v) \in DOMAIN G => G[VideoPath(m, v)].whole /\ functional(v)
                /\ VideoPath(m, v) \notin DOMAIN G =>
                     /\ MetaPath(m, v) \in DOMAIN G
                     /\ G[MetaPath(m, v)].empty \/ G[MetaPath(m, v)].broken
<1>. DEFINE p == VideoPath(m, v)
            q == MetaPath(m, v)
            w == IF v.encoder = "None" THEN Unlink(p) ELSE Write(p, [whole |-> TRUE])
            a == IF v.encoder = "None" THEN <<Unlink(p)>> ELSE <<Write(p, [whole |-> TRUE])>>
            b == IF v.broken THEN <<Unlink(p)>> ELSE <<>>
            meta == Meta(v.encoder = "None", v.broken)
            c == <<Write(q, meta)>>
            Fa == Apply(w, F)
            Fb == IF v.broken THEN Apply(Unlink(p), Fa) ELSE Fa
            Fc == Apply(Write(q, meta), Fb)
<1>1. p # q /\ v.broken \in BOOLEAN
  BY VideoFacts DEF VideoPath, MetaPath
<1>2. meta.empty = (v.encoder = "None") /\ meta.broken = v.broken
  BY DEF Meta
<1>3. CloseVideo(m, v) = (a \o b) \o c
  BY DEF CloseVideo
<1>4. a = <<w>>
  OBVIOUS
<1>. HIDE DEF p, q, meta
<1>5. /\ v.encoder = "None" => p \notin DOMAIN Fa
      /\ v.encoder # "None" => p \in DOMAIN Fa /\ Fa[p].whole
      /\ Agree(F, Fa, {p})
  <2>1. CASE v.encoder = "None"
    BY <2>1, ApplyUnlink
  <2>2. CASE v.encoder # "None"
    BY <2>2, ApplyWrite
  <2>. QED BY <2>1, <2>2
<1>6. Leads(a, F, Fa)
  <2>. HIDE DEF w, a
  <2>. QED BY <1>4, LeadsOne
<1>. HIDE DEF w, a, Fa
<1>7. /\ v.broken => p \notin DOMAIN Fb
      /\ ~v.broken => Fb = Fa
      /\ Agree(Fa, Fb, {p}) /\ Leads(b, Fa, Fb)
  <2>1. CASE v.broken
    BY <2>1, ApplyUnlink, LeadsOne
  <2>2. CASE ~v.broken
    BY <2>2, LeadsNowhere DEF Agree
  <2>. QED BY <2>1, <2>2
<1>. HIDE DEF b, Fb
<1>8. q \in DOMAIN Fc /\ Fc[q] = meta /\ Agree(Fb, Fc, {q}) /\ Leads(c, Fb, Fc)
  BY ApplyWrite, LeadsOne
<1>. HIDE DEF c, Fc
<1>9. Leads((a \o b) \o c, F, Fc)
  BY <1>6, <1>7, <1>8, LeadsConcat
<1>10. Agree(F, Fc, {p, q})
  BY <1>5, <1>7, <1>8 DEF Agree
<1>11. (p \in DOMAIN Fc <=> p \in DOMAIN Fb) /\ (p \in DOMAIN Fb => Fc[p] = Fb[p])
  BY <1>1, <1>8 DEF Agree
<1>12. p \in DOMAIN Fc => Fc[p].whole /\ functional(v)
  BY <1>1, <1>5, <1>7, <1>11 DEF functional
<1>13. p \notin DOMAIN Fc => Fc[q].empty \/ Fc[q].broken
  BY <1>1, <1>2, <1>5, <1>7, <1>8, <1>11
<1>. QED BY <1>3, <1>8, <1>9, <1>10, <1>12, <1>13 DEF p, q

\* _close_video_recorder(): what was being recorded is complete or noted, and listed.
LEMMA ShelfClose ==
  ASSUME NEW m, NEW v \in Videos, NEW F, NEW P, Shelf(F, m.id, P, v)
  PROVE  \E G : /\ Leads(CloseVideo(m, v), F, G)
                /\ Agree(F, G, {VideoPath(m, v), MetaPath(m, v)})
                /\ Shelf(G, m.id, P \cup IF functional(v) THEN {VideoPath(m, v)} ELSE {}, NoVideo)
<1>1. ~NoVideo.enabled
  BY DEF NoVideo
<1>2. CASE ~v.enabled
  <2>1. CloseVideo(m, v) = <<>> /\ ~functional(v)
    BY <1>2 DEF CloseVideo, functional
  <2>2. Agree(F, F, {VideoPath(m, v), MetaPath(m, v)})
    BY DEF Agree
  <2>3. Shelf(F, m.id, P \cup {}, NoVideo)
    BY <1>1, <1>2 DEF Shelf
  <2>. QED BY <2>1, <2>2, <2>3, LeadsNowhere
<1>3. CASE v.enabled
  <2>. DEFINE p == VideoPath(m, v)
              q == MetaPath(m, v)
              Q == P \cup IF functional(v) THEN {p} ELSE {}
  <2>1. PICK G : /\ Leads(CloseVideo(m, v), F, G) /\ Agree(F, G, {p, q})
                 /\ p \in DOMAIN G => G[p].whole /\ functional(v)
                 /\ p \notin DOMAIN G => q \in DOMAIN G /\ (G[q].empty \/ G[q].broken)
    BY <1>3, CloseVideoLeads
  <2>2. p = <<"video", m.id, v.ep>> /\ q = <<"meta", m.id, v.ep>>
    BY DEF VideoPath, MetaPath
  <2>. HIDE DEF p, q
  <2>3. Settled(G, m.id, v.ep)
    BY <2>1, <2>2 DEF Settled
  <2>4. ASSUME NEW ep, ep # v.ep, Settled(F, m.id, ep) PROVE Settled(G, m.id, ep)
    <3>1. <<"video", m.id, ep>> \notin {p, q} /\ <<"meta", m.id, ep>> \notin {p, q}
      BY <2>2, <2>4
    <3>. QED BY <2>1, <2>4, <3>1 DEF Agree, Settled
  <2>5. ASSUME ~Shared(m.id), NEW n \in DOMAIN G, n[1] = "video", n[2] = m.id PROVE n \in Q
    <3>1. CASE n = p
      BY <2>1, <3>1
    <3>2. CASE n # p
      <4>1. n # q
        BY <2>2, <2>5
      <4>2. n \in DOMAIN F
        BY <2>1, <3>2, <4>1 DEF Agree
      <4>. QED BY <2>2, <2>5, <3>2, <4>2 DEF Shelf
    <3>. QED BY <3>1, <3>2
  <2>6. ASSUME NEW x \in Q PROVE \E ep : x = <<"video", m.id, ep>> /\ Settled(G, m.id, ep)
    <3>1. CASE x = p
      BY <2>2, <2>3, <3>1
    <3>2. CASE x \in P
      <4>1. PICK ep : x = <<"video", m.id, ep>> /\ (Settled(F, m.id, ep) \/ ep = v.ep)
        BY <3>2 DEF Shelf
      <4>. QED BY <2>3, <2>4, <4>1
    <3>. QED BY <3>1, <3>2
  <2>. HIDE DEF Q
  <2>7. Shelf(G, m.id, Q, NoVideo)
    BY <2>5, <2>6 DEF Shelf
  <2>. QED BY <2>1, <2>7 DEF Q, p, q
<1>. QED BY <1>2, <1>3, VideoFacts

LEMMA ListedPaths ==
  ASSUME NEW m, IsSeq(m.videos)
  PROVE  /\ IsSeq(Listed(m))
         /\ Paths(Listed(m)) = Paths(m.videos) \cup IF functional(m.video) THEN {VideoPath(m, m.video)} ELSE {}
<1>. DEFINE p == VideoPath(m, m.video)
            e == <<p, MetaPath(m, m.video)>>
            s == m.videos
<1>1. CASE ~functional(m.video)
  BY <1>1 DEF Listed, Paths
<1>2. CASE functional(m.video)
  <2>1. Listed(m) = Append(s, e) /\ e[1] = p
    BY <1>2 DEF Listed
  <2>. HIDE DEF e, s
  <2>2. /\ IsSeq(Append(s, e)) /\ Len(s) \in Nat /\ DOMAIN s = 1..Len(s)
        /\ DOMAIN Append(s, e) = 1..(Len(s) + 1)
        /\ \A i \in 1..Len(s) : Append(s, e)[i] = s[i]
        /\ Append(s, e)[Len(s) + 1] = e
    BY AppendFacts DEF s
  <2>3. Paths(Append(s, e)) = Paths(s) \cup {e[1]}
    <3>1. ASSUME NEW x \in Paths(Append(s, e)) PROVE x \in Paths(s) \cup {e[1]}
      <4>1. PICK i \in 1..(Len(s) + 1) : x = Append(s, e)[i][1]
        BY <2>2 DEF Paths
      <4>2. CASE i = Len(s) + 1
        BY <2>2, <4>1, <4>2
      <4>3. CASE i # Len(s) + 1
        <5>1. i \in 1..Len(s)
          BY <2>2, <4>3
        <5>. QED BY <2>2, <4>1, <5>1 DEF Paths
      <4>. QED BY <4>2, <4>3
    <3>2. ASSUME NEW x \in Paths(s) PROVE x \in Paths(Append(s, e))
      <4>1. PICK i \in 1..Len(s) : x = s[i][1]
        BY <2>2 DEF Paths
      <4>2. i \in 1..(Len(s) + 1) /\ x = Append(s, e)[i][1]
        BY <2>2, <4>1
      <4>. QED BY <2>2, <4>2 DEF Paths
    <3>3. e[1] \in Paths(Append(s, e))
      <4>1. Len(s) + 1 \in DOMAIN Append(s, e) /\ e[1] = Append(s, e)[Len(s) + 1][1]
        BY <2>2
      <4>. QED BY <4>1 DEF Paths
    <3>. QED BY <3>1, <3>2, <3>3
  <2>. QED BY <1>2, <2>1, <2>2, <2>3 DEF s
<1>. QED BY <1>1, <1>2

LEMMA NewVideoFacts ==
  ASSUME NEW m, Recording(m) PROVE NewVideo(m) \in Videos
BY DEF NewVideo, Videos, Recording

\* reset_video_recorder(): the old video is settled, and the new one is begun.
LEMMA ResetVideoLeads ==
  ASSUME NEW m, IsMonitor(m), Recording(m), NEW F, Shelf(F, m.id, Paths(m.videos), m.video),
         NEW frame \in Frames(m, NewVideo(m)), NEW r, r = ResetVideo(m, frame)
  PROVE  /\ Recording(r)
         /\ \E G : Leads(ResetVideoIO(m), F, G) /\ Shelf(G, m.id, Paths(r.videos), r.video)
<1>. DEFINE v == NewVideo(m)
            P == Paths(Listed(m))
<1>1. v \in Videos /\ m.video \in Videos /\ IsSeq(m.videos) /\ m.opt \in Options /\ m.episode_id \in Nat
  BY NewVideoFacts DEF Recording
<1>2. /\ IsSeq(Listed(m))
      /\ P = Paths(m.videos) \cup IF functional(m.video) THEN {VideoPath(m, m.video)} ELSE {}
  BY <1>1, ListedPaths
<1>3. r.videos = Listed(m) /\ r.video = Captured(m, v, frame) /\ r.opt = m.opt /\ r.episode_id = m.episode_id
  BY DEF ResetVideo, IsMonitor
<1>. HIDE DEF v, P
<1>4. r.video \in Videos /\ r.video.enabled = v.enabled /\ (v.enabled => r.video.ep = v.ep)
  BY <1>1, <1>3, CapturedVideo DEF v
<1>5. Recording(r)
  BY <1>1, <1>2, <1>3, <1>4 DEF Recording
<1>6. PICK G : Leads(CloseVideo(m, m.video), F, G) /\ Shelf(G, m.id, P, NoVideo)
  BY <1>1, <1>2, ShelfClose
<1>7. \E H : Leads(TouchVideo(m, v), G, H) /\ Shelf(H, m.id, P, v)
  <2>1. CASE ~v.enabled
    <3>1. TouchVideo(m, v) = <<>> /\ ~NoVideo.enabled
      BY <2>1 DEF TouchVideo, NoVideo
    <3>. QED BY <1>6, <2>1, <3>1, LeadsNowhere DEF Shelf
  <2>2. CASE v.enabled
    <3>. DEFINE p == VideoPath(m, v)
                q == MetaPath(m, v)
                a == [op |-> "touch", name |-> p]
                b == Write(q, Meta(FALSE, FALSE))
                Ga == Apply(a, G)
                Gb == Apply(b, Ga)
    <3>1. TouchVideo(m, v) = <<a, b>>
      BY <2>2 DEF TouchVideo
    <3>. HIDE DEF p, q
    <3>2. Agree(G, Ga, {p})
      BY ApplyTouch
    <3>3. Leads(<<a>>, G, Ga)
      <4>. HIDE DEF a
      <4>. QED BY LeadsOne
    <3>. HIDE DEF a, Ga
    <3>4. Agree(Ga, Gb, {q})
      BY ApplyWrite
    <3>5. Leads(<<b>>, Ga, Gb)
      <4>. HIDE DEF b
      <4>. QED BY LeadsOne
    <3>. HIDE DEF b, Gb
    <3>6. <<a>> \o <<b>> = <<a, b>>
      BY PairConcat
    <3>7. Leads(<<a, b>>, G, Gb)
      BY <3>3, <3>5, <3>6, LeadsConcat
    <3>8. \A n : n \notin {p, q} => (n \in DOMAIN G <=> n \in DOMAIN Gb) /\ (n \in DOMAIN G => Gb[n] = G[n])
      BY <3>2, <3>4 DEF Agree
    <3>9. p = <<"video", m.id, v.ep>> /\ q = <<"meta", m.id, v.ep>> /\ ~NoVideo.enabled
      BY DEF p, q, VideoPath, MetaPath, NoVideo
    <3>10. ASSUME NEW ep, ep # v.ep, Settled(G, m.id, ep) PROVE Settled(Gb, m.id, ep)
      <4>1. <<"video", m.id, ep>> \notin {p, q} /\ <<"meta", m.id, ep>> \notin {p, q}
        BY <3>9, <3>10
      <4>. QED BY <3>8, <3>10, <4>1 DEF Settled
    <3>11. ASSUME ~Shared(m.id), NEW n \in DOMAIN Gb, n[1] = "video", n[2] = m.id PROVE n \in P \/ n = p
      <4>1. n # q
        BY <3>9, <3>11
      <4>. QED BY <1>6, <3>8, <3>9, <3>11, <4>1 DEF Shelf
    <3>12. Shelf(Gb, m.id, P, v)
      BY <1>6, <2>2, <3>9, <3>10, <3>11 DEF Shelf
    <3>. QED BY <3>1, <3>7, <3>12
  <2>. QED BY <1>1, <2>1, <2>2, VideoFacts
<1>8. PICK H : Leads(TouchVideo(m, v), G, H) /\ Shelf(H, m.id, P, v)
  BY <1>7
<1>9. Leads(ResetVideoIO(m), F, H)
  BY <1>6, <1>8, LeadsConcat DEF ResetVideoIO, v
<1>10. Shelf(H, m.id, P, r.video)
  BY <1>4, <1>8, ShelfSame
<1>. QED BY <1>3, <1>5, <1>9, <1>10 DEF P

FlushNames(id) == {<<"stats", id>>, <<"stats~", id>>, <<"manifest", id>>, <<"manifest~", id>>}

LEMMA StatsFlushLeads ==
  ASSUME NEW id, NEW st, NEW F
  PROVE  \E G : /\ Leads(StatsFlush(id, st), F, G) /\ Agree(F, G, {<<"stats", id>>, <<"stats~", id>>})
                /\ ~st.closed => <<"stats", id>> \in DOMAIN G /\ G[<<"stats", id>>].episodes = st.episodes
<1>1. CASE st.closed
  BY <1>1, LeadsNowhere DEF StatsFlush, Agree
<1>2. CASE ~st.closed
  <2>1. PICK G : /\ Leads(atomic_write("stats", "stats~", id, StatsFile(st)), F, G)
                 /\ <<"stats", id>> \in DOMAIN G /\ G[<<"stats", id>>] = StatsFile(st)
                 /\ Agree(F, G, {<<"stats", id>>, <<"stats~", id>>})
    BY AtomicLeads
  <2>2. StatsFlush(id, st) = atomic_write("stats", "stats~", id, StatsFile(st)) /\ StatsFile(st).episodes = st.episodes
    BY <1>2 DEF StatsFlush, StatsFile
  <2>. QED BY <2>1, <2>2
<1>. QED BY <1>1, <1>2

LEMMA FlushLeads ==
  ASSUME NEW m, NEW force, NEW F
  PROVE  \E G : Leads(Flush(m, force), F, G) /\ Agree(F, G, FlushNames(m.id))
<1>1. CASE m.opt.write_upon_reset \/ force
  <2>1. PICK G : Leads(StatsFlush(m.id, m.stats), F, G) /\ Agree(F, G, {<<"stats", m.id>>, <<"stats~", m.id>>})
    BY StatsFlushLeads
  <2>2. PICK H : /\ Leads(atomic_write("manifest", "manifest~", m.id, Manifest(m)), G, H)
                 /\ Agree(G, H, {<<"manifest", m.id>>, <<"manifest~", m.id>>})
    BY AtomicLeads
  <2>3. Leads(Flush(m, force), F, H)
    BY <1>1, <2>1, <2>2, LeadsConcat DEF Flush
  <2>4. Agree(F, H, FlushNames(m.id))
    BY <2>1, <2>2 DEF Agree, FlushNames
  <2>. QED BY <2>3, <2>4
<1>2. CASE ~(m.opt.write_upon_reset \/ force)
  BY <1>2, LeadsNowhere DEF Flush, Agree
<1>. QED BY <1>1, <1>2

LEMMA FlushKind == ASSUME NEW id PROVE \A n \in FlushNames(id) : n[1] \notin {"video", "meta"}
BY DEF FlushNames

\* What a monitor that has closed leaves in G.
Filed(G, m) ==
  /\ {<<"stats", m.id>>, <<"manifest", m.id>>} \subseteq DOMAIN G
  /\ G[<<"stats", m.id>>].episodes = m.stats.episodes
  /\ G[<<"manifest", m.id>>].videos = m.videos

Shown(G, m) == /\ Shelf(G, m.id, Paths(m.videos), IF m.enabled THEN m.video ELSE NoVideo)
               /\ ~m.enabled => Filed(G, m)

\* What reset(), step() and close() lead to.
Records == Recording(mon') /\ \E G : Leads(io', files, G) /\ Shown(G, mon')

LEMMA ResetRecords ==
  ASSUME IsMonitor(mon), Recording(mon), Shown(files, mon), Reset
  PROVE  Records /\ mon'.stats.episodes = mon.stats.episodes
<1>. DEFINE m == [mon EXCEPT !.stats = AfterReset(@), !.taken = 0, !.resets = @ + 1]
<1>1. mon.stats \in Stats /\ mon.enabled /\ io = <<>>
  BY DEF IsMonitor, Reset, Ready
<1>2. /\ IsMonitor(m) /\ m.id = mon.id /\ m.stats.episodes = mon.stats.episodes /\ m.enabled
      /\ m.videos = mon.videos /\ m.video = mon.video /\ m.opt = mon.opt /\ m.episode_id = mon.episode_id
  BY <1>1, AfterResetStats DEF IsMonitor
<1>3. Recording(m) /\ Shelf(files, m.id, Paths(m.videos), m.video)
  BY <1>1, <1>2 DEF Recording, Shown
<1>4. \/ mon' = m /\ io' = io
      \/ \E frame \in Frames(m, NewVideo(m)) :
           \/ mon' = ResetVideo(m, frame) /\ io' = ResetVideoIO(m)
           \/ LET b == [ResetVideo(m, frame) EXCEPT !.episode_id = @ + 1]
              IN  mon' = b /\ io' = ResetVideoIO(m) \o Flush(b, FALSE)
  BY DEF Reset
<1>. HIDE DEF m
<1>5. CASE mon' = m /\ io' = io
  BY <1>1, <1>2, <1>3, <1>5, LeadsNowhere DEF Records, Shown
<1>6. ASSUME NEW frame \in Frames(m, NewVideo(m)), NEW r, r = ResetVideo(m, frame)
      PROVE  /\ IsMonitor(r) /\ r.stats = m.stats /\ r.id = m.id /\ r.enabled /\ Recording(r)
             /\ \E G : Leads(ResetVideoIO(m), files, G) /\ Shelf(G, m.id, Paths(r.videos), r.video)
  BY <1>2, <1>3, <1>6, ResetVideoMonitor, ResetVideoLeads
<1>7. ASSUME NEW frame \in Frames(m, NewVideo(m)), mon' = ResetVideo(m, frame) /\ io' = ResetVideoIO(m)
      PROVE  Records /\ mon'.stats.episodes = mon.stats.episodes
  <2>1. /\ mon'.stats = m.stats /\ mon'.id = m.id /\ mon'.enabled /\ Recording(mon')
        /\ \E G : Leads(ResetVideoIO(m), files, G) /\ Shelf(G, m.id, Paths(mon'.videos), mon'.video)
    BY <1>6, <1>7
  <2>. QED BY <1>2, <1>7, <2>1 DEF Records, Shown
<1>8. ASSUME NEW frame \in Frames(m, NewVideo(m)), NEW r, r = ResetVideo(m, frame),
             NEW b, b = [r EXCEPT !.episode_id = @ + 1], mon' = b, io' = ResetVideoIO(m) \o Flush(b, FALSE)
      PROVE  Records /\ mon'.stats.episodes = mon.stats.episodes
  <2>1. /\ IsMonitor(r) /\ r.stats = m.stats /\ r.id = m.id /\ r.enabled /\ Recording(r)
        /\ \E G : Leads(ResetVideoIO(m), files, G) /\ Shelf(G, m.id, Paths(r.videos), r.video)
    BY <1>6, <1>8
  <2>2. b.stats = m.stats /\ b.id = m.id /\ b.enabled /\ Recording(b) /\ b.videos = r.videos /\ b.video = r.video
    BY <1>8, <2>1 DEF IsMonitor, Recording
  <2>3. PICK G : Leads(ResetVideoIO(m), files, G) /\ Shelf(G, m.id, Paths(r.videos), r.video)
    BY <2>1
  <2>4. PICK H : Leads(Flush(b, FALSE), G, H) /\ Agree(G, H, FlushNames(b.id))
    BY FlushLeads
  <2>5. Leads(io', files, H)
    BY <1>8, <2>3, <2>4, LeadsConcat
  <2>6. Shelf(H, b.id, Paths(b.videos), b.video)
    BY <2>2, <2>3, <2>4, FlushKind, ShelfFrame
  <2>. QED BY <1>2, <1>8, <2>2, <2>5, <2>6 DEF Records, Shown
<1>. QED BY <1>4, <1>5, <1>7, <1>8

LEMMA StepRecords ==
  ASSUME IsMonitor(mon), Recording(mon), Shown(files, mon), NEW done, Step(done)
  PROVE  Records
<1>. DEFINE auto == done /\ mon.opt.autoreset
            m == Took(auto)
            R(first) == IF auto THEN ResetVideo(m, first) ELSE m
            B(first) == IF auto THEN [R(first) EXCEPT !.episode_id = @ + 1, !.resets = @ + 1] ELSE m
            writes == IF auto THEN ResetVideoIO(m) ELSE <<>>
<1>1. mon.stats \in Stats /\ mon.enabled /\ io = <<>>
  BY DEF IsMonitor, Step, Ready
<1>0. /\ IsMonitor(m) /\ m.id = mon.id /\ m.enabled = mon.enabled /\ m.videos = mon.videos /\ m.video = mon.video
      /\ m.opt = mon.opt /\ m.episode_id = mon.episode_id
  BY TookFacts
<1>2. \/ mon' = m /\ io' = io
      \/ \E first \in IF auto THEN Frames(m, NewVideo(m)) ELSE {"skip"} :
           \/ auto /\ mon' = R(first) /\ io' = writes
           \/ \E frame \in Frames(B(first), B(first).video) :
                /\ mon' = [B(first) EXCEPT !.stats = AfterStep(@, done, mon.opt.autoreset),
                                           !.video = Captured(B(first), @, frame)]
                /\ io' = writes \o IF auto THEN Flush(B(first), FALSE) ELSE <<>>
  BY DEF Step, Took
<1>3. Shelf(files, m.id, Paths(m.videos), m.video) /\ Recording(m)
  BY <1>0, <1>1 DEF Shown, Recording
<1>4. ASSUME NEW first \in IF auto THEN Frames(m, NewVideo(m)) ELSE {"skip"}
      PROVE  /\ IsMonitor(R(first)) /\ R(first).id = mon.id /\ R(first).enabled /\ Recording(R(first))
             /\ \E G : Leads(writes, files, G) /\ Shelf(G, mon.id, Paths(R(first).videos), R(first).video)
  <2>. HIDE DEF m
  <2>1. CASE auto
    <3>1. PICK r : r = ResetVideo(m, first)
      OBVIOUS
    <3>2. /\ IsMonitor(r) /\ r.id = m.id /\ r.enabled = m.enabled /\ Recording(r)
          /\ \E G : Leads(ResetVideoIO(m), files, G) /\ Shelf(G, m.id, Paths(r.videos), r.video)
      BY <1>0, <1>3, <2>1, <3>1, ResetVideoMonitor, ResetVideoLeads
    <3>. QED BY <1>0, <1>1, <2>1, <3>1, <3>2
  <2>2. CASE ~auto
    BY <1>0, <1>1, <1>3, <2>2, LeadsNowhere
  <2>. QED BY <2>1, <2>2
<1>5. ASSUME NEW first \in IF auto THEN Frames(m, NewVideo(m)) ELSE {"skip"}
      PROVE  /\ IsMonitor(B(first)) /\ B(first).id = mon.id /\ B(first).enabled /\ Recording(B(first))
             /\ B(first).videos = R(first).videos /\ B(first).video = R(first).video
  <2>1. IsMonitor(R(first)) /\ R(first).id = mon.id /\ R(first).enabled /\ Recording(R(first))
    BY <1>4
  <2>. HIDE DEF R, m
  <2>2. CASE auto
    <3>1. ASSUME NEW r, IsMonitor(r), r.enabled, Recording(r)
          PROVE  LET b == [r EXCEPT !.episode_id = @ + 1, !.resets = @ + 1]
                 IN  /\ IsMonitor(b) /\ b.id = r.id /\ b.enabled /\ b.videos = r.videos /\ b.video = r.video
                     /\ b.opt = r.opt /\ b.episode_id = r.episode_id + 1
      BY <3>1 DEF IsMonitor
    <3>2. ASSUME NEW r, Recording(r), NEW b, b.videos = r.videos, b.video = r.video, b.opt = r.opt,
                 b.episode_id = r.episode_id + 1
          PROVE  Recording(b)
      BY <3>2 DEF Recording
    <3>. QED BY <2>1, <2>2, <3>1, <3>2
  <2>3. CASE ~auto
    BY <1>0, <1>1, <1>3, <2>3 DEF R
  <2>. QED BY <2>2, <2>3
<1>6. CASE mon' = m /\ io' = io
  <2>. HIDE DEF m
  <2>. QED BY <1>0, <1>1, <1>3, <1>6, LeadsNowhere DEF Records, Shown
<1>7. ASSUME NEW first \in IF auto THEN Frames(m, NewVideo(m)) ELSE {"skip"}, mon' = R(first), io' = writes
      PROVE  Records
  <2>. HIDE DEF R, writes, auto, m
  <2>. QED BY <1>4, <1>7 DEF Records, Shown
<1>8. ASSUME NEW first \in IF auto THEN Frames(m, NewVideo(m)) ELSE {"skip"},
             NEW frame \in Frames(B(first), B(first).video),
             mon' = [B(first) EXCEPT !.stats = AfterStep(@, done, mon.opt.autoreset),
                                     !.video = Captured(B(first), @, frame)],
             io' = writes \o IF auto THEN Flush(B(first), FALSE) ELSE <<>>
      PROVE  Records
  <2>. DEFINE b == B(first)
              v == Captured(b, b.video, frame)
              F == IF auto THEN Flush(b, FALSE) ELSE <<>>
  <2>1. /\ IsMonitor(b) /\ b.id = mon.id /\ b.enabled /\ Recording(b)
        /\ \E G : Leads(writes, files, G) /\ Shelf(G, b.id, Paths(b.videos), b.video)
    BY <1>4, <1>5
  <2>2. v \in Videos /\ v.enabled = b.video.enabled /\ (b.video.enabled => v.ep = b.video.ep)
    <3>1. b.opt \in Options /\ b.video \in Videos /\ frame \in Frames(b, b.video)
      BY <1>8, <2>1 DEF Recording
    <3>. HIDE DEF b
    <3>. QED BY <3>1, CapturedVideo
  <2>3. PICK G : Leads(writes, files, G) /\ Shelf(G, b.id, Paths(b.videos), b.video)
    BY <2>1
  <2>4. \E H : Leads(F, G, H) /\ Agree(G, H, FlushNames(b.id))
    <3>1. Agree(G, G, FlushNames(b.id))
      BY DEF Agree
    <3>. QED BY <3>1, FlushLeads, LeadsNowhere
  <2>5. io' = writes \o F
    BY <1>8
  <2>6. mon' = [b EXCEPT !.stats = AfterStep(@, done, mon.opt.autoreset), !.video = v]
    BY <1>8
  <2>. HIDE DEF b, F, writes, v, m
  <2>7. PICK H : Leads(F, G, H) /\ Agree(G, H, FlushNames(b.id))
    BY <2>4
  <2>8. Leads(io', files, H)
    BY <2>3, <2>5, <2>7, LeadsConcat
  <2>9. Shelf(H, b.id, Paths(b.videos), v)
    <3>1. Shelf(H, b.id, Paths(b.videos), b.video)
      BY <2>3, <2>7, FlushKind, ShelfFrame
    <3>. QED BY <2>2, <3>1, ShelfSame
  <2>10. /\ mon'.id = b.id /\ mon'.enabled /\ mon'.videos = b.videos /\ mon'.video = v
         /\ mon'.opt = b.opt /\ mon'.episode_id = b.episode_id
    BY <2>1, <2>6 DEF IsMonitor
  <2>11. Recording(mon')
    BY <2>1, <2>2, <2>10 DEF Recording
  <2>. QED BY <2>8, <2>9, <2>10, <2>11 DEF Records, Shown
<1>. QED BY <1>2, <1>6, <1>7, <1>8

LEMMA CloseRecords ==
  ASSUME IsMonitor(mon), HalfClosed(mon), Recording(mon), Shown(files, mon), Close
  PROVE  Records /\ mon'.stats.episodes = mon.stats.episodes
<1>. DEFINE closed == [mon EXCEPT !.stats.closed = TRUE]
            m == [closed EXCEPT !.videos = Listed(mon)]
            stats == StatsFlush(mon.id, mon.stats)
            P == Paths(mon.videos)
            id == mon.id
<1>1. mon.stats \in Stats /\ mon.enabled
  BY DEF IsMonitor, Close
<1>2. /\ IsMonitor(closed) /\ closed.id = id /\ closed.stats.episodes = mon.stats.episodes
      /\ closed.video = mon.video /\ closed.videos = mon.videos /\ closed.stats.closed /\ closed.enabled
      /\ closed.opt = mon.opt /\ closed.episode_id = mon.episode_id
  BY <1>1 DEF IsMonitor, Stats
<1>3. \/ CloseRaises(mon.video) /\ mon' = closed /\ io' = stats
      \/ /\ ~CloseRaises(mon.video) /\ mon' = [m EXCEPT !.enabled = FALSE]
         /\ io' = (stats \o CloseVideo(mon, mon.video)) \o Flush(m, TRUE)
  BY DEF Close
<1>4. Shelf(files, id, P, mon.video) /\ mon.video \in Videos /\ IsSeq(mon.videos)
  BY <1>1 DEF Shown, Recording
<1>. HIDE DEF closed
<1>5. PICK G : /\ Leads(stats, files, G) /\ Agree(files, G, {<<"stats", id>>, <<"stats~", id>>})
               /\ ~mon.stats.closed => <<"stats", id>> \in DOMAIN G /\ G[<<"stats", id>>].episodes = mon.stats.episodes
  BY StatsFlushLeads
<1>6. Shelf(G, id, P, mon.video)
  <2>1. \A n \in {<<"stats", id>>, <<"stats~", id>>} : n[1] \notin {"video", "meta"}
    OBVIOUS
  <2>. QED BY <1>4, <1>5, <2>1, ShelfFrame
<1>7. CASE CloseRaises(mon.video) /\ mon' = closed /\ io' = stats
  BY <1>2, <1>5, <1>6, <1>7 DEF Records, Recording, Shown
<1>8. CASE /\ ~CloseRaises(mon.video) /\ mon' = [m EXCEPT !.enabled = FALSE]
           /\ io' = (stats \o CloseVideo(mon, mon.video)) \o Flush(m, TRUE)
  <2>1. ~mon.stats.closed
    BY <1>1, <1>8 DEF HalfClosed
  <2>2. /\ IsSeq(Listed(mon))
        /\ Paths(Listed(mon)) = P \cup IF functional(mon.video) THEN {VideoPath(mon, mon.video)} ELSE {}
    BY <1>4, ListedPaths
  <2>3. PICK H : /\ Leads(CloseVideo(mon, mon.video), G, H)
                 /\ Agree(G, H, {VideoPath(mon, mon.video), MetaPath(mon, mon.video)})
                 /\ Shelf(H, id, Paths(Listed(mon)), NoVideo)
    BY <1>4, <1>6, <2>2, ShelfClose
  <2>4. /\ m.id = id /\ m.stats = closed.stats /\ m.videos = Listed(mon) /\ m.video = mon.video
        /\ m.opt = mon.opt /\ m.episode_id = mon.episode_id /\ IsMonitor(m)
    BY <1>2 DEF IsMonitor
  <2>. HIDE DEF m
  <2>5. Flush(m, TRUE) = <<>> \o atomic_write("manifest", "manifest~", id, Manifest(m))
    BY <1>2, <2>4 DEF Flush, StatsFlush
  <2>6. PICK K : /\ Leads(atomic_write("manifest", "manifest~", id, Manifest(m)), H, K)
                 /\ <<"manifest", id>> \in DOMAIN K /\ K[<<"manifest", id>>] = Manifest(m)
                 /\ Agree(H, K, {<<"manifest", id>>, <<"manifest~", id>>})
    <3>1. ASSUME NEW i, NEW c
          PROVE  \E K : /\ Leads(atomic_write("manifest", "manifest~", i, c), H, K)
                        /\ <<"manifest", i>> \in DOMAIN K /\ K[<<"manifest", i>>] = c
                        /\ Agree(H, K, {<<"manifest", i>>, <<"manifest~", i>>})
      BY AtomicLeads
    <3>. QED BY <3>1, Zenon
  <2>7. Leads(Flush(m, TRUE), H, K)
    <3>. DEFINE t == atomic_write("manifest", "manifest~", id, Manifest(m))
    <3>1. Leads(<<>>, H, H) /\ Leads(t, H, K)
      BY <2>6, LeadsNowhere
    <3>. HIDE DEF t
    <3>2. Leads(<<>> \o t, H, K)
      BY <3>1, LeadsConcat
    <3>. QED BY <2>5, <3>2 DEF t
  <2>8. Leads(io', files, K)
    <3>1. Leads(stats \o CloseVideo(mon, mon.video), files, H)
      BY <1>5, <2>3, LeadsConcat
    <3>. QED BY <1>8, <2>7, <3>1, LeadsConcat
  <2>9. Shelf(K, id, Paths(Listed(mon)), NoVideo)
    <3>1. \A n \in {<<"manifest", id>>, <<"manifest~", id>>} : n[1] \notin {"video", "meta"}
      OBVIOUS
    <3>. QED BY <2>3, <2>6, <3>1, ShelfFrame
  <2>10. <<"stats", id>> \in DOMAIN K /\ K[<<"stats", id>>].episodes = mon.stats.episodes
    <3>1. /\ <<"stats", id>> \notin {VideoPath(mon, mon.video), MetaPath(mon, mon.video)}
          /\ <<"stats", id>> \notin {<<"manifest", id>>, <<"manifest~", id>>}
      BY DEF VideoPath, MetaPath
    <3>. QED BY <1>5, <2>1, <2>3, <2>6, <3>1 DEF Agree
  <2>11. /\ mon'.id = id /\ ~mon'.enabled /\ mon'.stats = closed.stats /\ mon'.videos = Listed(mon)
         /\ mon'.opt = mon.opt /\ mon'.episode_id = mon.episode_id /\ mon'.video = mon.video
    BY <1>8, <2>4 DEF IsMonitor
  <2>12. Recording(mon')
    BY <2>2, <2>11 DEF Recording
  <2>13. Filed(K, mon')
    BY <1>2, <2>4, <2>6, <2>10, <2>11 DEF Filed, Manifest
  <2>. QED BY <1>2, <2>8, <2>9, <2>11, <2>12, <2>13 DEF Records, Shown
<1>. QED BY <1>3, <1>7, <1>8

-----------------------------------------------------------------------------
(* What a monitor that has closed leaves on disk.                          *)

Times(episodes) == {episodes[i].time : i \in DOMAIN episodes}
Mine(run) == {t \in DOMAIN history : history[t].run = run /\ ~history[t].lost}

Fresh == mon.enabled /\ mon.videos = <<>> /\ mon.video = NoVideo

\* The episodes of a monitor that were counted are those of its statistics, and its
\* writes lead to a directory in which its videos are in order.
Recorded ==
  /\ \A t \in DOMAIN history : history[t].run \in DOMAIN made
  /\ mon # NoMonitor =>
       /\ Recording(mon) /\ Times(mon.stats.episodes) = Mine(mon.run)
       /\ Clears => Fresh
       /\ ~Clears => \E G : Leads(io, files, G) /\ Shown(G, mon)

LEMMA TimesAppend ==
  ASSUME NEW s \in Seq(Episode), NEW e \in Episode
  PROVE  Times(Append(s, e)) = Times(s) \cup {e.time}
<1>1. /\ Len(s) \in Nat /\ DOMAIN s = 1..Len(s) /\ DOMAIN Append(s, e) = 1..(Len(s) + 1)
      /\ \A i \in 1..Len(s) : Append(s, e)[i] = s[i]
      /\ Append(s, e)[Len(s) + 1] = e
  BY AnySeq, AppendFacts
<1>. DEFINE a == Append(s, e)
<1>. HIDE DEF a
<1>2. ASSUME NEW x \in Times(a) PROVE x \in Times(s) \cup {e.time}
  <2>1. PICK i \in 1..(Len(s) + 1) : x = a[i].time
    BY <1>1 DEF Times, a
  <2>2. CASE i = Len(s) + 1
    BY <1>1, <2>1, <2>2 DEF a
  <2>3. CASE i # Len(s) + 1
    <3>1. i \in 1..Len(s)
      BY <1>1, <2>3
    <3>. QED BY <1>1, <2>1, <3>1 DEF Times, a
  <2>. QED BY <2>2, <2>3
<1>3. ASSUME NEW x \in Times(s) PROVE x \in Times(a)
  <2>1. PICK i \in 1..Len(s) : x = s[i].time
    BY <1>1 DEF Times
  <2>2. i \in DOMAIN a /\ x = a[i].time
    BY <1>1, <2>1 DEF a
  <2>. QED BY <2>2 DEF Times
<1>4. e.time \in Times(a)
  <2>1. Len(s) + 1 \in DOMAIN a /\ e.time = a[Len(s) + 1].time
    BY <1>1 DEF a
  <2>. QED BY <2>1 DEF Times
<1>. QED BY <1>2, <1>3, <1>4 DEF a

LEMMA AfterStepTimes ==
  ASSUME NEW st \in Stats, NEW done \in BOOLEAN, NEW auto, Len(history) \in Nat
  PROVE  Times(AfterStep(st, done, auto).episodes) =
           Times(st.episodes) \cup IF done THEN {Len(history) + 1} ELSE {}
<1>. DEFINE s == [st EXCEPT !.steps = @ + 1]
            e == [time |-> Len(history) + 1, len |-> s.steps]
            saved == [s EXCEPT !.done = "yes", !.episodes = Append(@, e)]
<1>1. s.episodes = st.episodes /\ s.steps \in Nat /\ s.types = st.types
  BY DEF Stats
<1>2. e \in Episode /\ e.time = Len(history) + 1 /\ st.episodes \in Seq(Episode)
  BY <1>1 DEF Stats, Episode
<1>3. saved.episodes = Append(st.episodes, e)
  <2>. HIDE DEF e
  <2>. QED BY DEF Stats
<1>4. AfterReset(saved).episodes = saved.episodes
  <2>. HIDE DEF e
  <2>. QED BY DEF AfterReset, Stats
<1>5. AfterStep(st, done, auto) = IF ~done THEN s ELSE IF auto THEN AfterReset(saved) ELSE saved
  BY DEF AfterStep
<1>6. Times(Append(st.episodes, e)) = Times(st.episodes) \cup {Len(history) + 1}
  <2>. HIDE DEF e
  <2>. QED BY <1>2, TimesAppend
<1>. HIDE DEF s, saved, e
<1>. QED BY <1>1, <1>3, <1>4, <1>5, <1>6

\* An episode of the monitor with n steps more, which was lost or counted.
Ended(n, lost) == [run |-> mon.run, len |-> n + 1, lost |-> lost]

\* The history and the statistics of step() grow together.
LEMMA StepTimes ==
  ASSUME IsMonitor(mon), IsSeq(history), NEW done \in BOOLEAN, Step(done)
  PROVE  \/ history' = history /\ Times(mon'.stats.episodes) = Times(mon.stats.episodes)
         \/ \E e : /\ history' = Append(history, e) /\ e.run = mon.run /\ e.lost
                   /\ Times(mon'.stats.episodes) = Times(mon.stats.episodes)
         \/ \E e : /\ history' = Append(history, e) /\ e.run = mon.run /\ ~e.lost
                   /\ Times(mon'.stats.episodes) = Times(mon.stats.episodes) \cup {Len(history) + 1}
<1>. DEFINE auto == done /\ mon.opt.autoreset
            m == Took(auto)
            R(first) == IF auto THEN ResetVideo(m, first) ELSE m
            B(first) == IF auto THEN [R(first) EXCEPT !.episode_id = @ + 1, !.resets = @ + 1] ELSE m
            h(lost) == Ended(mon.taken, lost)
<1>1. mon.stats \in Stats /\ Len(history) \in Nat
  BY SeqFacts DEF IsMonitor
<1>2. \/ /\ mon' = m \/ \E first : mon' = R(first)
         /\ auto /\ history' = IF done THEN Append(history, h(TRUE)) ELSE history
      \/ \E first : \E frame : /\ mon' = [B(first) EXCEPT !.stats = AfterStep(@, done, mon.opt.autoreset),
                                                           !.video = Captured(B(first), @, frame)]
                               /\ history' = IF done THEN Append(history, h(FALSE)) ELSE history
  BY DEF Step, Took, Ended
<1>3. ASSUME NEW first
      PROVE  R(first).stats = mon.stats /\ IsMonitor(B(first)) /\ B(first).stats = mon.stats
  <2>1. IsMonitor(m) /\ m.stats = mon.stats
    BY TookFacts
  <2>. HIDE DEF m
  <2>2. IsMonitor(ResetVideo(m, first)) /\ ResetVideo(m, first).stats = mon.stats
    BY <2>1, ResetVideoMonitor
  <2>. QED BY <2>1, <2>2 DEF IsMonitor
<1>4. m.stats = mon.stats /\ (auto => done) /\ h(TRUE).run = mon.run /\ h(TRUE).lost
      /\ h(FALSE).run = mon.run /\ ~h(FALSE).lost
  BY TookFacts DEF Ended
<1>. HIDE DEF m, R, B, h, auto
<1>5. ASSUME NEW first, NEW frame,
             mon' = [B(first) EXCEPT !.stats = AfterStep(@, done, mon.opt.autoreset),
                                     !.video = Captured(B(first), @, frame)]
      PROVE  mon'.stats = AfterStep(mon.stats, done, mon.opt.autoreset)
  <2>1. mon'.stats = AfterStep(B(first).stats, done, mon.opt.autoreset)
    BY <1>3, <1>5 DEF IsMonitor
  <2>. QED BY <1>3, <2>1
<1>6. Times(AfterStep(mon.stats, done, mon.opt.autoreset).episodes) =
        Times(mon.stats.episodes) \cup IF done THEN {Len(history) + 1} ELSE {}
  BY <1>1, AfterStepTimes
<1>7. CASE /\ mon' = m \/ \E first : mon' = R(first)
           /\ auto /\ history' = IF done THEN Append(history, h(TRUE)) ELSE history
  <2>1. mon'.stats = mon.stats /\ history' = Append(history, h(TRUE))
    BY <1>3, <1>4, <1>7
  <2>. QED BY <1>4, <2>1
<1>8. ASSUME NEW first, NEW frame,
             mon' = [B(first) EXCEPT !.stats = AfterStep(@, done, mon.opt.autoreset),
                                     !.video = Captured(B(first), @, frame)],
             history' = IF done THEN Append(history, h(FALSE)) ELSE history
      PROVE  \/ history' = history /\ Times(mon'.stats.episodes) = Times(mon.stats.episodes)
             \/ \E e : /\ history' = Append(history, e) /\ e.run = mon.run /\ ~e.lost
                       /\ Times(mon'.stats.episodes) = Times(mon.stats.episodes) \cup {Len(history) + 1}
  BY <1>4, <1>5, <1>6, <1>8
<1>. QED BY <1>2, <1>7, <1>8

LEMMA RecordedInit == Init => Recorded
<1>. SUFFICES ASSUME Init PROVE Recorded
  OBVIOUS
<1>1. mon = NoMonitor /\ history = <<>>
  BY DEF Init
<1>. QED BY <1>1 DEF Recorded

LEMMA RecordedStart ==
  ASSUME IInv, Recorded, Start
  PROVE  Recorded'
<1>. DEFINE opt == Head(plan)
<1>1. /\ io = <<>> /\ files' = files /\ history' = history /\ plan # <<>>
      /\ io' = <<>> \/ Clears'
      /\ mon'.enabled /\ mon'.opt = opt /\ mon'.stats = NewStats /\ mon'.episode_id = 0
      /\ mon'.videos = <<>> /\ mon'.video = NoVideo /\ mon' # NoMonitor
  BY NoMonitorDisabled DEF Start, Ready, Clears
<1>2. opt \in Options
  BY <1>1, HeadTailProperties DEF IInv, Running
<1>. HIDE DEF opt
<1>3. /\ DOMAIN made \subseteq DOMAIN made' /\ mon'.run \notin DOMAIN made
      /\ Named(mon'.id) => Shared(mon.id)'
  BY StartMade DEF IInv
<1>5. Fresh' /\ mon'.stats.episodes = <<>>
  BY <1>1 DEF Fresh, NewStats
<1>6. Recording(mon')
  <2>1. IsSeq(<<>>)
    BY NoWrites DEF VideoWrites
  <2>. QED BY <1>1, <1>2, <2>1 DEF Recording, Videos
<1>7. Times(mon'.stats.episodes) = {}
  BY <1>5 DEF Times
<1>8. Mine(mon.run)' = {}
  BY <1>1, <1>3 DEF Mine, Recorded
<1>9. Shown(files, mon)'
  <2>1. Paths(mon'.videos) = {}
    BY <1>5 DEF Fresh, Paths
  <2>2. ~Shared(mon.id)' => \A n \in DOMAIN files : n[1] = "video" => n[2] # mon'.id
    BY <1>3 DEF IInv, Directory
  <2>3. Shelf(files, mon.id, Paths(mon.videos), mon.video)'
    BY <1>1, <1>5, <2>1, <2>2 DEF Shelf, Fresh
  <2>. QED BY <1>5, <2>3 DEF Shown, Fresh
<1>10. ~Clears' => io' = <<>>
  BY <1>1
<1>11. (\A t \in DOMAIN history : history[t].run \in DOMAIN made)'
  BY <1>1, <1>3 DEF Recorded
<1>12. Leads(<<>>, files', files')
  BY LeadsNowhere
<1>13. ~Clears' => \E G : Leads(io', files', G) /\ (Shown(G, mon))'
  BY <1>9, <1>10, <1>12
<1>. QED BY <1>1, <1>5, <1>6, <1>7, <1>8, <1>11, <1>13 DEF Recorded

LEMMA RecordedIO ==
  ASSUME IInv, Recorded, DoIO
  PROVE  Recorded'
<1>1. UNCHANGED <<plan, mon, pid, made, history, torn>> /\ io # <<>>
  BY DEF DoIO
<1>2. (\A t \in DOMAIN history : history[t].run \in DOMAIN made)'
  BY <1>1 DEF Recorded
<1>3. SUFFICES ASSUME mon # NoMonitor
               PROVE  /\ Clears' => Fresh'
                      /\ ~Clears' => \E G : Leads(io', files', G) /\ Shown(G, mon)
  BY <1>1, <1>2 DEF Recorded, Mine, Shown, Shelf, Shared
<1>4. CASE Clears
  <2>1. Fresh /\ Fresh'
    BY <1>1, <1>3, <1>4 DEF Recorded, Fresh
  <2>3. Clears' \/ (io' = <<>> /\ DOMAIN files' = {})
    BY <1>4, ClearCases
  <2>4. DOMAIN files' = {} => Shown(files', mon)
    BY <2>1 DEF Fresh, Shown, Shelf, Paths
  <2>. QED BY <2>1, <2>3, <2>4, LeadsNowhere
<1>5. CASE ~Clears
  <2>1. PICK G : Leads(io, files, G) /\ Shown(G, mon)
    BY <1>3, <1>5 DEF Recorded
  <2>2. PICK E : Pending(io, files, mon.id, E)
    BY <1>1, <1>5 DEF IInv, Queue, Saves
  <2>3. io' = Tail(io) /\ Head(io) = io[1] /\ 1 \in 1..Len(io)
    BY <2>2, WriteDone
  <2>4. Head(io).op \in {"write", "touch", "unlink", "replace"}
    BY <2>2, <2>3 DEF Pending, Visual, Temporary, PutsStats, PutsManifest
  <2>5. files' = Apply(Head(io), files)
    BY <2>4 DEF DoIO, Apply, Put, Without
  <2>6. Leads(io', files', G)
    BY <1>1, <2>1, <2>3, <2>5, LeadsTail
  <2>7. ~Clears'
    <3>1. Pending(io', files', mon.id, E)
      BY <2>2, <2>3, RestPending
    <3>. QED BY <3>1, PendingNoClear DEF Clears
  <2>. QED BY <2>1, <2>6, <2>7
<1>. QED BY <1>4, <1>5

\* A call of a monitor, with what it adds to the history.
LEMMA RecordedCall ==
  ASSUME IInv, Recorded, io = <<>>, mon # NoMonitor, Called, Records, UNCHANGED <<files, made>>,
         \/ history' = history /\ Times(mon'.stats.episodes) = Times(mon.stats.episodes)
         \/ \E e : /\ history' = Append(history, e) /\ e.run = mon.run /\ e.lost
                   /\ Times(mon'.stats.episodes) = Times(mon.stats.episodes)
         \/ \E e : /\ history' = Append(history, e) /\ e.run = mon.run /\ ~e.lost
                   /\ Times(mon'.stats.episodes) = Times(mon.stats.episodes) \cup {Len(history) + 1}
  PROVE  Recorded'
<1>1. /\ mon'.id = mon.id /\ mon'.run = mon.run /\ Recording(mon') /\ ~Clears'
      /\ \E G : Leads(io', files, G) /\ Shown(G, mon')
  BY PendingNoClear DEF Called, Records, Clears
<1>2. (\E G : Leads(io, files, G) /\ Shown(G, mon))'
  BY <1>1 DEF Shown, Shelf, Shared
<1>3. mon.run \in DOMAIN made /\ Times(mon.stats.episodes) = Mine(mon.run)
  BY DEF IInv, Running, Recorded
<1>4. CASE history' = history /\ Times(mon'.stats.episodes) = Times(mon.stats.episodes)
  BY <1>1, <1>2, <1>3, <1>4 DEF Recorded, Mine
<1>5. ASSUME NEW e, history' = Append(history, e), e.run = mon.run,
             Times(mon'.stats.episodes) = Times(mon.stats.episodes) \cup IF e.lost THEN {} ELSE {Len(history) + 1}
      PROVE  Recorded'
  <2>1. /\ Len(history) \in Nat /\ DOMAIN history = 1..Len(history) /\ DOMAIN history' = 1..(Len(history) + 1)
        /\ \A i \in 1..Len(history) : history'[i] = history[i]
        /\ history'[Len(history) + 1] = e
    BY <1>5, AppendFacts DEF IInv, Running
  <2>2. \A i \in 1..(Len(history) + 1) : i = Len(history) + 1 \/ i \in 1..Len(history)
    BY <2>1
  <2>3. (\A t \in DOMAIN history : history[t].run \in DOMAIN made)'
    BY <1>3, <1>5, <2>1, <2>2 DEF Recorded
  <2>4. Mine(mon.run)' = Mine(mon.run) \cup IF e.lost THEN {} ELSE {Len(history) + 1}
    <3>1. \A t : t \in DOMAIN history' <=> t \in DOMAIN history \/ t = Len(history) + 1
      BY <2>1
    <3>. QED BY <1>1, <1>5, <2>1, <3>1 DEF Mine
  <2>. QED BY <1>1, <1>2, <1>3, <1>5, <2>3, <2>4 DEF Recorded
<1>. QED BY <1>4, <1>5

LEMMA NextRecorded == ASSUME IInv, Recorded, [Next]_vars PROVE Recorded'
<1>1. mon.enabled => mon # NoMonitor /\ IsMonitor(mon) /\ HalfClosed(mon) /\ Recording(mon)
  BY NoMonitorDisabled DEF IInv, Running, Recorded
<1>2. ASSUME io = <<>>, mon.enabled PROVE Shown(files, mon)
  <2>1. ~Clears
    BY <1>2 DEF Clears
  <2>. QED BY <1>1, <1>2, <2>1, LeadsNowhere DEF Recorded
<1>3. IsSeq(history) /\ Len(history) \in Nat
  BY SeqFacts DEF IInv, Running
<1>4. CASE DoIO
  BY <1>4, RecordedIO
<1>5. CASE Start
  BY <1>5, RecordedStart
<1>6. CASE SetMode
  <2>1. /\ io = <<>> /\ io' = io /\ UNCHANGED <<files, made, history>>
        /\ mon.enabled /\ mon' = [mon EXCEPT !.stats.type = "e"]
    BY <1>6 DEF SetMode, Ready
  <2>2. /\ mon'.id = mon.id /\ mon'.run = mon.run /\ mon'.stats.episodes = mon.stats.episodes
        /\ mon'.enabled = mon.enabled
        /\ mon'.videos = mon.videos /\ mon'.video = mon.video /\ mon'.opt = mon.opt /\ mon'.episode_id = mon.episode_id
    BY <1>1, <2>1 DEF IsMonitor, Stats
  <2>3. Shown(files, mon)' /\ Recording(mon')
    BY <1>1, <1>2, <2>1, <2>2 DEF Shown, Shelf, Shared, Recording
  <2>4. ~Clears'
    BY <2>1 DEF Clears
  <2>5. (\A t \in DOMAIN history : history[t].run \in DOMAIN made)'
    BY <2>1 DEF Recorded
  <2>6. Times(mon'.stats.episodes) = Mine(mon.run)'
    BY <1>1, <2>1, <2>2 DEF Recorded, Mine
  <2>7. Leads(io', files', files')
    BY <2>1, LeadsNowhere
  <2>8. (\E G : Leads(io, files, G) /\ Shown(G, mon))'
    BY <2>3, <2>7
  <2>. QED BY <2>1, <2>3, <2>4, <2>5, <2>6, <2>8 DEF Recorded
<1>7. CASE Reset
  <2>1. io = <<>> /\ UNCHANGED <<files, made, history>> /\ mon.enabled
    BY <1>7 DEF Reset, Ready
  <2>. QED BY <1>1, <1>2, <1>7, <2>1, ResetCalls, ResetRecords, RecordedCall
<1>8. CASE Close
  <2>1. io = <<>> /\ UNCHANGED <<files, made, history>> /\ mon.enabled
    BY <1>8 DEF Close, Ready
  <2>. QED BY <1>1, <1>2, <1>8, <2>1, CloseCalls, CloseRecords, RecordedCall
<1>9. ASSUME NEW done \in BOOLEAN, Step(done) PROVE Recorded'
  <2>1. io = <<>> /\ UNCHANGED <<files, made>> /\ mon.enabled
    BY <1>9 DEF Step, Ready
  <2>. QED BY <1>1, <1>2, <1>3, <1>9, <2>1, StepCalls, StepRecords, StepTimes, RecordedCall
<1>10. CASE Exit \/ Kill
  <2>1. UNCHANGED <<made, history>> /\ mon' = NoMonitor
    BY <1>10 DEF Exit, Kill, Ready
  <2>. QED BY <2>1 DEF Recorded
<1>11. CASE Launch \/ UNCHANGED vars
  <2>1. UNCHANGED <<files, io, mon, made, history>>
    BY <1>11 DEF Launch, vars
  <2>. QED BY <2>1 DEF Recorded, Clears, Fresh, Mine, Shown, Shelf, Shared
<1>. QED BY <1>4, <1>5, <1>6, <1>7, <1>8, <1>9, <1>10, <1>11 DEF Next

LEMMA RecordedHolds == Spec => [](IInv /\ Recorded)
<1>1. Init => IInv /\ Recorded
  BY InitIInv, RecordedInit
<1>2. IInv /\ Recorded /\ [Next]_vars => IInv' /\ Recorded'
  BY NextIInv, NextRecorded
<1>. QED BY <1>1, <1>2, PTL DEF Spec

\* A monitor that has closed has left on disk all its episodes that were counted, and
\* each of its videos complete or noted as empty or broken, with none out of the list
\* (if no other process had its names): whatever render() gave, and however often
\* reset() or step() raised before (_close_video_recorder(), reset_video_recorder() and
\* close()).
THEOREM ClosedIsKept == Spec => []ClosedKept
<1>1. ASSUME IInv, Recorded PROVE ClosedKept
  <2>1. SUFFICES ASSUME mon # NoMonitor, ~mon.enabled, io = <<>>
                 PROVE  LET man == <<"manifest", mon.id>>
                            st == <<"stats", mon.id>>
                        IN  /\ {man, st} \subseteq DOMAIN files
                            /\ Times(files[st].episodes) = Mine(mon.run)
                            /\ LET paths == Paths(files[man].videos)
                               IN  /\ ~Shared(mon.id) => {n \in DOMAIN files : n[1] = "video" /\ n[2] = mon.id} \subseteq paths
                                   /\ \A p \in paths : IF p \in DOMAIN files THEN files[p].whole
                                        ELSE LET meta == files[<<"meta", p[2], p[3]>>] IN meta.empty \/ meta.broken
    BY DEF ClosedKept, Times, Mine, Paths
  <2>2. ~Clears
    BY <2>1 DEF Clears
  <2>3. Shown(files, mon) /\ Times(mon.stats.episodes) = Mine(mon.run)
    BY <1>1, <2>1, <2>2, LeadsNowhere DEF Recorded
  <2>4. Filed(files, mon) /\ Shelf(files, mon.id, Paths(mon.videos), NoVideo) /\ ~NoVideo.enabled
    BY <2>1, <2>3 DEF Shown, NoVideo
  <2>5. ASSUME NEW p \in Paths(mon.videos)
        PROVE  IF p \in DOMAIN files THEN files[p].whole
               ELSE LET meta == files[<<"meta", p[2], p[3]>>] IN meta.empty \/ meta.broken
    <3>1. PICK ep : p = <<"video", mon.id, ep>> /\ Settled(files, mon.id, ep)
      BY <2>4 DEF Shelf
    <3>2. p[2] = mon.id /\ p[3] = ep
      BY <3>1
    <3>. QED BY <3>1, <3>2 DEF Settled
  <2>6. ~Shared(mon.id) => {n \in DOMAIN files : n[1] = "video" /\ n[2] = mon.id} \subseteq Paths(mon.videos)
    BY <2>4 DEF Shelf
  <2>. QED BY <2>3, <2>4, <2>5, <2>6 DEF Filed
<1>. QED BY RecordedHolds, <1>1, PTL

-----------------------------------------------------------------------------
(* The statistics and the history say the same.                            *)

\* The history h has e as an episode of the run, with its length unless the last
\* one before it was lost.
Has(h, run, e) ==
  /\ e.time \in DOMAIN h /\ h[e.time].run = run
  /\ h[e.time].len = e.len \/ LostBefore(h, run, e.time)

\* E are the first episodes that the history h has of the run, but for those that
\* were lost, each once and in order.
Full(h, E, run) ==
  /\ E \in Seq(Episode)
  /\ \A i \in DOMAIN E : Has(h, run, E[i])
  /\ \A i, j \in DOMAIN E : i < j => E[i].time < E[j].time
  /\ \A i \in DOMAIN E : \A u \in 1..(E[i].time - 1) : h[u].run = run => u \in Times(E) \/ h[u].lost

LEMMA EmptyFull == ASSUME NEW h, NEW run PROVE Full(h, <<>>, run)
BY DEF Full

LEMMA EpisodeFacts ==
  ASSUME NEW E \in Seq(Episode)
  PROVE  /\ Len(E) \in Nat /\ DOMAIN E = 1..Len(E)
         /\ \A i \in 1..Len(E) : E[i] \in Episode /\ E[i].time \in Nat /\ E[i].len \in Nat
<1>1. Len(E) \in Nat /\ DOMAIN E = 1..Len(E) /\ \A i \in 1..Len(E) : E[i] \in Episode
  OBVIOUS
<1>. QED BY <1>1 DEF Episode

LEMMA PrefixFacts ==
  ASSUME NEW D \in Seq(Episode), NEW E \in Seq(Episode), Seqs!IsPrefix(D, E)
  PROVE  Len(D) <= Len(E) /\ \A i \in 1..Len(D) : D[i] = E[i]
<1>1. Len(D) \in Nat /\ Len(E) \in Nat /\ Len(D) <= Len(E)
  BY DEF Seqs!IsPrefix
<1>2. SubSeq(D, 1, Len(D)) = SubSeq(E, 1, Len(D))
  BY DEF Seqs!IsPrefix
<1>3. ASSUME NEW i \in 1..Len(D) PROVE D[i] = E[i]
  <2>1. SubSeq(D, 1, Len(D))[i] = SubSeq(E, 1, Len(D))[i]
    BY <1>2
  <2>. QED BY <1>1, <2>1
<1>. QED BY <1>1, <1>3

LEMMA PrefixFull ==
  ASSUME NEW h, NEW run, NEW E, Full(h, E, run), NEW D \in Seq(Episode), Seqs!IsPrefix(D, E)
  PROVE  Full(h, D, run)
<1>1. E \in Seq(Episode)
  BY DEF Full
<1>2. /\ Len(D) \in Nat /\ Len(E) \in Nat /\ Len(D) <= Len(E)
      /\ DOMAIN D = 1..Len(D) /\ DOMAIN E = 1..Len(E)
      /\ \A i \in 1..Len(D) : D[i] = E[i] /\ i \in 1..Len(E)
      /\ \A i \in 1..Len(E) : E[i].time \in Nat
  BY <1>1, PrefixFacts, EpisodeFacts
<1>3. ASSUME NEW i \in DOMAIN D, NEW u \in 1..(D[i].time - 1), h[u].run = run, ~h[u].lost PROVE u \in Times(D)
  <2>1. PICK j \in DOMAIN E : u = E[j].time
    BY <1>2, <1>3 DEF Full, Times
  <2>2. ~(j = i) /\ ~(i < j)
    BY <1>2, <1>3, <2>1 DEF Full
  <2>3. j \in DOMAIN D /\ D[j].time = u
    BY <1>2, <2>1, <2>2
  <2>. QED BY <2>3 DEF Times
<1>4. \A i \in DOMAIN D : Has(h, run, D[i])
  BY <1>2 DEF Full
<1>5. \A i, j \in DOMAIN D : i < j => D[i].time < D[j].time
  BY <1>2 DEF Full
<1>. QED BY <1>3, <1>4, <1>5 DEF Full

LEMMA LostAppend ==
  ASSUME NEW h, IsSeq(h), NEW e, NEW run, NEW t \in 1..(Len(h) + 1), LostBefore(h, run, t)
  PROVE  LostBefore(Append(h, e), run, t)
<1>. DEFINE a == Append(h, e)
<1>1. Len(h) \in Nat /\ \A i \in 1..Len(h) : a[i] = h[i]
  BY AppendFacts
<1>. HIDE DEF a
<1>2. PICK u \in 1..(t - 1) : h[u].run = run /\ h[u].lost /\ \A v \in (u + 1)..(t - 1) : h[v].run # run
  BY DEF LostBefore
<1>3. u \in 1..Len(h) /\ \A v \in (u + 1)..(t - 1) : v \in 1..Len(h)
  BY <1>1
<1>4. a[u].run = run /\ a[u].lost /\ \A v \in (u + 1)..(t - 1) : a[v].run # run
  BY <1>1, <1>2, <1>3
<1>. QED BY <1>2, <1>4 DEF LostBefore, a

LEMMA HasAppend ==
  ASSUME NEW h, IsSeq(h), NEW e, NEW run, NEW x, Has(h, run, x)
  PROVE  Has(Append(h, e), run, x)
<1>1. /\ Len(h) \in Nat /\ DOMAIN h = 1..Len(h) /\ DOMAIN Append(h, e) = 1..(Len(h) + 1)
      /\ \A i \in 1..Len(h) : Append(h, e)[i] = h[i]
  BY AppendFacts
<1>2. x.time \in 1..Len(h) /\ x.time \in 1..(Len(h) + 1)
  BY <1>1 DEF Has
<1>3. LostBefore(h, run, x.time) => LostBefore(Append(h, e), run, x.time)
  BY <1>2, LostAppend
<1>. QED BY <1>1, <1>2, <1>3 DEF Has

LEMMA HistoryFull ==
  ASSUME NEW h, IsSeq(h), NEW e, NEW run, NEW E, Full(h, E, run)
  PROVE  Full(Append(h, e), E, run)
<1>. DEFINE a == Append(h, e)
<1>1. /\ Len(h) \in Nat /\ DOMAIN h = 1..Len(h) /\ DOMAIN a = 1..(Len(h) + 1)
      /\ \A i \in 1..Len(h) : a[i] = h[i]
  BY AppendFacts
<1>2. \A i \in DOMAIN E : Has(a, run, E[i]) /\ E[i].time \in 1..Len(h)
  BY <1>1, HasAppend DEF Full, Has
<1>. HIDE DEF a
<1>3. ASSUME NEW i \in DOMAIN E, NEW u \in 1..(E[i].time - 1), a[u].run = run PROVE u \in Times(E) \/ a[u].lost
  <2>1. u \in 1..Len(h)
    BY <1>1, <1>2, <1>3
  <2>. QED BY <1>1, <1>3, <2>1 DEF Full
<1>. QED BY <1>2, <1>3 DEF Full, a

\* An episode more that was counted, in the history and in the statistics.
LEMMA StepFull ==
  ASSUME NEW h, IsSeq(h), NEW e, NEW run, NEW E, Full(h, E, run), e.run = run, NEW n \in Nat,
         e.len = n \/ LostBefore(h, run, Len(h) + 1),
         Times(E) = {t \in DOMAIN h : h[t].run = run /\ ~h[t].lost}
  PROVE  Full(Append(h, e), Append(E, [time |-> Len(h) + 1, len |-> n]), run)
<1>. DEFINE a == Append(h, e)
            x == [time |-> Len(h) + 1, len |-> n]
            D == Append(E, x)
<1>1. /\ Len(h) \in Nat /\ DOMAIN h = 1..Len(h) /\ DOMAIN a = 1..(Len(h) + 1)
      /\ \A i \in 1..Len(h) : a[i] = h[i]
      /\ a[Len(h) + 1] = e
  BY AppendFacts
<1>2. x \in Episode /\ x.time = Len(h) + 1 /\ x.len = n
  BY <1>1 DEF Episode
<1>3. E \in Seq(Episode) /\ IsSeq(E)
  BY AnySeq DEF Full
<1>4. /\ D \in Seq(Episode) /\ Len(E) \in Nat /\ DOMAIN E = 1..Len(E) /\ DOMAIN D = 1..(Len(E) + 1)
      /\ \A i \in 1..Len(E) : D[i] = E[i]
      /\ D[Len(E) + 1] = x
  <2>. HIDE DEF x
  <2>. QED BY <1>2, <1>3, AppendFacts, PrefixAppend
<1>5. Times(D) = Times(E) \cup {Len(h) + 1}
  <2>. HIDE DEF x
  <2>. QED BY <1>2, <1>3, TimesAppend
<1>6. \A i \in DOMAIN D : i \in DOMAIN E \/ i = Len(E) + 1
  BY <1>4
<1>7. ASSUME NEW i \in DOMAIN D PROVE Has(a, run, D[i])
  <2>1. CASE i \in DOMAIN E
    <3>1. Has(h, run, E[i]) /\ D[i] = E[i]
      BY <1>4, <2>1 DEF Full
    <3>. HIDE DEF D
    <3>. QED BY <3>1, HasAppend
  <2>2. CASE i = Len(E) + 1
    <3>1. LostBefore(h, run, Len(h) + 1) => LostBefore(a, run, Len(h) + 1)
      BY <1>1, LostAppend
    <3>2. D[i] = x
      BY <1>4, <2>2
    <3>. HIDE DEF a, D, x
    <3>. QED BY <1>1, <1>2, <3>1, <3>2 DEF Has
  <2>. QED BY <1>6, <2>1, <2>2
<1>. HIDE DEF a, x, D
<1>8. \A i, j \in DOMAIN D : i < j => D[i].time < D[j].time
  <2>. SUFFICES ASSUME NEW i \in DOMAIN D, NEW j \in DOMAIN D, i < j PROVE D[i].time < D[j].time
    OBVIOUS
  <2>1. i \in DOMAIN E
    BY <1>4
  <2>2. CASE j \in DOMAIN E
    BY <1>4, <2>1, <2>2 DEF Full
  <2>3. CASE j = Len(E) + 1
    <3>1. E[i].time \in 1..Len(h)
      BY <1>1, <2>1 DEF Full, Has
    <3>. QED BY <1>1, <1>2, <1>4, <2>1, <2>3, <3>1
  <2>. QED BY <1>6, <2>2, <2>3
<1>9. ASSUME NEW i \in DOMAIN D, NEW u \in 1..(D[i].time - 1), a[u].run = run PROVE u \in Times(D) \/ a[u].lost
  <2>1. D[i].time \in 1..(Len(h) + 1)
    BY <1>1, <1>7 DEF Has
  <2>2. u \in 1..Len(h)
    BY <1>1, <2>1
  <2>. QED BY <1>1, <1>5, <1>9, <2>2
<1>. QED BY <1>4, <1>7, <1>8, <1>9 DEF Full, a, D, x

\* What step() does to the history and to the statistics.
LEMMA AfterStepLists ==
  ASSUME NEW st \in Stats, NEW done \in BOOLEAN, NEW auto
  PROVE  /\ AfterStep(st, done, auto).episodes =
              IF done THEN Append(st.episodes, [time |-> Len(history) + 1, len |-> st.steps + 1]) ELSE st.episodes
         /\ AfterStep(st, done, auto).steps = IF done /\ auto THEN 0 ELSE st.steps + 1
<1>. DEFINE s == [st EXCEPT !.steps = @ + 1]
            e == [time |-> Len(history) + 1, len |-> s.steps]
            saved == [s EXCEPT !.done = "yes", !.episodes = Append(@, e)]
<1>1. s.episodes = st.episodes /\ s.steps = st.steps + 1 /\ s.types = st.types
  BY DEF Stats
<1>2. e = [time |-> Len(history) + 1, len |-> st.steps + 1]
  BY <1>1
<1>3. saved.episodes = Append(st.episodes, e) /\ saved.steps = st.steps + 1
  <2>. HIDE DEF e
  <2>. QED BY DEF Stats
<1>4. AfterReset(saved).episodes = saved.episodes /\ AfterReset(saved).steps = 0
  <2>. HIDE DEF e
  <2>. QED BY DEF AfterReset, Stats
<1>5. AfterStep(st, done, auto) = IF ~done THEN s ELSE IF auto THEN AfterReset(saved) ELSE saved
  BY DEF AfterStep
<1>. HIDE DEF s, saved, e
<1>. QED BY <1>1, <1>2, <1>3, <1>4, <1>5

LEMMA StepLists ==
  ASSUME IsMonitor(mon), NEW done \in BOOLEAN, Step(done)
  PROVE  /\ mon'.opt = mon.opt
         /\ \/ /\ history' = history /\ mon'.stats.episodes = mon.stats.episodes
               /\ mon'.taken = mon.taken + 1 /\ mon'.stats.steps = mon.stats.steps + 1
            \/ /\ mon.opt.autoreset /\ history' = Append(history, Ended(mon.taken, TRUE))
               /\ mon'.stats.episodes = mon.stats.episodes
            \/ /\ history' = Append(history, Ended(mon.taken, FALSE))
               /\ mon'.stats.episodes =
                    Append(mon.stats.episodes, [time |-> Len(history) + 1, len |-> mon.stats.steps + 1])
               /\ IF mon.opt.autoreset THEN mon'.taken = 0 /\ mon'.stats.steps = 0
                  ELSE mon'.taken = mon.taken + 1 /\ mon'.stats.steps = mon.stats.steps + 1
<1>. DEFINE auto == done /\ mon.opt.autoreset
            m == Took(auto)
            R(first) == IF auto THEN ResetVideo(m, first) ELSE m
            B(first) == IF auto THEN [R(first) EXCEPT !.episode_id = @ + 1, !.resets = @ + 1] ELSE m
            h(lost) == Ended(mon.taken, lost)
            st == AfterStep(mon.stats, done, mon.opt.autoreset)
<1>1. mon.stats \in Stats /\ mon.stats.steps \in Nat
  BY DEF IsMonitor, Stats
<1>2. \/ /\ mon' = m \/ \E first : mon' = R(first)
         /\ auto /\ history' = IF done THEN Append(history, h(TRUE)) ELSE history
      \/ \E first : \E frame : /\ mon' = [B(first) EXCEPT !.stats = AfterStep(@, done, mon.opt.autoreset),
                                                           !.video = Captured(B(first), @, frame)]
                               /\ history' = IF done THEN Append(history, h(FALSE)) ELSE history
  BY DEF Step, Took, Ended
<1>3. IsMonitor(m) /\ m.stats = mon.stats /\ m.opt = mon.opt /\ m.taken = IF auto THEN 0 ELSE mon.taken + 1
  BY TookFacts
<1>4. ASSUME NEW first
      PROVE  /\ R(first).stats = mon.stats /\ R(first).opt = mon.opt
             /\ IsMonitor(B(first)) /\ B(first).stats = mon.stats /\ B(first).opt = mon.opt
             /\ B(first).taken = IF auto THEN 0 ELSE mon.taken + 1
  <2>. HIDE DEF m
  <2>1. /\ IsMonitor(ResetVideo(m, first)) /\ ResetVideo(m, first).stats = m.stats
        /\ ResetVideo(m, first).taken = m.taken
    BY <1>3, ResetVideoMonitor
  <2>2. ResetVideo(m, first).opt = m.opt
    BY <1>3 DEF ResetVideo, IsMonitor
  <2>. QED BY <1>3, <2>1, <2>2 DEF IsMonitor
<1>. HIDE DEF m, R, B
<1>5. CASE /\ mon' = m \/ \E first : mon' = R(first)
           /\ auto /\ history' = IF done THEN Append(history, h(TRUE)) ELSE history
  <2>1. mon'.stats = mon.stats /\ mon'.opt = mon.opt
    BY <1>3, <1>4, <1>5
  <2>. QED BY <1>5, <2>1
<1>6. ASSUME NEW first, NEW frame,
             mon' = [B(first) EXCEPT !.stats = AfterStep(@, done, mon.opt.autoreset),
                                     !.video = Captured(B(first), @, frame)],
             history' = IF done THEN Append(history, h(FALSE)) ELSE history
      PROVE  /\ mon'.stats = st /\ mon'.opt = mon.opt
             /\ mon'.taken = IF auto THEN 0 ELSE mon.taken + 1
  <2>1. /\ mon'.stats = AfterStep(B(first).stats, done, mon.opt.autoreset)
        /\ mon'.opt = B(first).opt /\ mon'.taken = B(first).taken
    BY <1>4, <1>6 DEF IsMonitor
  <2>. QED BY <1>4, <2>1
<1>7. /\ st.episodes = IF done THEN Append(mon.stats.episodes, [time |-> Len(history) + 1, len |-> mon.stats.steps + 1])
                       ELSE mon.stats.episodes
      /\ st.steps = IF auto THEN 0 ELSE mon.stats.steps + 1
  BY <1>1, AfterStepLists
<1>. HIDE DEF st, h
<1>8. ASSUME NEW first, NEW frame,
             mon' = [B(first) EXCEPT !.stats = AfterStep(@, done, mon.opt.autoreset),
                                     !.video = Captured(B(first), @, frame)],
             history' = IF done THEN Append(history, h(FALSE)) ELSE history
      PROVE  /\ mon'.opt = mon.opt
             /\ \/ /\ history' = history /\ mon'.stats.episodes = mon.stats.episodes
                   /\ mon'.taken = mon.taken + 1 /\ mon'.stats.steps = mon.stats.steps + 1
                \/ /\ history' = Append(history, h(FALSE))
                   /\ mon'.stats.episodes =
                        Append(mon.stats.episodes, [time |-> Len(history) + 1, len |-> mon.stats.steps + 1])
                   /\ IF mon.opt.autoreset THEN mon'.taken = 0 /\ mon'.stats.steps = 0
                      ELSE mon'.taken = mon.taken + 1 /\ mon'.stats.steps = mon.stats.steps + 1
  BY <1>6, <1>7, <1>8
<1>. QED BY <1>2, <1>5, <1>8 DEF h

LEMMA ResetCounts ==
  ASSUME IsMonitor(mon), Reset
  PROVE  mon'.opt = mon.opt /\ mon'.taken = 0 /\ mon'.stats.steps = 0
<1>. DEFINE m == [mon EXCEPT !.stats = AfterReset(@), !.taken = 0, !.resets = @ + 1]
<1>1. mon.stats \in Stats
  BY DEF IsMonitor
<1>2. AfterReset(mon.stats) \in Stats /\ AfterReset(mon.stats).steps = 0
  BY <1>1, AfterResetStats DEF AfterReset, Stats
<1>3. IsMonitor(m) /\ m.opt = mon.opt /\ m.taken = 0 /\ m.stats.steps = 0
  BY <1>2 DEF IsMonitor
<1>4. \/ mon' = m
      \/ \E frame : mon' = ResetVideo(m, frame) \/ mon' = [ResetVideo(m, frame) EXCEPT !.episode_id = @ + 1]
  BY DEF Reset
<1>. HIDE DEF m
<1>5. ASSUME NEW frame
      PROVE  /\ ResetVideo(m, frame).opt = m.opt /\ ResetVideo(m, frame).taken = m.taken
             /\ ResetVideo(m, frame).stats = m.stats /\ IsMonitor(ResetVideo(m, frame))
  BY <1>3, ResetVideoMonitor DEF ResetVideo, IsMonitor
<1>6. ASSUME NEW frame, NEW r, r = ResetVideo(m, frame), mon' = [r EXCEPT !.episode_id = @ + 1]
      PROVE  mon'.opt = r.opt /\ mon'.taken = r.taken /\ mon'.stats = r.stats
  BY <1>5, <1>6 DEF IsMonitor
<1>. QED BY <1>3, <1>4, <1>5, <1>6

LEMMA CloseCounts ==
  ASSUME IsMonitor(mon), Close
  PROVE  mon'.opt = mon.opt /\ mon'.taken = mon.taken /\ mon'.stats.steps = mon.stats.steps
<1>. DEFINE closed == [mon EXCEPT !.stats.closed = TRUE]
<1>1. mon.stats \in Stats
  BY DEF IsMonitor
<1>2. /\ IsMonitor(closed) /\ closed.opt = mon.opt /\ closed.taken = mon.taken
      /\ closed.stats.steps = mon.stats.steps
  BY <1>1 DEF IsMonitor, Stats
<1>3. mon' = closed \/ mon' = [[closed EXCEPT !.videos = Listed(mon)] EXCEPT !.enabled = FALSE]
  BY DEF Close
<1>. HIDE DEF closed
<1>. QED BY <1>2, <1>3 DEF IsMonitor

\* The steps of the environment are those of its statistics, unless step() lost the
\* last episode.
Counted == mon.taken = mon.stats.steps \/ (mon.opt.autoreset /\ LostBefore(history, mon.run, Len(history) + 1))

\* A file of statistics holds first episodes of one of the monitors that had its
\* name, and a monitor in memory those of its own.
OneOf(n) == \E r \in DOMAIN made : made[r].id = n[2] /\ Full(history, files[n].episodes, r)
Faithful ==
  /\ IsFiniteSet(DOMAIN files)
  /\ \A n \in DOMAIN files : n[1] = "stats" => OneOf(n)
  /\ \A n \in DOMAIN files : n[1] = "manifest" => n = <<"manifest", n[2]>> /\ files[n].stats = <<"stats", n[2]>>
  /\ mon # NoMonitor => Full(history, mon.stats.episodes, mon.run) /\ Counted

LEMMA FaithfulInit == Init => Faithful
<1>. SUFFICES ASSUME Init PROVE Faithful
  OBVIOUS
<1>1. DOMAIN files = {} /\ mon = NoMonitor
  BY DEF Init
<1>. QED BY <1>1, FS_EmptySet DEF Faithful

LEMMA FaithfulSame ==
  ASSUME Faithful, UNCHANGED <<files, history, made>>,
         \/ mon' = NoMonitor
         \/ /\ mon # NoMonitor /\ mon'.stats.episodes = mon.stats.episodes
            /\ mon'.run = mon.run /\ mon'.opt = mon.opt
            /\ \/ mon'.taken = mon.taken /\ mon'.stats.steps = mon.stats.steps
               \/ mon'.taken = mon'.stats.steps
  PROVE  Faithful'
<1>1. mon' # NoMonitor => Counted'
  BY DEF Faithful, Counted
<1>2. mon' # NoMonitor => Full(history, mon.stats.episodes, mon.run)'
  BY DEF Faithful
<1>3. \A n : OneOf(n) => OneOf(n)'
  BY DEF OneOf
<1>. QED BY <1>1, <1>2, <1>3 DEF Faithful

LEMMA DomainIO ==
  ASSUME DoIO, IsFiniteSet(DOMAIN files), Head(io).op \in {"write", "touch", "unlink", "replace"}
  PROVE  IsFiniteSet(DOMAIN files')
<1>1. \E T : IsFiniteSet(T) /\ DOMAIN files' \subseteq DOMAIN files \cup T
  <2>. DEFINE w == Head(io)
  <2>1. CASE w.op = "write"
    <3>1. DOMAIN files' = DOMAIN files \cup {w.name}
      BY <2>1 DEF DoIO, Put
    <3>. QED BY <3>1, FS_Singleton
  <2>2. CASE w.op = "touch"
    <3>1. DOMAIN files' \subseteq DOMAIN files \cup {w.name}
      BY <2>2 DEF DoIO, Put
    <3>. QED BY <3>1, FS_Singleton
  <2>3. CASE w.op = "unlink"
    <3>1. DOMAIN files' \subseteq DOMAIN files \cup {}
      BY <2>3 DEF DoIO, Without
    <3>. QED BY <3>1, FS_EmptySet
  <2>4. CASE w.op = "replace"
    <3>1. DOMAIN files' \subseteq DOMAIN files \cup {w.to}
      BY <2>4 DEF DoIO
    <3>. QED BY <3>1, FS_Singleton
  <2>. QED BY <2>1, <2>2, <2>3, <2>4
<1>. QED BY <1>1, FS_Union, FS_Subset

\* A monitor that has statistics is one that was made.
LEMMA NoMonitorStats == ~IsMonitor(NoMonitor)
<1>1. SUFFICES ASSUME IsMonitor(NoMonitor) PROVE FALSE
  OBVIOUS
<1>2. DOMAIN NoMonitor = {"enabled", "id"} /\ "stats" \in DOMAIN NoMonitor
  BY <1>1 DEF NoMonitor, IsMonitor
<1>. QED BY <1>2

LEMMA FaithfulIO ==
  ASSUME IInv, Faithful, DoIO
  PROVE  Faithful'
<1>1. UNCHANGED <<mon, history, made>> /\ io # <<>>
  BY DEF DoIO
<1>4. mon # NoMonitor => (Full(history, mon.stats.episodes, mon.run) /\ Counted)'
  BY <1>1 DEF Faithful, Counted
<1>2. CASE Clears
  <2>1. DOMAIN files' \subseteq DOMAIN files /\ \A k \in DOMAIN files' : files'[k] = files[k]
    BY <1>2, ClearCases
  <2>2. \A n \in DOMAIN files' : OneOf(n) => OneOf(n)'
    BY <1>1, <2>1 DEF OneOf
  <2>. QED BY <1>1, <1>4, <2>1, <2>2, FS_Subset DEF Faithful
<1>3. CASE ~Clears
  <2>1. IsMonitor(mon) /\ Saves
    BY <1>1, <1>3 DEF IInv, Queue
  <2>2. mon # NoMonitor
    BY <2>1, NoMonitorStats
  <2>3. PICK E \in Seq(Episode) : Pending(io, files, mon.id, E) /\ Seqs!IsPrefix(E, mon.stats.episodes)
    BY <2>1 DEF Saves
  <2>4. Full(history, E, mon.run) /\ mon.run \in DOMAIN made /\ made[mon.run].id = mon.id
    BY <2>2, <2>3, PrefixFull DEF Faithful, IInv, Running
  <2>5. /\ 1 \in 1..Len(io)
        /\ io[1].op = "replace" => io[1].to \in DOMAIN files' /\ files'[io[1].to] = files[io[1].name]
        /\ \A n \in DOMAIN files' : n[1] \in {"stats", "manifest"} =>
             \/ n \in DOMAIN files /\ files'[n] = files[n]
             \/ io[1].op = "replace" /\ n = io[1].to
    BY <2>3, WriteDone
  <2>6. IsFiniteSet(DOMAIN files')
    <3>1. Head(io) = io[1]
      BY <2>3, WriteDone
    <3>2. Head(io).op \in {"write", "touch", "unlink", "replace"}
      BY <2>3, <2>5, <3>1 DEF Pending, Visual, Temporary, PutsStats, PutsManifest
    <3>. QED BY <3>2, DomainIO DEF Faithful
  <2>7. io[1].op = "replace" => PutsStats(io, files, mon.id, E, 1) \/ PutsManifest(io, files, mon.id, 1)
    BY <2>3, <2>5 DEF Pending, Visual, Temporary
  <2>8. ASSUME NEW n \in DOMAIN files', n[1] = "stats" PROVE OneOf(n)'
    <3>1. CASE n \in DOMAIN files /\ files'[n] = files[n]
      BY <1>1, <2>8, <3>1 DEF Faithful, OneOf
    <3>2. CASE io[1].op = "replace" /\ n = io[1].to
      <4>1. PutsStats(io, files, mon.id, E, 1)
        BY <2>7, <2>8, <3>2 DEF PutsManifest
      <4>2. n = <<"stats", mon.id>> /\ files'[n].episodes = E
        BY <2>5, <3>2, <4>1 DEF PutsStats, Source
      <4>. QED BY <1>1, <2>4, <4>2 DEF OneOf
    <3>. QED BY <2>5, <2>8, <3>1, <3>2
  <2>9. ASSUME NEW n \in DOMAIN files', n[1] = "manifest"
        PROVE  n = <<"manifest", n[2]>> /\ files'[n].stats = <<"stats", n[2]>>
    <3>1. CASE n \in DOMAIN files /\ files'[n] = files[n]
      BY <2>9, <3>1 DEF Faithful
    <3>2. CASE io[1].op = "replace" /\ n = io[1].to
      <4>1. PutsManifest(io, files, mon.id, 1)
        BY <2>7, <2>9, <3>2 DEF PutsStats
      <4>2. n = <<"manifest", mon.id>> /\ files'[n].stats = <<"stats", mon.id>>
        BY <2>5, <3>2, <4>1 DEF PutsManifest, Source
      <4>. QED BY <4>2
    <3>. QED BY <2>5, <2>9, <3>1, <3>2
  <2>. QED BY <1>1, <1>4, <2>8, <2>9, <2>6 DEF Faithful
<1>. QED BY <1>2, <1>3

LEMMA FaithfulStep ==
  ASSUME IInv, Recorded, Faithful, mon # NoMonitor, IsMonitor(mon), NEW done \in BOOLEAN, Step(done), Called
  PROVE  Faithful'
<1>1. files' = files /\ made' = made /\ mon'.run = mon.run /\ mon'.opt = mon.opt /\ IsSeq(history)
  BY StepLists DEF Step, Called, IInv, Running
<1>2. Full(history, mon.stats.episodes, mon.run) /\ Counted
  BY DEF Faithful
<1>3. /\ Times(mon.stats.episodes) = {t \in DOMAIN history : history[t].run = mon.run /\ ~history[t].lost}
      /\ mon.taken \in Nat /\ mon.stats.steps \in Nat
  BY DEF Recorded, Mine, IsMonitor, Stats
<1>4. \A n \in DOMAIN files' : n[1] = "manifest" => n = <<"manifest", n[2]>> /\ files'[n].stats = <<"stats", n[2]>>
  BY <1>1 DEF Faithful
<1>5. CASE /\ history' = history /\ mon'.stats.episodes = mon.stats.episodes
           /\ mon'.taken = mon.taken + 1 /\ mon'.stats.steps = mon.stats.steps + 1
  <2>1. Full(history, mon.stats.episodes, mon.run)' /\ Counted'
    BY <1>1, <1>2, <1>5 DEF Counted
  <2>2. \A n : OneOf(n) => OneOf(n)'
    BY <1>1, <1>5 DEF OneOf
  <2>. QED BY <1>1, <1>4, <2>1, <2>2 DEF Faithful
<1>6. ASSUME NEW e, history' = Append(history, e) PROVE \A n : OneOf(n) => OneOf(n)'
  BY <1>1, <1>6, HistoryFull DEF OneOf
<1>7. CASE /\ mon.opt.autoreset /\ history' = Append(history, Ended(mon.taken, TRUE))
           /\ mon'.stats.episodes = mon.stats.episodes
  <2>1. Full(history, mon.stats.episodes, mon.run)'
    BY <1>1, <1>2, <1>7, HistoryFull
  <2>2. Counted'
    <3>. DEFINE e == Ended(mon.taken, TRUE)
    <3>1. e.run = mon.run /\ e.lost
      BY DEF Ended
    <3>. HIDE DEF e
    <3>2. Len(history) \in Nat /\ Len(history') = Len(history) + 1 /\ history'[Len(history) + 1] = e
      <4>1. /\ IsSeq(history') /\ Len(history) \in Nat /\ DOMAIN history' = 1..(Len(history) + 1)
            /\ history'[Len(history) + 1] = e
        BY <1>1, <1>7, AppendFacts DEF e
      <4>2. Len(history') \in Nat /\ DOMAIN history' = 1..Len(history')
        BY <4>1, SeqFacts
      <4>. QED BY <4>1, <4>2
    <3>3. LostBefore(history, mon.run, Len(history) + 1)'
      BY <1>1, <3>1, <3>2 DEF LostBefore
    <3>. QED BY <1>1, <1>7, <3>3 DEF Counted
  <2>. QED BY <1>1, <1>4, <1>6, <1>7, <2>1, <2>2 DEF Faithful
<1>8. CASE /\ history' = Append(history, Ended(mon.taken, FALSE))
           /\ mon'.stats.episodes =
                Append(mon.stats.episodes, [time |-> Len(history) + 1, len |-> mon.stats.steps + 1])
           /\ IF mon.opt.autoreset THEN mon'.taken = 0 /\ mon'.stats.steps = 0
              ELSE mon'.taken = mon.taken + 1 /\ mon'.stats.steps = mon.stats.steps + 1
  <2>. DEFINE e == Ended(mon.taken, FALSE)
              n == mon.stats.steps + 1
  <2>1. e.run = mon.run /\ e.len = mon.taken + 1
    BY DEF Ended
  <2>2. e.len = n \/ LostBefore(history, mon.run, Len(history) + 1)
    BY <1>2, <2>1 DEF Counted
  <2>3. n \in Nat
    BY <1>3
  <2>. HIDE DEF e, n
  <2>4. Full(Append(history, e), Append(mon.stats.episodes, [time |-> Len(history) + 1, len |-> n]), mon.run)
    BY <1>1, <1>2, <1>3, <2>1, <2>2, <2>3, StepFull
  <2>5. Full(history, mon.stats.episodes, mon.run)'
    BY <1>1, <1>8, <2>4 DEF e, n
  <2>6. Counted'
    BY <1>1, <1>2, <1>8 DEF Counted
  <2>. QED BY <1>1, <1>4, <1>6, <1>8, <2>5, <2>6 DEF Faithful
<1>. QED BY <1>5, <1>7, <1>8, StepLists

LEMMA FaithfulStart ==
  ASSUME IInv, Faithful, Start
  PROVE  Faithful'
<1>1. UNCHANGED <<files, history>> /\ mon'.stats = NewStats /\ mon'.taken = 0
  BY DEF Start
<1>2. DOMAIN made \subseteq DOMAIN made' /\ \A i \in DOMAIN made : made'[i] = made[i]
  BY StartMade DEF IInv
<1>3. mon'.stats.episodes = <<>> /\ mon'.stats.steps = 0
  BY <1>1 DEF NewStats
<1>4. Full(history, mon.stats.episodes, mon.run)' /\ Counted'
  BY <1>1, <1>3, EmptyFull DEF Counted
<1>5. \A n : OneOf(n) => OneOf(n)'
  BY <1>1, <1>2 DEF OneOf
<1>. QED BY <1>1, <1>4, <1>5 DEF Faithful

LEMMA NextFaithful == ASSUME IInv, Recorded, Faithful, [Next]_vars PROVE Faithful'
<1>1. mon.enabled => mon # NoMonitor /\ IsMonitor(mon) /\ HalfClosed(mon) /\ Recording(mon)
  BY NoMonitorDisabled DEF IInv, Running, Recorded
<1>2. ASSUME io = <<>>, mon.enabled PROVE Shown(files, mon)
  <2>1. ~Clears
    BY <1>2 DEF Clears
  <2>. QED BY <1>1, <1>2, <2>1, LeadsNowhere DEF Recorded
<1>3. IsSeq(history) /\ Len(history) \in Nat
  BY SeqFacts DEF IInv, Running
<1>4. CASE DoIO
  BY <1>4, FaithfulIO
<1>5. CASE Start
  BY <1>5, FaithfulStart
<1>6. CASE SetMode
  <2>1. UNCHANGED <<files, history, made>> /\ mon.enabled /\ mon' = [mon EXCEPT !.stats.type = "e"]
    BY <1>6 DEF SetMode
  <2>2. /\ mon'.run = mon.run /\ mon'.stats.episodes = mon.stats.episodes /\ mon'.opt = mon.opt
        /\ mon'.taken = mon.taken /\ mon'.stats.steps = mon.stats.steps
    BY <1>1, <2>1 DEF IsMonitor, Stats
  <2>. QED BY <1>1, <2>1, <2>2, FaithfulSame
<1>7. CASE Reset
  <2>1. io = <<>> /\ UNCHANGED <<files, history, made>> /\ mon.enabled
    BY <1>7 DEF Reset, Ready
  <2>2. mon'.stats.episodes = mon.stats.episodes /\ mon'.run = mon.run
    BY <1>1, <1>2, <1>7, <2>1, ResetCalls, ResetRecords DEF Called
  <2>3. mon'.opt = mon.opt /\ mon'.taken = mon'.stats.steps
    BY <1>1, <1>7, <2>1, ResetCounts
  <2>. QED BY <1>1, <2>1, <2>2, <2>3, FaithfulSame
<1>8. CASE Close
  <2>1. io = <<>> /\ UNCHANGED <<files, history, made>> /\ mon.enabled
    BY <1>8 DEF Close, Ready
  <2>2. mon'.stats.episodes = mon.stats.episodes /\ mon'.run = mon.run
    BY <1>1, <1>2, <1>8, <2>1, CloseCalls, CloseRecords DEF Called
  <2>3. mon'.opt = mon.opt /\ mon'.taken = mon.taken /\ mon'.stats.steps = mon.stats.steps
    BY <1>1, <1>8, <2>1, CloseCounts
  <2>. QED BY <1>1, <2>1, <2>2, <2>3, FaithfulSame
<1>9. ASSUME NEW done \in BOOLEAN, Step(done) PROVE Faithful'
  <2>1. mon.enabled
    BY <1>9 DEF Step
  <2>. QED BY <1>1, <1>3, <1>9, <2>1, StepCalls, FaithfulStep
<1>10. CASE Exit \/ Kill
  BY <1>10, FaithfulSame DEF Exit, Kill
<1>11. CASE Launch \/ UNCHANGED vars
  <2>1. UNCHANGED <<files, mon, made, history>>
    BY <1>11 DEF Launch, vars
  <2>2. Counted => Counted'
    BY <2>1 DEF Counted
  <2>3. \A n : OneOf(n) => OneOf(n)'
    BY <2>1 DEF OneOf
  <2>. QED BY <2>1, <2>2, <2>3 DEF Faithful
<1>. QED BY <1>4, <1>5, <1>6, <1>7, <1>8, <1>9, <1>10, <1>11 DEF Next

LEMMA FaithfulHolds == Spec => [](IInv /\ Recorded /\ Faithful)
<1>1. Init => IInv /\ Recorded /\ Faithful
  BY InitIInv, RecordedInit, FaithfulInit
<1>2. IInv /\ Recorded /\ Faithful /\ [Next]_vars => IInv' /\ Recorded' /\ Faithful'
  BY NextIInv, NextRecorded, NextFaithful
<1>. QED BY <1>1, <1>2, PTL DEF Spec

-----------------------------------------------------------------------------
(* load_results(): the statistics put one after another.                   *)

LEMMA FromZero ==
  ASSUME NEW N \in SUBSET Nat, 0 \in N, \A n \in N : n + 1 \in N
  PROVE  N = Nat
<1>. SUFFICES ASSUME Nat \ N # {} PROVE FALSE
  OBVIOUS
<1>1. IsWellFoundedOn(OpToRel(<, Nat), Nat)
  BY NatLessThanWellFounded
<1>2. PICK n \in Nat \ N : \A m \in Nat \ N : ~(<<m, n>> \in OpToRel(<, Nat))
  BY <1>1, WFMin
<1>3. n # 0 /\ n - 1 \in Nat /\ n - 1 < n
  OBVIOUS
<1>4. <<n - 1, n>> \in OpToRel(<, Nat)
  BY <1>3 DEF OpToRel
<1>5. n - 1 \in N
  BY <1>2, <1>3, <1>4
<1>6. n \in Nat /\ n \notin N /\ (n - 1) + 1 = n
  OBVIOUS
<1>. QED BY <1>5, <1>6

\* FlattenSeq() of the library, as far as the n-th part.
Joins(s, n, f) == f = [i \in 1..n |-> IF i = 1 THEN s[i] ELSE f[i - 1] \o s[i]]
Joined(s) == CHOOSE f : Joins(s, Len(s), f)

LEMMA FlattenIs ==
  ASSUME NEW s
  PROVE  Seqs!FlattenSeq(s) = IF Len(s) = 0 THEN s ELSE Joined(s)[Len(s)]
BY DEF Seqs!FlattenSeq, Joined, Joins

LEMMA JoinsExist == ASSUME NEW s, NEW n \in Nat PROVE \E f : Joins(s, n, f)
<1>. DEFINE N == {m \in Nat : \E f : Joins(s, m, f)}
<1>1. 0 \in N
  <2>. DEFINE f == [i \in 1..0 |-> 0]
  <2>1. Joins(s, 0, f)
    <3>1. 1..0 = {}
      OBVIOUS
    <3>. QED BY <3>1 DEF Joins
  <2>. QED BY <2>1
<1>2. ASSUME NEW m \in N PROVE m + 1 \in N
  <2>1. PICK f : Joins(s, m, f)
    OBVIOUS
  <2>2. m \in Nat /\ m + 1 \in Nat
    OBVIOUS
  <2>3. f = [i \in 1..m |-> IF i = 1 THEN s[i] ELSE f[i - 1] \o s[i]]
    BY <2>1 DEF Joins
  <2>. DEFINE g == [i \in 1..(m + 1) |-> IF i = 1 THEN s[i] ELSE f[i - 1] \o s[i]]
  <2>4. \A i \in 1..m : g[i] = f[i]
    <3>. SUFFICES ASSUME NEW i \in 1..m PROVE g[i] = f[i]
      OBVIOUS
    <3>1. f[i] = IF i = 1 THEN s[i] ELSE f[i - 1] \o s[i]
      BY <2>3
    <3>2. i \in 1..(m + 1)
      BY <2>2
    <3>. QED BY <3>1, <3>2
  <2>5. \A i \in 1..(m + 1) : i = 1 \/ i - 1 \in 1..m
    BY <2>2
  <2>6. g = [i \in 1..(m + 1) |-> IF i = 1 THEN s[i] ELSE g[i - 1] \o s[i]]
    <3>1. \A i \in 1..(m + 1) : g[i] = IF i = 1 THEN s[i] ELSE g[i - 1] \o s[i]
      BY <2>4, <2>5
    <3>2. g = [i \in 1..(m + 1) |-> g[i]]
      OBVIOUS
    <3>. HIDE DEF g
    <3>. QED BY <3>1, <3>2
  <2>. HIDE DEF g
  <2>7. Joins(s, m + 1, g)
    BY <2>6 DEF Joins
  <2>. QED BY <2>2, <2>7
<1>3. N = Nat
  <2>. HIDE DEF N
  <2>1. N \in SUBSET Nat
    BY DEF N
  <2>. QED BY <1>1, <1>2, <2>1, FromZero
<1>. QED BY <1>3

\* The episodes e are those of the first n parts, and no two have the same time.
Parts(e, s, n) ==
  /\ e \in Seq(Episode)
  /\ \A k \in DOMAIN e : \E i \in 1..n : \E j \in DOMAIN s[i] : e[k] = s[i][j]
  /\ \A i \in 1..n : \A j \in DOMAIN s[i] : \E k \in DOMAIN e : e[k] = s[i][j]
  /\ \A k, l \in DOMAIN e : k # l => e[k].time # e[l].time

Distinct(s) ==
  \A i, k \in DOMAIN s : \A j \in DOMAIN s[i] : \A l \in DOMAIN s[k] :
    s[i][j].time = s[k][l].time => i = k /\ j = l

LEMMA PartsJoin ==
  ASSUME NEW s \in Seq(Seq(Episode)), Distinct(s), NEW n \in Nat, n + 1 \in DOMAIN s, NEW e, Parts(e, s, n)
  PROVE  Parts(e \o s[n + 1], s, n + 1)
<1>. DEFINE t == s[n + 1]
            u == e \o t
<1>1. e \in Seq(Episode) /\ t \in Seq(Episode)
  BY DEF Parts
<1>2. /\ u \in Seq(Episode) /\ Len(u) = Len(e) + Len(t) /\ Len(e) \in Nat /\ Len(t) \in Nat
      /\ DOMAIN e = 1..Len(e) /\ DOMAIN t = 1..Len(t) /\ DOMAIN u = 1..(Len(e) + Len(t))
      /\ \A k \in 1..(Len(e) + Len(t)) : u[k] = IF k <= Len(e) THEN e[k] ELSE t[k - Len(e)]
  BY <1>1, ConcatProperties
<1>. HIDE DEF u
<1>3. \A k \in DOMAIN e : k \in DOMAIN u /\ u[k] = e[k]
  BY <1>2
<1>4. \A j \in DOMAIN t : j + Len(e) \in DOMAIN u /\ u[j + Len(e)] = t[j]
  <2>. SUFFICES ASSUME NEW j \in DOMAIN t PROVE j + Len(e) \in DOMAIN u /\ u[j + Len(e)] = t[j]
    OBVIOUS
  <2>. HIDE DEF t
  <2>1. j + Len(e) \in 1..(Len(e) + Len(t)) /\ ~(j + Len(e) <= Len(e)) /\ (j + Len(e)) - Len(e) = j
    BY <1>2
  <2>2. u[j + Len(e)] = IF j + Len(e) <= Len(e) THEN e[j + Len(e)] ELSE t[(j + Len(e)) - Len(e)]
    BY <1>2, <2>1
  <2>. QED BY <1>2, <2>1, <2>2
<1>5. \A k \in DOMAIN u : k \in DOMAIN e \/ \E j \in DOMAIN t : k = j + Len(e)
  <2>1. \A k \in DOMAIN u : k \notin DOMAIN e => k - Len(e) \in DOMAIN t /\ k = (k - Len(e)) + Len(e)
    BY <1>2
  <2>. QED BY <2>1
<1>6. n + 1 \in 1..(n + 1) /\ \A i \in 1..(n + 1) : i = n + 1 \/ i \in 1..n
  OBVIOUS
<1>7. \A i \in 1..n : i \in 1..(n + 1) /\ i \in DOMAIN s /\ i # n + 1
  <2>1. DOMAIN s = 1..Len(s) /\ Len(s) \in Nat
    OBVIOUS
  <2>. QED BY <2>1
<1>8. \A k \in DOMAIN u : \E i \in 1..(n + 1) : \E j \in DOMAIN s[i] : u[k] = s[i][j]
  <2>. SUFFICES ASSUME NEW k \in DOMAIN u PROVE \E i \in 1..(n + 1) : \E j \in DOMAIN s[i] : u[k] = s[i][j]
    OBVIOUS
  <2>1. CASE k \in DOMAIN e
    <3>1. PICK i \in 1..n : \E j \in DOMAIN s[i] : e[k] = s[i][j]
      BY <2>1 DEF Parts
    <3>. QED BY <1>3, <1>7, <2>1, <3>1
  <2>2. CASE \E j \in DOMAIN t : k = j + Len(e)
    BY <1>4, <1>6, <2>2
  <2>. QED BY <1>5, <2>1, <2>2
<1>9. \A i \in 1..(n + 1) : \A j \in DOMAIN s[i] : \E k \in DOMAIN u : u[k] = s[i][j]
  <2>. SUFFICES ASSUME NEW i \in 1..(n + 1), NEW j \in DOMAIN s[i] PROVE \E k \in DOMAIN u : u[k] = s[i][j]
    OBVIOUS
  <2>1. CASE i \in 1..n
    <3>1. PICK k \in DOMAIN e : e[k] = s[i][j]
      BY <2>1 DEF Parts
    <3>. QED BY <1>3, <3>1
  <2>2. CASE i = n + 1
    BY <1>4, <2>2
  <2>. QED BY <1>6, <2>1, <2>2
\* A part that comes after has no time of the ones before.
<1>10. \A k \in DOMAIN e : \A j \in DOMAIN t : e[k].time # t[j].time
  <2>. SUFFICES ASSUME NEW k \in DOMAIN e, NEW j \in DOMAIN t, e[k].time = t[j].time PROVE FALSE
    OBVIOUS
  <2>1. PICK i \in 1..n : \E l \in DOMAIN s[i] : e[k] = s[i][l]
    BY DEF Parts
  <2>. QED BY <1>7, <2>1 DEF Distinct
<1>11. \A j, l \in DOMAIN t : j # l => t[j].time # t[l].time
  BY DEF Distinct
<1>12. \A k, l \in DOMAIN u : k # l => u[k].time # u[l].time
  <2>. SUFFICES ASSUME NEW k \in DOMAIN u, NEW l \in DOMAIN u, k # l PROVE u[k].time # u[l].time
    OBVIOUS
  <2>1. CASE k \in DOMAIN e /\ l \in DOMAIN e
    BY <1>3, <2>1 DEF Parts
  <2>2. CASE k \in DOMAIN e /\ l \notin DOMAIN e
    <3>1. PICK j \in DOMAIN t : l = j + Len(e)
      BY <1>5, <2>2
    <3>. QED BY <1>3, <1>4, <1>10, <2>2, <3>1
  <2>3. CASE k \notin DOMAIN e /\ l \in DOMAIN e
    <3>1. PICK j \in DOMAIN t : k = j + Len(e)
      BY <1>5, <2>3
    <3>. QED BY <1>3, <1>4, <1>10, <2>3, <3>1
  <2>4. CASE k \notin DOMAIN e /\ l \notin DOMAIN e
    <3>1. PICK j \in DOMAIN t : k = j + Len(e)
      BY <1>5, <2>4
    <3>2. PICK i \in DOMAIN t : l = i + Len(e)
      BY <1>5, <2>4
    <3>. QED BY <1>4, <1>11, <3>1, <3>2
  <2>. QED BY <2>1, <2>2, <2>3, <2>4
<1>. QED BY <1>2, <1>8, <1>9, <1>12 DEF Parts, u

LEMMA FlattenParts ==
  ASSUME NEW s \in Seq(Seq(Episode)), Distinct(s)
  PROVE  Parts(Seqs!FlattenSeq(s), s, Len(s))
<1>1. Len(s) \in Nat /\ DOMAIN s = 1..Len(s)
  OBVIOUS
<1>2. CASE Len(s) = 0
  <2>1. Seqs!FlattenSeq(s) = s /\ s = <<>>
    BY <1>2, FlattenIs
  <2>. QED BY <1>2, <2>1 DEF Parts
<1>3. CASE Len(s) # 0
  <2>. DEFINE f == Joined(s)
              N == {n \in Nat : n + 1 <= Len(s) => Parts(f[n + 1], s, n + 1)}
  <2>1. Joins(s, Len(s), f)
    BY <1>1, JoinsExist DEF Joined
  <2>. HIDE DEF f
  <2>2. \A i \in 1..Len(s) : f[i] = IF i = 1 THEN s[i] ELSE f[i - 1] \o s[i]
    <3>1. f = [i \in 1..Len(s) |-> IF i = 1 THEN s[i] ELSE f[i - 1] \o s[i]]
      BY <2>1 DEF Joins
    <3>. QED BY <3>1
  <2>3. 0 \in N
    <3>1. 1 \in DOMAIN s /\ f[1] = s[1] /\ s[1] \in Seq(Episode)
      BY <1>1, <1>3, <2>2
    <3>2. Parts(s[1], s, 1)
      <4>1. \A i \in 1..1 : i = 1
        OBVIOUS
      <4>. QED BY <3>1, <4>1 DEF Parts, Distinct
    <3>. QED BY <3>1, <3>2
  <2>4. ASSUME NEW n \in N PROVE n + 1 \in N
    <3>1. n \in Nat /\ n + 1 \in Nat
      OBVIOUS
    <3>2. SUFFICES ASSUME (n + 1) + 1 <= Len(s) PROVE Parts(f[(n + 1) + 1], s, (n + 1) + 1)
      BY <3>1
    <3>3. (n + 1) + 1 \in DOMAIN s /\ n + 1 <= Len(s) /\ (n + 1) + 1 # 1 /\ ((n + 1) + 1) - 1 = n + 1
      BY <1>1, <3>1, <3>2
    <3>4. f[(n + 1) + 1] = f[n + 1] \o s[(n + 1) + 1]
      BY <1>1, <2>2, <3>3
    <3>5. Parts(f[n + 1], s, n + 1)
      BY <3>3
    <3>. QED BY <3>1, <3>3, <3>4, <3>5, PartsJoin
  <2>5. N = Nat
    <3>. HIDE DEF N
    <3>1. N \in SUBSET Nat
      BY DEF N
    <3>. QED BY <2>3, <2>4, <3>1, FromZero
  <2>6. Parts(f[Len(s)], s, Len(s))
    <3>1. Len(s) - 1 \in Nat /\ (Len(s) - 1) + 1 = Len(s)
      BY <1>1, <1>3
    <3>2. Len(s) - 1 \in N
      BY <2>5, <3>1
    <3>. QED BY <1>1, <3>1, <3>2
  <2>. QED BY <1>3, <2>6, FlattenIs DEF f
<1>. QED BY <1>2, <1>3

-----------------------------------------------------------------------------
(* argsort(): the place of an episode is the number of those before it.    *)

DistinctTimes(e) == \A k, l \in DOMAIN e : k # l => e[k].time # e[l].time
Rank(e, i) == Cardinality(EarlierThan(e, i))

LEMMA RankFacts ==
  ASSUME NEW e \in Seq(Episode), NEW i \in DOMAIN e
  PROVE  IsFiniteSet(EarlierThan(e, i)) /\ Rank(e, i) \in 0..(Len(e) - 1)
<1>. DEFINE D == DOMAIN e
<1>1. Len(e) \in Nat /\ D = 1..Len(e) /\ \A j \in D : e[j].time \in Nat
  BY EpisodeFacts
<1>2. IsFiniteSet(D) /\ Cardinality(D) = Len(e)
  <2>1. 1 \in Int /\ Len(e) \in Int /\ (IF 1 > Len(e) THEN 0 ELSE Len(e) - 1 + 1) = Len(e)
    BY <1>1
  <2>2. IsFiniteSet(1..Len(e)) /\ Cardinality(1..Len(e)) = Len(e)
    BY <2>1, FS_Interval
  <2>. QED BY <1>1, <2>2
<1>3. i \notin EarlierThan(e, i) /\ EarlierThan(e, i) \in SUBSET D
  BY <1>1 DEF EarlierThan
<1>. HIDE DEF D
<1>4. IsFiniteSet(EarlierThan(e, i)) /\ Cardinality(EarlierThan(e, i)) <= Cardinality(D)
      /\ (Cardinality(D) = Cardinality(EarlierThan(e, i)) => D = EarlierThan(e, i))
  BY <1>2, <1>3, FS_Subset
<1>5. D # EarlierThan(e, i)
  BY <1>3 DEF D
<1>6. Cardinality(EarlierThan(e, i)) \in Nat
  BY <1>4, FS_CardinalityType
<1>. QED BY <1>1, <1>2, <1>4, <1>5, <1>6 DEF Rank

LEMMA RankGrows ==
  ASSUME NEW e \in Seq(Episode), NEW i \in DOMAIN e, NEW j \in DOMAIN e, e[i].time < e[j].time
  PROVE  Rank(e, i) < Rank(e, j)
<1>1. \A k \in DOMAIN e : e[k].time \in Nat
  BY EpisodeFacts
<1>2. EarlierThan(e, i) \in SUBSET EarlierThan(e, j)
  BY <1>1 DEF EarlierThan
<1>3. i \in EarlierThan(e, j) /\ i \notin EarlierThan(e, i)
  <2>1. i \in DOMAIN e /\ ~(e[i].time < e[i].time) /\ ~(i < i)
    <3>1. i \in Nat
      BY EpisodeFacts
    <3>. QED BY <1>1, <3>1
  <2>. QED BY <2>1 DEF EarlierThan
<1>4. IsFiniteSet(EarlierThan(e, j))
  BY RankFacts
<1>5. Rank(e, i) <= Rank(e, j) /\ Rank(e, i) # Rank(e, j)
  BY <1>2, <1>3, <1>4, FS_Subset DEF Rank
<1>6. Rank(e, i) \in 0..(Len(e) - 1) /\ Rank(e, j) \in 0..(Len(e) - 1) /\ Len(e) \in Nat
  BY RankFacts, EpisodeFacts
<1>. QED BY <1>5, <1>6

\* Every place is that of one episode.
LEMMA RankOnto ==
  ASSUME NEW e \in Seq(Episode), DistinctTimes(e), NEW p \in DOMAIN e
  PROVE  \E i \in DOMAIN e : Rank(e, i) = p - 1
<1>. DEFINE D == DOMAIN e
            f == [i \in D |-> Rank(e, i) + 1]
<1>1. Len(e) \in Nat /\ D = 1..Len(e) /\ \A j \in D : e[j].time \in Nat
  BY EpisodeFacts
<1>2. \A i \in D : Rank(e, i) \in 0..(Len(e) - 1)
  BY RankFacts
<1>3. \A i, j \in D : i # j => Rank(e, i) # Rank(e, j)
  <2>. SUFFICES ASSUME NEW i \in D, NEW j \in D, i # j PROVE Rank(e, i) # Rank(e, j)
    OBVIOUS
  <2>1. e[i].time < e[j].time \/ e[j].time < e[i].time
    BY <1>1 DEF DistinctTimes
  <2>2. Rank(e, i) < Rank(e, j) \/ Rank(e, j) < Rank(e, i)
    BY <2>1, RankGrows
  <2>. QED BY <1>1, <1>2, <2>2
<1>4. IsFiniteSet(D)
  BY <1>1, FS_Interval
<1>5. f \in Injection(D, D)
  <2>1. \A i \in D : Rank(e, i) + 1 \in D
    BY <1>1, <1>2
  <2>2. f \in [D -> D]
    BY <2>1
  <2>3. \A i, j \in D : f[i] = f[j] => i = j
    <3>1. \A i, j \in D : Rank(e, i) + 1 = Rank(e, j) + 1 => Rank(e, i) = Rank(e, j)
      BY <1>1, <1>2
    <3>. QED BY <1>3, <3>1
  <2>. QED BY <2>2, <2>3 DEF Injection, IsInjective
<1>. HIDE DEF f
<1>6. f \in Surjection(D, D)
  BY <1>4, <1>5, FS_Injection
<1>7. PICK i \in D : f[i] = p
  BY <1>6 DEF Surjection
<1>8. Rank(e, i) + 1 = p /\ Rank(e, i) \in Int
  BY <1>1, <1>2, <1>7 DEF f
<1>. QED BY <1>8

\* What is in each place, when the times are those of different episodes.
LEMMA SortFacts ==
  ASSUME NEW order, NEW e, e = Episodes(order), e \in Seq(Episode), DistinctTimes(e)
  PROVE  /\ DOMAIN argsort(order) = DOMAIN e
         /\ \A p \in DOMAIN e : argsort(order)[p] \in DOMAIN e /\ Rank(e, argsort(order)[p]) = p - 1
         /\ \A i \in DOMAIN e : \E p \in DOMAIN e : argsort(order)[p] = i
         /\ \A p \in 1..(Len(e) - 1) : e[argsort(order)[p]].time < e[argsort(order)[p + 1]].time
<1>. DEFINE a == argsort(order)
<1>1. a = [p \in DOMAIN e |-> CHOOSE i \in DOMAIN e : Rank(e, i) = p - 1]
  BY DEF argsort, Rank
<1>. HIDE DEF a
<1>2. \A p \in DOMAIN e : a[p] \in DOMAIN e /\ Rank(e, a[p]) = p - 1
  BY <1>1, RankOnto
<1>3. Len(e) \in Nat /\ DOMAIN e = 1..Len(e) /\ \A j \in DOMAIN e : e[j].time \in Nat
  BY EpisodeFacts
<1>4. \A i \in DOMAIN e : Rank(e, i) \in 0..(Len(e) - 1)
  BY RankFacts
<1>5. ASSUME NEW i \in DOMAIN e, NEW j \in DOMAIN e, Rank(e, i) = Rank(e, j) PROVE i = j
  <2>. SUFFICES ASSUME i # j PROVE FALSE
    OBVIOUS
  <2>1. e[i].time < e[j].time \/ e[j].time < e[i].time
    BY <1>3 DEF DistinctTimes
  <2>2. Rank(e, i) < Rank(e, j) \/ Rank(e, j) < Rank(e, i)
    BY <2>1, RankGrows
  <2>. QED BY <1>3, <1>4, <1>5, <2>2
<1>6. ASSUME NEW i \in DOMAIN e PROVE \E p \in DOMAIN e : a[p] = i
  <2>1. Rank(e, i) + 1 \in DOMAIN e /\ (Rank(e, i) + 1) - 1 = Rank(e, i)
    BY <1>3, <1>4
  <2>2. a[Rank(e, i) + 1] \in DOMAIN e /\ Rank(e, a[Rank(e, i) + 1]) = Rank(e, i)
    BY <1>2, <2>1
  <2>. QED BY <1>5, <2>1, <2>2
<1>7. ASSUME NEW p \in 1..(Len(e) - 1) PROVE e[a[p]].time < e[a[p + 1]].time
  <2>1. p \in DOMAIN e /\ p + 1 \in DOMAIN e
    BY <1>3
  <2>2. a[p] \in DOMAIN e /\ a[p + 1] \in DOMAIN e /\ Rank(e, a[p]) = p - 1 /\ Rank(e, a[p + 1]) = (p + 1) - 1
    BY <1>2, <2>1
  <2>3. a[p] # a[p + 1]
    BY <2>2
  <2>4. ~(e[a[p + 1]].time < e[a[p]].time)
    <3>. SUFFICES ASSUME e[a[p + 1]].time < e[a[p]].time PROVE FALSE
      OBVIOUS
    <3>1. Rank(e, a[p + 1]) < Rank(e, a[p])
      BY <2>2, RankGrows
    <3>. QED BY <2>2, <3>1
  <2>. QED BY <1>3, <2>2, <2>3, <2>4 DEF DistinctTimes
<1>. QED BY <1>1, <1>2, <1>6, <1>7 DEF a

-----------------------------------------------------------------------------
(* What load_results() merges.                                             *)

\* The statistics of the manifests, in the order in which these were found.
EpisodeParts(order) == [i \in DOMAIN order |-> StatsOf(order, i).episodes]

LEMMA SameCardinality == ASSUME NEW S PROVE Seqs!Cardinality(S) = Cardinality(S)
BY DEF Seqs!Cardinality, Cardinality

LEMMA OrderFacts ==
  ASSUME Faithful, NEW order \in Orders
  PROVE  /\ \E n \in Nat : DOMAIN order = 1..n
         /\ \A i \in DOMAIN order : order[i] \in detect_training_manifests
         /\ \A i, k \in DOMAIN order : order[i] = order[k] => i = k
<1>. DEFINE S == detect_training_manifests
<1>1. IsFiniteSet(S)
  BY FS_Subset DEF Faithful, detect_training_manifests
<1>2. Cardinality(S) \in Nat
  BY <1>1, FS_CardinalityType
<1>. HIDE DEF S
<1>3. order \in {f \in [1..Cardinality(S) -> S] : \A i, j \in 1..Cardinality(S) : i # j => f[i] # f[j]}
  BY SameCardinality DEF Orders, Seqs!SetToSeqs, S
<1>. QED BY <1>2, <1>3 DEF S

\* A part of what is merged is that of one of the monitors with its name.
Writer(order, i) == CHOOSE r \in DOMAIN made : made[r].id = order[i][2] /\ Full(history, EpisodeParts(order)[i], r)

LEMMA PartFull ==
  ASSUME Faithful, Loads, ~Leftovers, NEW order \in Orders, NEW i \in DOMAIN order
  PROVE  /\ order[i] = <<"manifest", order[i][2]>> /\ made[Writer(order, i)].id = order[i][2]
         /\ Full(history, EpisodeParts(order)[i], Writer(order, i))
<1>1. order[i] \in DOMAIN files /\ order[i] \in detect_training_manifests /\ order[i][1] \in {"manifest", "manifest~"}
  BY OrderFacts DEF detect_training_manifests
<1>2. order[i][1] = "manifest"
  BY <1>1 DEF Leftovers
<1>3. order[i] = <<"manifest", order[i][2]>> /\ files[order[i]].stats = <<"stats", order[i][2]>>
  BY <1>1, <1>2 DEF Faithful
<1>4. <<"stats", order[i][2]>> \in DOMAIN files
  BY <1>1, <1>3 DEF Loads
<1>5. \E r \in DOMAIN made : made[r].id = order[i][2] /\ Full(history, files[<<"stats", order[i][2]>>].episodes, r)
  <2>. DEFINE n == <<"stats", order[i][2]>>
  <2>1. n \in DOMAIN files /\ n[1] = "stats" /\ n[2] = order[i][2]
    BY <1>4
  <2>2. OneOf(n)
    BY <2>1 DEF Faithful
  <2>. QED BY <2>1, <2>2 DEF OneOf
<1>6. EpisodeParts(order)[i] = files[<<"stats", order[i][2]>>].episodes
  BY <1>3 DEF EpisodeParts, StatsOf
<1>. QED BY <1>3, <1>5, <1>6 DEF Writer

LEMMA PartsDistinct ==
  ASSUME Faithful, Loads, ~Leftovers, NEW order \in Orders
  PROVE  EpisodeParts(order) \in Seq(Seq(Episode)) /\ Distinct(EpisodeParts(order))
<1>. DEFINE s == EpisodeParts(order)
<1>1. PICK n \in Nat : DOMAIN order = 1..n
  BY OrderFacts
<1>2. DOMAIN s = DOMAIN order
  BY DEF EpisodeParts
<1>3. \A i \in DOMAIN s : Full(history, s[i], Writer(order, i)) /\ made[Writer(order, i)].id = order[i][2]
  BY <1>2, PartFull
<1>4. s \in Seq(Seq(Episode))
  <2>1. s = [i \in 1..n |-> s[i]]
    BY <1>1 DEF EpisodeParts
  <2>2. \A i \in 1..n : s[i] \in Seq(Episode)
    BY <1>1, <1>2, <1>3 DEF Full
  <2>. HIDE DEF s
  <2>3. [i \in 1..n |-> s[i]] \in Seq(Seq(Episode))
    BY <2>2
  <2>. QED BY <2>1, <2>3
<1>. HIDE DEF s
<1>5. ASSUME NEW i \in DOMAIN s, NEW k \in DOMAIN s, NEW j \in DOMAIN s[i], NEW l \in DOMAIN s[k],
             s[i][j].time = s[k][l].time
      PROVE  i = k /\ j = l
  <2>1. order[i][2] = order[k][2]
    <3>1. history[s[i][j].time].run = Writer(order, i) /\ history[s[k][l].time].run = Writer(order, k)
      BY <1>3 DEF Full, Has
    <3>. QED BY <1>3, <1>5, <3>1
  <2>2. order[i] = order[k]
    BY <1>2, <2>1, PartFull
  <2>3. i = k
    BY <1>2, <2>2, OrderFacts
  <2>4. s[i] \in Seq(Episode) /\ \A a, b \in DOMAIN s[i] : a < b => s[i][a].time < s[i][b].time
    BY <1>3 DEF Full
  <2>5. j \in Nat /\ l \in Nat /\ s[i][j].time \in Nat
    BY <2>3, <2>4, EpisodeFacts
  <2>6. ~(j < l) /\ ~(l < j)
    BY <1>5, <2>3, <2>4, <2>5
  <2>. QED BY <2>3, <2>5, <2>6
<1>. QED BY <1>4, <1>5 DEF Distinct, s

\* What MergeExact says of what is merged, and of its times.
Sorted(merged, times) ==
  /\ \A i \in 1..(Len(merged) - 1) : merged[i].time < merged[i + 1].time
  /\ \A i \in DOMAIN merged :
       LET t == merged[i].time
       IN  merged[i].len = history[t].len \/ LostBefore(history, history[t].run, t)
  /\ \A t \in times : \A u \in 1..(t - 1) : history[u].run = history[t].run => u \in times \/ history[u].lost

LEMMA MergedExact ==
  ASSUME Faithful, Loads, ~Leftovers, NEW order \in Orders, NEW merged, merged = merge_stats_files(order),
         NEW times, times = {merged[i].time : i \in DOMAIN merged}
  PROVE  Sorted(merged, times)
<1>. DEFINE s == EpisodeParts(order)
            e == Episodes(order)
            a == argsort(order)
<1>1. e = Seqs!FlattenSeq(s)
  BY DEF Episodes, EpisodeParts
<1>2. s \in Seq(Seq(Episode)) /\ Distinct(s)
  BY PartsDistinct
<1>3. Parts(e, s, Len(s))
  BY <1>1, <1>2, FlattenParts
<1>4. DOMAIN s = DOMAIN order /\ DOMAIN s = 1..Len(s)
  BY <1>2 DEF EpisodeParts
<1>5. \A i \in DOMAIN s : Full(history, s[i], Writer(order, i))
  BY <1>4, PartFull
<1>. HIDE DEF s, e
<1>6. e \in Seq(Episode) /\ DistinctTimes(e)
  BY <1>3 DEF Parts, DistinctTimes
<1>7. /\ DOMAIN a = DOMAIN e
      /\ \A p \in DOMAIN e : a[p] \in DOMAIN e
      /\ \A i \in DOMAIN e : \E p \in DOMAIN e : a[p] = i
      /\ \A p \in 1..(Len(e) - 1) : e[a[p]].time < e[a[p + 1]].time
  BY <1>6, SortFacts DEF e
<1>. HIDE DEF a
<1>8. Len(e) \in Nat /\ DOMAIN e = 1..Len(e)
  BY <1>6, EpisodeFacts
<1>9. /\ DOMAIN merged = 1..Len(e) /\ Len(merged) = Len(e)
      /\ \A p \in 1..Len(e) : merged[p].time = e[a[p]].time /\ merged[p].len = e[a[p]].len
  <2>1. merged = [p \in DOMAIN a |-> [time |-> e[a[p]].time, len |-> e[a[p]].len, type |-> Types(order)[a[p]]]]
    BY DEF merge_stats_files, a, e
  <2>2. DOMAIN merged = 1..Len(e)
    BY <1>7, <1>8, <2>1
  <2>3. Len(merged) = Len(e)
    BY <1>8, <2>2
  <2>. QED BY <1>7, <1>8, <2>1, <2>2, <2>3
<1>10. ASSUME NEW p \in DOMAIN e
       PROVE  \E i \in DOMAIN s : \E j \in DOMAIN s[i] : e[a[p]] = s[i][j]
  <2>1. a[p] \in DOMAIN e
    BY <1>7
  <2>2. \E i \in 1..Len(s) : \E j \in DOMAIN s[i] : e[a[p]] = s[i][j]
    BY <1>3, <2>1 DEF Parts
  <2>. QED BY <1>4, <2>2
<1>11. ASSUME NEW i \in DOMAIN s, NEW j \in DOMAIN s[i] PROVE s[i][j].time \in times
  <2>1. PICK k \in DOMAIN e : e[k] = s[i][j]
    BY <1>3, <1>4 DEF Parts
  <2>2. PICK p \in DOMAIN e : a[p] = k
    BY <1>7
  <2>. QED BY <1>8, <1>9, <2>1, <2>2
<1>12. \A p \in 1..(Len(merged) - 1) : merged[p].time < merged[p + 1].time
  <2>. SUFFICES ASSUME NEW p \in 1..(Len(merged) - 1) PROVE merged[p].time < merged[p + 1].time
    OBVIOUS
  <2>1. p \in 1..(Len(e) - 1) /\ p \in 1..Len(e) /\ p + 1 \in 1..Len(e)
    BY <1>8, <1>9
  <2>. QED BY <1>7, <1>9, <2>1
<1>13. ASSUME NEW p \in DOMAIN merged
       PROVE  \/ merged[p].len = history[merged[p].time].len
              \/ LostBefore(history, history[merged[p].time].run, merged[p].time)
  <2>1. PICK i \in DOMAIN s : \E j \in DOMAIN s[i] : e[a[p]] = s[i][j]
    BY <1>8, <1>9, <1>10
  <2>2. PICK j \in DOMAIN s[i] : e[a[p]] = s[i][j]
    BY <2>1
  <2>3. merged[p].time = s[i][j].time /\ merged[p].len = s[i][j].len
    BY <1>9, <2>2
  <2>4. Has(history, Writer(order, i), s[i][j])
    BY <1>5 DEF Full
  <2>. QED BY <2>3, <2>4 DEF Has
<1>14. ASSUME NEW t \in times, NEW u \in 1..(t - 1), history[u].run = history[t].run
       PROVE  u \in times \/ history[u].lost
  <2>1. PICK p \in DOMAIN merged : t = merged[p].time
    OBVIOUS
  <2>2. PICK i \in DOMAIN s : \E j \in DOMAIN s[i] : e[a[p]] = s[i][j]
    BY <1>8, <1>9, <1>10
  <2>3. PICK j \in DOMAIN s[i] : e[a[p]] = s[i][j]
    BY <2>2
  <2>4. t = s[i][j].time
    BY <1>9, <2>1, <2>3
  <2>5. history[t].run = Writer(order, i)
    BY <1>5, <2>4 DEF Full, Has
  <2>6. u \in Times(s[i]) \/ history[u].lost
    BY <1>5, <1>14, <2>4, <2>5 DEF Full
  <2>. QED BY <1>11, <2>6 DEF Times
<1>. QED BY <1>12, <1>13, <1>14 DEF Sorted

\* What MergeExact says of an order.
Exact(order) ==
  LET merged == merge_stats_files(order)
      times == {merged[i].time : i \in DOMAIN merged}
  IN  /\ \A i \in 1..(Len(merged) - 1) : merged[i].time < merged[i + 1].time
      /\ \A i \in DOMAIN merged :
           LET t == merged[i].time
           IN  merged[i].len = history[t].len \/ LostBefore(history, history[t].run, t)
      /\ \A t \in times : \A u \in 1..(t - 1) : history[u].run = history[t].run => u \in times \/ history[u].lost

\* Once no temporary manifest is left behind and every manifest can be read, what
\* load_results() merges is each episode once, in the order in which they ended,
\* with its length and after those of its monitor that came before, but for the
\* episodes that an exception in step() lost: for every plan of monitors, whatever
\* uid and number their processes had, and every order in which the directory may
\* list the manifests.
THEOREM MergeIsExact == Spec => []MergeExact
<1>1. ASSUME Faithful PROVE MergeExact
  <2>1. ASSUME Loads, ~Leftovers, NEW order \in Orders PROVE Exact(order)
    <3>. DEFINE merged == merge_stats_files(order)
                times == {merged[i].time : i \in DOMAIN merged}
    <3>1. Sorted(merged, times)
      BY <1>1, <2>1, MergedExact
    <3>. QED BY <3>1 DEF Sorted, Exact
  <2>. QED BY <2>1 DEF MergeExact, Exact
<1>. QED BY <1>1, FaithfulHolds, PTL
==============================================================================
