------------------------- MODULE SourceUpdateProofs -------------------------
(***************************************************************************)
(* Proofs about the update of the sources, for every set of sources,       *)
(* configurations, bodies and overrides and every number of requests,      *)
(* failures and restarts.                                                  *)
(***************************************************************************)
EXTENDS SourceUpdate, TLAPS

\* The request_identity_digest of a source in a configuration.
KeyIn(c, s) == <<s, c.identity[s]>>

\* The filter of a configuration leaves something of a body.
Acc(c, s, body) == Accepts(c.excluded[s], body) # {}

\* A cache holds what was served for its key, and holds something where something was,
\* unless it was spoilt.
CacheInv(k) ==
    /\ mem[k].loaded \in BOOLEAN
    /\ mem[k].loaded => mem[k].body \in known[k] \cup {NoBody}
    /\ disk[k] \in known[k] \cup {NoBody, Unreadable}
    /\ NoBody \notin known[k] /\ Unreadable \notin known[k]
    /\ disk[k] = Unreadable => k \in torn.cache
    /\ known[k] # {} => \/ k \in torn.cache
                        \/ /\ disk[k] # NoBody
                           /\ mem[k].loaded => mem[k].body # NoBody

Kinds == {"all", "one", "diagnose", "import", "cached", "overrides"}

\* A sequence, of whatever it is.
IsSeq(q) == \E X : q \in Seq(X)

\* An update under way, and its steps.
IsJob(j) ==
    /\ j = [kind |-> j.kind, arg |-> j.arg, step |-> j.step, todo |-> j.todo,
            inputs |-> j.inputs, origin |-> j.origin, was |-> j.was]
    /\ j.kind \in Kinds
    /\ j.step \in {"gather", "sealed", "stored"}
    /\ j.step = "stored" => j.kind \in {"import", "overrides"}
    /\ j.step # "gather" => j.todo = {}
    /\ j.origin \in [Sources -> {"none", "fresh", "cached", "failed"}]
    /\ j.todo \subseteq cfg.active
    /\ IsSeq(j.inputs)

\* What was gathered of a source was served for it; a source left without a body has
\* none to give.
GatherInv(s) ==
    /\ Bodies(job.inputs, s) \subseteq known[Key(s)]
    /\ s \notin job.todo /\ Bodies(job.inputs, s) = {} =>
           known[Key(s)] = {} \/ Key(s) \in torn.cache

\* What the report says of a source agrees with its cache and with what was gathered.
ReportInv(s) ==
    /\ s \in job.todo => job.origin[s] = "none"
    /\ job.origin[s] = "fresh" =>
           /\ Acc(cfg, s, disk[Key(s)])
           /\ mem[Key(s)].loaded => Acc(cfg, s, mem[Key(s)].body)
    /\ s \notin job.todo =>
           /\ job.kind \in {"all", "one"} => job.origin[s] # "none"
           /\ job.kind = "import" /\ job.origin[s] = "none" => ~CanRead(s)
           /\ job.kind \in {"cached", "overrides"} /\ health[s] = "healthy" =>
                  Converts(s, job.inputs)

\* The candidate is built from what was gathered and from the stores.
SealedInv ==
    /\ sealed.cfg = cfg
    /\ sealed.present = {s \in Sources : Converts(s, job.inputs)}
    /\ sealed.manual = IF job.kind = "import" THEN job.arg ELSE manual
    /\ sealed.overrides =
           IF job.kind = "overrides" THEN job.arg ELSE overrides.mem

\* The published generation has the manual source, but for an import under way.
ManualInv ==
    IF job.step = "stored" /\ job.kind = "import"
    THEN manual = job.arg /\ (current.manual = job.was \/ "manual" \in torn.store)
    ELSE current.manual = manual \/ "manual" \in torn.store

\* The published generation has the overrides, but for a change under way.
OverInv ==
    IF job.step = "stored" /\ job.kind = "overrides"
    THEN /\ overrides.disk = job.arg
         /\ \/ current.overrides = overrides.mem /\ overrides.mem = job.was
            \/ "overrides" \in torn.store
    ELSE \/ current.overrides = overrides.mem /\ overrides.mem = overrides.disk
         \/ "overrides" \in torn.store

\* All sources are being updated, as after a change of the configuration.
Refreshing == job.step # "idle" /\ job.kind = "all"

\* The published generation holds a source, and so will the next one.
HeldBy(s, k) ==
    /\ s \in current.present \/ (disk[k] = Unreadable /\ ~mem[k].loaded)
    /\ mem[k].loaded => Acc(current.cfg, s, mem[k].body)
    /\ disk[k] = Unreadable \/ Acc(current.cfg, s, disk[k])

\* A source that is shown healthy is held by the published generation.
HealthInv(s) ==
    health[s] = "healthy" =>
        /\ s \in cfg.active =>
               (current # Empty /\ current.cfg = cfg) \/ Refreshing
        /\ current # Empty /\ s \in current.cfg.active =>
               \/ HeldBy(s, KeyIn(current.cfg, s))
               \/ Refreshing /\ current.cfg # cfg /\ s \in cfg.active

Shape ==
    /\ cfg \in Configs
    /\ mem = [k \in Keys |-> mem[k]]
    /\ disk = [k \in Keys |-> disk[k]]
    /\ known = [k \in Keys |-> known[k]]
    /\ torn = [cache |-> torn.cache, store |-> torn.store]
    /\ overrides = [mem |-> overrides.mem, disk |-> overrides.disk]
    /\ health = [s \in Sources |-> health[s]]
    /\ job = Nothing \/ IsJob(job)
    /\ current # Empty => current.cfg \in Configs

\* The inductive invariant.
UpdInv ==
    /\ Shape
    /\ \A k \in Keys : CacheInv(k)
    /\ job # Nothing => \A s \in cfg.active : GatherInv(s) /\ ReportInv(s)
    /\ job.step \in {"sealed", "stored"} => SealedInv
    /\ ManualInv /\ OverInv
    /\ \A s \in Sources : HealthInv(s)

-----------------------------------------------------------------------------
\* What Append makes of a sequence.
LEMMA AppendIs ==
    ASSUME NEW q, IsSeq(q), NEW x
    PROVE  /\ IsSeq(Append(q, x))
           /\ DOMAIN Append(q, x) = DOMAIN q \cup {Len(q) + 1}
           /\ \A k \in DOMAIN q : Append(q, x)[k] = q[k]
           /\ Append(q, x)[Len(q) + 1] = x
<1>1. PICK X : q \in Seq(X)
  BY DEF IsSeq
<1>2. q \in Seq(X \cup {x})
  BY <1>1
<1>3. Append(q, x) \in Seq(X \cup {x})
  BY <1>2
<1>4. IsSeq(Append(q, x))
  BY <1>3, Zenon DEF IsSeq
<1>5. DOMAIN q = 1..Len(q) /\ Len(q) \in Nat
  BY <1>2
<1> QED
  BY <1>2, <1>4, <1>5

\* The bodies of a source when one more was gathered.
LEMMA BodiesAppend ==
    ASSUME NEW q, IsSeq(q), NEW x, NEW s
    PROVE  Bodies(Append(q, x), s) =
               IF x.source = s THEN Bodies(q, s) \cup {x.body} ELSE Bodies(q, s)
<1> DEFINE p == Append(q, x)
           n == Len(q) + 1
<1>1. DOMAIN p = DOMAIN q \cup {n} /\ (\A k \in DOMAIN q : p[k] = q[k]) /\ p[n] = x
  BY AppendIs
<1>2. n \notin DOMAIN q
  <2>1. PICK X : q \in Seq(X)
    BY DEF IsSeq
  <2> QED  BY <2>1
<1> HIDE DEF p, n
<1>3. ASSUME NEW b PROVE b \in Bodies(p, s) <=> b \in Bodies(q, s) \/ (x.source = s /\ b = x.body)
  BY <1>1, <1>2, Zenon DEF Bodies
<1> QED
  BY <1>3 DEF p

\* What can be converted when one more body was gathered.
LEMMA ConvertsAppend ==
    ASSUME NEW q, IsSeq(q), NEW x, NEW s
    PROVE  Converts(s, Append(q, x)) <=>
               Converts(s, q) \/ (x.source = s /\ NodesOf(x) # {})
<1> DEFINE p == Append(q, x)
           n == Len(q) + 1
<1>1. DOMAIN p = DOMAIN q \cup {n} /\ (\A k \in DOMAIN q : p[k] = q[k]) /\ p[n] = x
  BY AppendIs
<1> HIDE DEF p, n
<1>3. Converts(s, p) <=> Converts(s, q) \/ (x.source = s /\ NodesOf(x) # {})
  BY <1>1, Zenon DEF Converts
<1> QED
  BY <1>3, Zenon DEF p
-----------------------------------------------------------------------------
\* What the gathering of the body of one source leaves alone.
Quiet(s) ==
    /\ UNCHANGED <<cfg, manual, overrides, current, sealed>>
    /\ mem' = [k \in Keys |-> mem'[k]]
    /\ disk' = [k \in Keys |-> disk'[k]]
    /\ known' = [k \in Keys |-> known'[k]]
    /\ torn' = [cache |-> torn'.cache, store |-> torn.store]
    /\ \A k \in Keys : k # Key(s) =>
          /\ mem'[k] = mem[k] /\ disk'[k] = disk[k] /\ known'[k] = known[k]
          /\ k \in torn'.cache <=> k \in torn.cache

\* What it keeps of the source's own cache.
Sound(s) ==
    \A k \in Keys : k = Key(s) =>
        /\ CacheInv(k)'
        /\ current.cfg = cfg /\ HeldBy(s, k) => HeldBy(s, k)'

\* The outcomes for a source: a body is taken; there is none and an update of all goes
\* on, or an import leaves the source out.
Takes(s, body, origin) ==
    /\ Gathered(s, body, origin) /\ UNCHANGED health
    /\ origin \in {"fresh", "cached"}
    /\ body \in known'[Key(s)]
    /\ origin = "fresh" =>
          /\ Acc(cfg, s, disk'[Key(s)])
          /\ mem'[Key(s)].loaded => Acc(cfg, s, mem'[Key(s)].body)
    /\ job.kind \in {"cached", "overrides"} /\ health[s] = "healthy" =>
          Acc(cfg, s, body)

\* Nothing was ever served for the source, or its cache was spoilt.
Absent(s) == known'[Key(s)] = {} \/ Key(s) \in torn'.cache

Drops(s) ==
    /\ job.kind = "all"
    /\ job' = [job EXCEPT !.todo = @ \ {s}, !.origin[s] = "failed"]
    /\ UNCHANGED health
    /\ Absent(s)

Skips(s) ==
    /\ job.kind = "import"
    /\ job' = [job EXCEPT !.todo = @ \ {s}]
    /\ UNCHANGED health
    /\ Absent(s)
    /\ ~CanRead(s)'

\* Two sources never share a cache (request_identity_digest).
LEMMA KeysApart ==
    ASSUME NEW c, NEW d, NEW s, NEW t, s # t
    PROVE  KeyIn(c, s) # KeyIn(d, t)
BY DEF KeyIn

\* The key of a source is one of the keys.
LEMMA KeyIs ==
    ASSUME SourcesAssumption, cfg \in Configs, NEW s \in cfg.active
    PROVE  s \in Sources /\ Key(s) \in Keys /\ Key(s) = KeyIn(cfg, s)
BY DEF SourcesAssumption, Key, KeyIn

\* The job after each of the outcomes.
LEMMA TakesJob ==
    ASSUME IsJob(job), job.step = "gather", NEW s \in Sources, NEW body,
           NEW origin, Takes(s, body, origin), cfg' = cfg
    PROVE  /\ IsJob(job)' /\ job'.kind = job.kind /\ job'.step = "gather"
           /\ job'.arg = job.arg /\ job'.todo = job.todo \ {s}
           /\ job'.inputs = Append(job.inputs, Input(s, body))
           /\ job'.origin = [job.origin EXCEPT ![s] = origin]
<1> DEFINE p == Append(job.inputs, Input(s, body))
<1>1. IsSeq(p)
  BY AppendIs DEF IsJob
<1> HIDE DEF p
<1>2. job' = [kind |-> job.kind, arg |-> job.arg, step |-> job.step,
              todo |-> job.todo \ {s}, inputs |-> p,
              origin |-> [job.origin EXCEPT ![s] = origin], was |-> job.was]
  BY Zenon DEF Takes, Gathered, IsJob, p
<1>3. [job.origin EXCEPT ![s] = origin] \in [Sources -> {"none", "fresh", "cached", "failed"}]
  BY DEF Takes, IsJob
<1> QED
  BY <1>1, <1>2, <1>3 DEF IsJob, p

LEMMA DropsJob ==
    ASSUME IsJob(job), job.step = "gather", NEW s \in Sources, Drops(s), cfg' = cfg
    PROVE  /\ IsJob(job)' /\ job'.kind = job.kind /\ job'.step = "gather"
           /\ job'.arg = job.arg /\ job'.todo = job.todo \ {s}
           /\ job'.inputs = job.inputs
           /\ job'.origin = [job.origin EXCEPT ![s] = "failed"]
<1>2. job' = [kind |-> job.kind, arg |-> job.arg, step |-> job.step,
              todo |-> job.todo \ {s}, inputs |-> job.inputs,
              origin |-> [job.origin EXCEPT ![s] = "failed"], was |-> job.was]
  BY Zenon DEF Drops, IsJob
<1>3. [job.origin EXCEPT ![s] = "failed"] \in [Sources -> {"none", "fresh", "cached", "failed"}]
  BY DEF IsJob
<1> QED
  BY <1>2, <1>3 DEF IsJob

LEMMA SkipsJob ==
    ASSUME IsJob(job), job.step = "gather", NEW s \in Sources, Skips(s), cfg' = cfg
    PROVE  /\ IsJob(job)' /\ job'.kind = job.kind /\ job'.step = "gather"
           /\ job'.arg = job.arg /\ job'.todo = job.todo \ {s}
           /\ job'.inputs = job.inputs
           /\ job'.origin = job.origin
<1>2. job' = [kind |-> job.kind, arg |-> job.arg, step |-> job.step,
              todo |-> job.todo \ {s}, inputs |-> job.inputs,
              origin |-> job.origin, was |-> job.was]
  BY DEF Skips, IsJob
<1> QED
  BY <1>2 DEF IsJob

\* The caches after it.
LEMMA QuietCaches ==
    ASSUME NEW s, Quiet(s), Sound(s), \A k \in Keys : CacheInv(k)
    PROVE  \A k \in Keys : CacheInv(k)'
<1> TAKE k \in Keys
<1>1. CASE k = Key(s)
  BY <1>1 DEF Sound
<1>2. CASE k # Key(s)
  BY <1>2 DEF Quiet, CacheInv
<1> QED
  BY <1>1, <1>2
\* The other sources after it.
LEMMA OtherSource ==
    ASSUME SourcesAssumption, cfg \in Configs, NEW s \in cfg.active,
           NEW t \in cfg.active, t # s, Quiet(s),
           GatherInv(t), ReportInv(t), UNCHANGED health,
           job'.kind = job.kind, job'.todo = job.todo \ {s},
           job'.origin[t] = job.origin[t],
           Bodies(job'.inputs, t) = Bodies(job.inputs, t),
           Converts(t, job'.inputs) <=> Converts(t, job.inputs)
    PROVE  GatherInv(t)' /\ ReportInv(t)'
<1> DEFINE k == Key(t)
<1>1. k \in Keys /\ k # Key(s) /\ k = Key(t)'
  BY KeyIs, KeysApart DEF Quiet, Key
<1>2. mem'[k] = mem[k] /\ disk'[k] = disk[k] /\ known'[k] = known[k]
      /\ (k \in torn'.cache <=> k \in torn.cache) /\ cfg' = cfg
  BY <1>1 DEF Quiet
<1>3. GatherInv(t) <=> /\ Bodies(job.inputs, t) \subseteq known[k]
                       /\ t \notin job.todo /\ Bodies(job.inputs, t) = {} =>
                            known[k] = {} \/ k \in torn.cache
  BY DEF GatherInv
<1>4. GatherInv(t)' <=> /\ Bodies(job'.inputs, t) \subseteq known'[k]
                        /\ t \notin job'.todo /\ Bodies(job'.inputs, t) = {} =>
                             known'[k] = {} \/ k \in torn'.cache
  BY <1>1 DEF GatherInv, Bodies
<1>5. CanRead(t)' <=> CanRead(t)
  BY <1>1, <1>2 DEF CanRead, Usable, Restored
<1>6. Converts(t, job.inputs)' <=> Converts(t, job'.inputs)
  BY DEF Converts, NodesOf, Accepts
<1>7. ReportInv(t)'
  BY <1>1, <1>2, <1>5, <1>6, Zenon DEF ReportInv
<1> QED
  BY <1>2, <1>3, <1>4, <1>7

\* A source's nodes stay held by the generation that has them.
LEMMA QuietHeld ==
    ASSUME SourcesAssumption, Shape, NEW s \in cfg.active, Quiet(s), Sound(s),
           NEW t, current # Empty, t \in current.cfg.active,
           HeldBy(t, KeyIn(current.cfg, t)), t = s => current.cfg = cfg
    PROVE  HeldBy(t, KeyIn(current.cfg, t))'
<1>1. PICK k \in Keys : k = KeyIn(current.cfg, t)
  BY DEF Shape, SourcesAssumption, KeyIn
<1>2. current' = current
  BY DEF Quiet
<1>3. HeldBy(t, k)'
  <2>1. CASE k = Key(s)
    <3>1. t = s
      BY <2>1, <1>1 DEF KeyIn, Key
    <3> QED  BY <3>1, <2>1, <1>1, Zenon DEF Sound
  <2>2. CASE k # Key(s)
    <3>1. mem'[k] = mem[k] /\ disk'[k] = disk[k]
      BY <2>2 DEF Quiet
    <3> QED  BY <3>1, <1>1, <1>2 DEF HeldBy
  <2> QED  BY <2>1, <2>2
<1> QED
  BY <1>1, <1>2, <1>3 DEF HeldBy, KeyIn

\* HealthInv while the update goes on.
LEMMA QuietHealth ==
    ASSUME SourcesAssumption, Shape, \A t \in Sources : HealthInv(t),
           NEW s \in cfg.active, Quiet(s), Sound(s),
           job.step = "gather", job'.step = "gather", job'.kind = job.kind,
           UNCHANGED health
    PROVE  \A t \in Sources : HealthInv(t)'
<1> SUFFICES ASSUME NEW t \in Sources, health[t] = "healthy"
             PROVE  HealthInv(t)'
  BY DEF HealthInv
<1>0. HealthInv(t) /\ cfg' = cfg /\ current' = current /\ cfg \in Configs
  BY DEF Quiet, Shape
<1>1. Refreshing' <=> Refreshing
  BY DEF Refreshing
<1>2. t \in cfg.active => (current # Empty /\ current.cfg = cfg) \/ Refreshing
  BY <1>0, Zenon DEF HealthInv
<1>3. ASSUME current # Empty, t \in current.cfg.active,
             ~(Refreshing /\ current.cfg # cfg /\ t \in cfg.active)
      PROVE  HeldBy(t, KeyIn(current.cfg, t))'
  <2>1. HeldBy(t, KeyIn(current.cfg, t))
    BY <1>0, <1>3, Zenon DEF HealthInv
  <2>2. t = s => current.cfg = cfg
    BY <1>2, <1>3
  <2> QED  BY <1>3, <2>1, <2>2, QuietHeld
<1> QED
  BY <1>0, <1>1, <1>2, <1>3, Zenon DEF HealthInv

\* HealthInv when the update fails while it gathers.
LEMMA QuietFailure ==
    ASSUME SourcesAssumption, Shape, \A t \in Sources : HealthInv(t),
           NEW s \in cfg.active, Quiet(s), Sound(s),
           job.step = "gather", Fails
    PROVE  \A t \in Sources : HealthInv(t)'
<1> SUFFICES ASSUME NEW t \in Sources, health'[t] = "healthy"
             PROVE  HealthInv(t)'
  BY DEF HealthInv
<1>0. HealthInv(t) /\ cfg' = cfg /\ current' = current /\ cfg \in Configs
  BY DEF Quiet, Shape
<1>1. health[t] = "healthy" /\ (Counts(job.kind) => t \notin cfg.active)
  <2>1. CASE Counts(job.kind)
    BY <2>1 DEF Fails, RecordFailure
  <2>2. CASE ~Counts(job.kind)
    BY <2>2, Zenon DEF Fails
  <2> QED  BY <2>1, <2>2
<1>2. t \in cfg.active => (current # Empty /\ current.cfg = cfg) /\ ~Refreshing
  BY <1>0, <1>1 DEF HealthInv, Counts, Refreshing
<1>3. ASSUME current # Empty, t \in current.cfg.active
      PROVE  HeldBy(t, KeyIn(current.cfg, t))'
  <2>1. HeldBy(t, KeyIn(current.cfg, t))
    BY <1>0, <1>1, <1>2, <1>3, Zenon DEF HealthInv
  <2>2. t = s => current.cfg = cfg
    BY <1>2, <1>3
  <2> QED  BY <1>3, <2>1, <2>2, QuietHeld
<1> QED
  BY <1>0, <1>1, <1>2, <1>3, Zenon DEF HealthInv
\* GatherInv and ReportInv of the source itself, for each outcome.
LEMMA TakesIt ==
    ASSUME SourcesAssumption, Shape, NEW s \in cfg.active, IsJob(job),
           Quiet(s), GatherInv(s), NEW body, NEW origin,
           Takes(s, body, origin),
           Bodies(job'.inputs, s) = Bodies(job.inputs, s) \cup {body},
           Converts(s, job'.inputs) <=>
               Converts(s, job.inputs) \/ Acc(cfg, s, body),
           known[Key(s)] \subseteq known'[Key(s)],
           job'.kind = job.kind, job'.todo = job.todo \ {s},
           job'.origin[s] = origin
    PROVE  GatherInv(s)' /\ ReportInv(s)'
<1>1. Key(s)' = Key(s) /\ cfg' = cfg
  BY Zenon DEF Quiet, Key
<1>2. Bodies(job.inputs, s)' = Bodies(job'.inputs, s)
      /\ (Converts(s, job.inputs)' <=> Converts(s, job'.inputs))
  BY Zenon DEF Bodies, Converts, NodesOf, Accepts
<1>3. GatherInv(s)'
  <2>1. Bodies(job.inputs, s) \subseteq known[Key(s)] /\ body \in known'[Key(s)]
    BY Zenon DEF GatherInv, Takes
  <2>2. Bodies(job'.inputs, s) \subseteq known'[Key(s)] /\ Bodies(job'.inputs, s) # {}
    BY <2>1, Zenon
  <2> QED  BY <2>2, <1>1, <1>2, Zenon DEF GatherInv
<1>4. ReportInv(s)'
  BY <1>1, <1>2, Zenon DEF ReportInv, Takes
<1> QED
  BY <1>3, <1>4

LEMMA DropsIt ==
    ASSUME NEW s \in cfg.active, Quiet(s), GatherInv(s), Drops(s),
           known[Key(s)] \subseteq known'[Key(s)], job'.inputs = job.inputs,
           job'.kind = job.kind, job'.todo = job.todo \ {s},
           job'.origin[s] = "failed"
    PROVE  GatherInv(s)' /\ ReportInv(s)'
<1>1. Key(s)' = Key(s) /\ cfg' = cfg
  BY DEF Quiet, Key
<1>2. GatherInv(s)'
  BY <1>1 DEF GatherInv, Drops, Absent, Bodies
<1>3. ReportInv(s)'
  BY Zenon DEF ReportInv, Drops
<1> QED
  BY <1>2, <1>3

LEMMA SkipsIt ==
    ASSUME NEW s \in cfg.active, Quiet(s), GatherInv(s), Skips(s), ReportInv(s),
           known[Key(s)] \subseteq known'[Key(s)], job'.inputs = job.inputs,
           job'.kind = job.kind, job'.todo = job.todo \ {s},
           job'.origin[s] = job.origin[s],
           job.origin[s] # "fresh"
    PROVE  GatherInv(s)' /\ ReportInv(s)'
<1>1. Key(s)' = Key(s) /\ cfg' = cfg
  BY DEF Quiet, Key
<1>2. GatherInv(s)'
  BY <1>1 DEF GatherInv, Skips, Absent, Bodies
<1>3. ReportInv(s)'
  BY DEF ReportInv, Skips
<1> QED
  BY <1>2, <1>3, Zenon
-----------------------------------------------------------------------------
\* What is not looked at while bodies are gathered.
LEMMA QuietRest ==
    ASSUME NEW s, Quiet(s), ManualInv, OverInv, job.step = "gather",
           job'.step \in {"gather", "idle"}
    PROVE  /\ ManualInv' /\ OverInv'
           /\ (job.step \in {"sealed", "stored"} => SealedInv)'
<1>1. UNCHANGED <<manual, overrides, current>> /\ torn'.store = torn.store
  BY DEF Quiet
<1>2. ManualInv'
  BY <1>1 DEF ManualInv
<1>3. OverInv'
  BY <1>1 DEF OverInv
<1> QED
  BY <1>2, <1>3, Zenon

\* The shape of the state while bodies are gathered.
LEMMA QuietShape ==
    ASSUME Shape, NEW s, Quiet(s), job' = Nothing \/ IsJob(job)',
           health' = [t \in Sources |-> health'[t]]
    PROVE  Shape'
BY DEF Shape, Quiet

\* An update that fails while it gathers keeps the invariant.
LEMMA GatherFails ==
    ASSUME SourcesAssumption, UpdInv, job.step = "gather", NEW s \in job.todo,
           Quiet(s), Sound(s), Fails
    PROVE  UpdInv'
<1>0. /\ Shape /\ (\A k \in Keys : CacheInv(k)) /\ ManualInv /\ OverInv
      /\ (\A t \in Sources : HealthInv(t))
  BY Zenon DEF UpdInv
<1>1. IsJob(job) /\ s \in cfg.active
  BY <1>0 DEF Shape, IsJob, Nothing
<1>2. job' = Nothing /\ job'.step = "idle"
  BY DEF Fails, Nothing
<1>3. health' = [t \in Sources |-> health'[t]]
  BY <1>0, Zenon DEF Fails, RecordFailure, Shape
<1>4. Shape'
  BY <1>0, <1>2, <1>3, QuietShape, Zenon
<1>5. \A k \in Keys : CacheInv(k)'
  BY <1>0, QuietCaches
<1>6. \A t \in Sources : HealthInv(t)'
  BY <1>0, <1>1, QuietFailure
<1>7. ManualInv' /\ OverInv' /\ (job.step \in {"sealed", "stored"} => SealedInv)'
  BY <1>0, <1>2, QuietRest, Zenon
<1> QED
  BY <1>2, <1>4, <1>5, <1>6, <1>7, Zenon DEF UpdInv

\* The update goes on gathering.
GoesOn ==
    /\ IsJob(job)' /\ job'.kind = job.kind /\ job'.step = "gather"
    /\ UNCHANGED health
    /\ \A t \in cfg.active : GatherInv(t)' /\ ReportInv(t)'

\* What the invariant says of the update, after each of the outcomes.
LEMMA TakesOn ==
    ASSUME SourcesAssumption, cfg \in Configs, IsJob(job), job.step = "gather",
           NEW s \in cfg.active, s \in Sources, s \in job.todo, Shape, cfg' = cfg,
           Quiet(s), known[Key(s)] \subseteq known'[Key(s)],
           \A t \in cfg.active : GatherInv(t) /\ ReportInv(t),
           NEW body, NEW origin, Takes(s, body, origin)
    PROVE  GoesOn
<1>1. /\ IsJob(job)' /\ job'.kind = job.kind /\ job'.step = "gather"
      /\ job'.todo = job.todo \ {s}
      /\ job'.inputs = Append(job.inputs, Input(s, body))
      /\ job'.origin = [job.origin EXCEPT ![s] = origin]
  BY TakesJob
<1>2. UNCHANGED health
  BY DEF Takes
<1> DEFINE x == Input(s, body)
           p == Append(job.inputs, x)
<1>3. x.source = s /\ x.body = body /\ (NodesOf(x) # {} <=> Acc(cfg, s, body))
  BY DEF Input, NodesOf, Acc
<1> HIDE DEF x
<1>4. IsSeq(job.inputs) /\ job.origin \in [Sources -> {"none", "fresh", "cached", "failed"}]
  BY DEF IsJob
<1>6. ASSUME NEW t
      PROVE  /\ Bodies(p, t) = IF x.source = t THEN Bodies(job.inputs, t) \cup {x.body}
                               ELSE Bodies(job.inputs, t)
             /\ Converts(t, p) <=> Converts(t, job.inputs)
                                      \/ (x.source = t /\ NodesOf(x) # {})
  BY <1>4, BodiesAppend, ConvertsAppend
<1>7. job'.inputs = p
  BY <1>1 DEF x
<1> HIDE DEF p
<1>5. ASSUME NEW t \in cfg.active PROVE GatherInv(t)' /\ ReportInv(t)'
  <2>1. CASE t = s
    <3>1. Bodies(job'.inputs, s) = Bodies(job.inputs, s) \cup {body}
      BY <1>3, <1>6, <1>7
    <3>2. Converts(s, job'.inputs) <=>
              Converts(s, job.inputs) \/ Acc(cfg, s, body)
      BY <1>3, <1>6, <1>7
    <3>3. job'.origin[s] = origin
      BY <1>1, <1>4
    <3> QED  BY <2>1, <3>1, <3>2, <3>3, <1>1, TakesIt, Zenon
  <2>2. CASE t # s
    <3>1. Bodies(job'.inputs, t) = Bodies(job.inputs, t)
      BY <1>3, <1>6, <1>7, <2>2
    <3>2. Converts(t, job'.inputs) <=> Converts(t, job.inputs)
      BY <1>3, <1>6, <1>7, <2>2, Zenon
    <3>3. job'.origin[t] = job.origin[t]
      BY <1>1, <1>4, <2>2, KeyIs, Zenon
    <3> QED  BY <2>2, <3>1, <3>2, <3>3, <1>1, <1>2, OtherSource, Zenon
  <2> QED  BY <2>1, <2>2, Zenon
<1> QED  BY <1>1, <1>2, <1>5 DEF GoesOn

LEMMA DropsOn ==
    ASSUME SourcesAssumption, cfg \in Configs, IsJob(job), job.step = "gather",
           NEW s \in cfg.active, s \in Sources, s \in job.todo, Shape, cfg' = cfg,
           Quiet(s), known[Key(s)] \subseteq known'[Key(s)],
           \A t \in cfg.active : GatherInv(t) /\ ReportInv(t),
           Drops(s)
    PROVE  GoesOn
<1>1. /\ IsJob(job)' /\ job'.kind = job.kind /\ job'.step = "gather"
      /\ job'.todo = job.todo \ {s} /\ job'.inputs = job.inputs
      /\ job'.origin = [job.origin EXCEPT ![s] = "failed"]
  BY DropsJob
<1>2. UNCHANGED health
  BY DEF Drops
<1>4. job.origin \in [Sources -> {"none", "fresh", "cached", "failed"}]
  BY DEF IsJob
<1>5. ASSUME NEW t \in cfg.active PROVE GatherInv(t)' /\ ReportInv(t)'
  <2>1. CASE t = s
    <3>3. job'.origin[s] = "failed"
      BY <1>1, <1>4
    <3> QED  BY <2>1, <3>3, <1>1, DropsIt
  <2>2. CASE t # s
    <3>3. job'.origin[t] = job.origin[t]
      BY <1>1, <1>4, <2>2, KeyIs, Zenon
    <3> QED  BY <2>2, <3>3, <1>1, <1>2, OtherSource
  <2> QED  BY <2>1, <2>2
<1> QED  BY <1>1, <1>2, <1>5 DEF GoesOn

LEMMA SkipsOn ==
    ASSUME SourcesAssumption, cfg \in Configs, IsJob(job), job.step = "gather",
           NEW s \in cfg.active, s \in Sources, s \in job.todo, Shape, cfg' = cfg,
           Quiet(s), known[Key(s)] \subseteq known'[Key(s)],
           \A t \in cfg.active : GatherInv(t) /\ ReportInv(t),
           Skips(s)
    PROVE  GoesOn
<1>1. /\ IsJob(job)' /\ job'.kind = job.kind /\ job'.step = "gather"
      /\ job'.todo = job.todo \ {s} /\ job'.inputs = job.inputs
      /\ job'.origin = job.origin
  BY SkipsJob
<1>2. UNCHANGED health
  BY DEF Skips
<1>5. ASSUME NEW t \in cfg.active PROVE GatherInv(t)' /\ ReportInv(t)'
  <2>1. CASE t = s
    <3>1. job.origin[s] # "fresh"
      BY DEF ReportInv
    <3> QED  BY <2>1, <3>1, <1>1, SkipsIt
  <2>2. CASE t # s
    BY <2>2, <1>1, <1>2, OtherSource, Zenon
  <2> QED  BY <2>1, <2>2
<1> QED  BY <1>1, <1>2, <1>5 DEF GoesOn

\* Every outcome of a source keeps the invariant.
LEMMA GatherGoesOn ==
    ASSUME SourcesAssumption, UpdInv, job.step = "gather", NEW s \in job.todo,
           Quiet(s), Sound(s), known[Key(s)] \subseteq known'[Key(s)],
           (\E body, origin : Takes(s, body, origin)) \/ Drops(s) \/ Skips(s)
    PROVE  UpdInv'
<1>0. /\ Shape /\ (\A k \in Keys : CacheInv(k)) /\ ManualInv /\ OverInv
      /\ (\A t \in Sources : HealthInv(t))
      /\ (job # Nothing => \A t \in cfg.active : GatherInv(t) /\ ReportInv(t))
  BY Zenon DEF UpdInv
<1>1. IsJob(job) /\ s \in cfg.active /\ cfg' = cfg /\ cfg \in Configs /\ job # Nothing
  BY <1>0 DEF Shape, IsJob, Nothing, Quiet
<1>2. s \in Sources
  BY <1>1, KeyIs, Zenon
<1>3. \A t \in cfg.active : GatherInv(t) /\ ReportInv(t)
  BY <1>0, <1>1, Zenon
<1>4. GoesOn
  BY <1>0, <1>1, <1>2, <1>3, TakesOn, DropsOn, SkipsOn, Zenon
<1>5. Shape'
  BY <1>0, <1>4, QuietShape, Zenon DEF Shape, GoesOn
<1>6. \A k \in Keys : CacheInv(k)'
  BY <1>0, QuietCaches, Zenon
<1>7. \A t \in Sources : HealthInv(t)'
  BY <1>0, <1>1, <1>4, QuietHealth DEF GoesOn
<1>8. ManualInv' /\ OverInv' /\ (job.step \in {"sealed", "stored"} => SealedInv)'
  BY <1>0, <1>4, QuietRest, Zenon DEF GoesOn
<1> QED
  BY <1>1, <1>4, <1>5, <1>6, <1>7, <1>8 DEF UpdInv, GoesOn
-----------------------------------------------------------------------------
\* What CacheInv says of a cache that is restored.
LEMMA RestoredIs ==
    ASSUME NEW k \in Keys, CacheInv(k)
    PROVE  /\ Restored(k).loaded = TRUE
           /\ Usable(k) => Restored(k).body \in known[k] \cup {NoBody}
           /\ ~Usable(k) => disk[k] = Unreadable /\ mem[k].loaded = FALSE
           /\ ~Usable(k) \/ Restored(k).body = NoBody =>
                  known[k] = {} \/ k \in torn.cache
<1>1. CASE mem[k].loaded = TRUE
  BY <1>1 DEF CacheInv, Restored, Usable
<1>2. CASE mem[k].loaded = FALSE
  BY <1>2 DEF CacheInv, Restored, Usable
<1> QED
  BY <1>1, <1>2, Zenon DEF CacheInv

\* A source without a body is left out by an update of all, and fails any other.
LEMMA MissingIs ==
    ASSUME NEW s, Missing(s), Absent(s)
    PROVE  Drops(s) \/ Fails
BY Zenon DEF Missing, Drops

\* Restoring a cache keeps what is said of it.
LEMMA RestoredKeeps ==
    ASSUME NEW k \in Keys, CacheInv(k),
           mem'[k] = mem[k] \/ (Usable(k) /\ mem'[k] = Restored(k)),
           disk'[k] = disk[k], known'[k] = known[k], torn' = torn,
           current' = current
    PROVE  CacheInv(k)' /\ \A t : HeldBy(t, k) => HeldBy(t, k)'
<1>1. CASE mem'[k] = mem[k]
  BY <1>1 DEF CacheInv, HeldBy
<1>2. CASE Usable(k) /\ mem'[k] = Restored(k)
  <2>1. /\ mem'[k].loaded = TRUE /\ mem'[k].body \in known[k] \cup {NoBody}
        /\ (mem'[k].body = NoBody => known[k] = {} \/ k \in torn.cache)
    BY <1>2, RestoredIs, Zenon
  <2>2. CacheInv(k)'
    BY <2>1, Zenon DEF CacheInv
  <2>3. ASSUME NEW t, HeldBy(t, k) PROVE HeldBy(t, k)'
    <3>1. CASE mem[k].loaded = TRUE
      BY <1>2, <2>3, <3>1 DEF HeldBy, Restored
    <3>2. CASE mem[k].loaded = FALSE
      BY <1>2, <2>3, <3>2 DEF HeldBy, Restored, Usable
    <3> QED  BY <3>1, <3>2, Zenon DEF CacheInv
  <2> QED  BY <2>2, <2>3
<1> QED
  BY <1>1, <1>2

\* Restoring a cache changes nothing that matters.
LEMMA RestoringIsQuiet ==
    ASSUME SourcesAssumption, Shape, \A k \in Keys : CacheInv(k),
           NEW s \in cfg.active,
           mem' = mem \/ (Usable(Key(s)) /\ mem' = [mem EXCEPT ![Key(s)] = Restored(Key(s))]),
           UNCHANGED <<cfg, disk, manual, overrides, current, sealed, known, torn>>
    PROVE  /\ Quiet(s) /\ Sound(s) /\ known'[Key(s)] = known[Key(s)]
           /\ CanRead(s)' <=> CanRead(s)
<1> DEFINE k == Key(s)
<1>1. k \in Keys /\ k' = k /\ CacheInv(k)
  BY KeyIs, Zenon DEF Shape, Key
<1>2. mem'[k] = mem[k] \/ (Usable(k) /\ mem'[k] = Restored(k))
  BY <1>1, Zenon DEF Shape
<1>3. Quiet(s)
  <2>1. \A j \in Keys : j # k => mem'[j] = mem[j]
    BY <1>1, Zenon DEF Shape
  <2>2. mem' = [j \in Keys |-> mem'[j]]
    BY <1>1, Zenon DEF Shape
  <2> QED  BY <2>1, <2>2, Zenon DEF Quiet, Shape
<1>4. Sound(s)
  <2> SUFFICES ASSUME NEW j \in Keys, j = k
               PROVE  /\ CacheInv(j)'
                      /\ current.cfg = cfg /\ HeldBy(s, j) => HeldBy(s, j)'
    BY Zenon DEF Sound
  <2> QED  BY <1>1, <1>2, RestoredKeeps, Zenon
<1>5. CanRead(s)' <=> CanRead(s)
  <2>1. disk'[k] = disk[k]
    OBVIOUS
  <2>2. CASE mem'[k] = mem[k]
    BY <1>1, <2>1, <2>2, Zenon DEF CanRead, Usable, Restored
  <2>3. CASE Usable(k) /\ mem'[k] = Restored(k)
    <3>1. mem'[k].loaded = TRUE
      BY <1>1, <2>3, RestoredIs, Zenon
    <3> QED  BY <1>1, <2>1, <2>3, <3>1, Zenon DEF CanRead, Usable, Restored
  <2> QED  BY <1>2, <2>2, <2>3
<1> QED
  BY <1>3, <1>4, <1>5, Zenon

\* read_cached_source keeps the invariant.
LEMMA ReadCacheKeeps ==
    ASSUME SourcesAssumption, UpdInv, ReadCache
    PROVE  UpdInv'
<1>1. PICK s \in job.todo : ~Fetches(s) /\ ReadSource(s)
  BY DEF ReadCache
<1>2. job.step = "gather" /\ UNCHANGED <<cfg, disk, manual, overrides, current,
                                         sealed, known, torn>>
  BY DEF ReadCache
<1> DEFINE k == Key(s)
<1>3. /\ Shape /\ (\A j \in Keys : CacheInv(j)) /\ s \in cfg.active
      /\ s \in Sources /\ k \in Keys /\ HealthInv(s)
  <2>1. Shape /\ (\A j \in Keys : CacheInv(j)) /\ \A t \in Sources : HealthInv(t)
    BY Zenon DEF UpdInv
  <2>2. s \in cfg.active /\ cfg \in Configs
    BY <1>2, <2>1 DEF Shape, IsJob, Nothing
  <2> QED  BY <2>1, <2>2, KeyIs, Zenon
<1>4. mem' = mem \/ (Usable(k) /\ mem' = [mem EXCEPT ![k] = Restored(k)])
  BY <1>1, Zenon DEF ReadSource
<1>5. Quiet(s) /\ Sound(s) /\ known'[k] = known[k] /\ (CanRead(s)' <=> CanRead(s))
  BY <1>2, <1>3, <1>4, RestoringIsQuiet, Zenon
<1>6. CASE /\ CanRead(s) /\ Gathered(s, Restored(k).body, "cached")
           /\ UNCHANGED health
  <2>1. Restored(k).body \in known'[k]
    BY <1>3, <1>5, <1>6, RestoredIs, Zenon DEF CanRead
  <2>2. ASSUME job.kind \in {"cached", "overrides"}, health[s] = "healthy"
        PROVE  Acc(cfg, s, Restored(k).body)
    <3>1. ~Refreshing
      BY <2>2 DEF Refreshing
    <3>2. current # Empty /\ current.cfg = cfg
      BY <1>3, <2>2, <3>1, Zenon DEF HealthInv
    <3>3. HeldBy(s, KeyIn(current.cfg, s))
      BY <1>3, <2>2, <3>1, <3>2, Zenon DEF HealthInv
    <3>4. HeldBy(s, k)
      BY <3>2, <3>3 DEF Key, KeyIn
    <3>5. CacheInv(k)
      BY <1>3, Zenon
    <3>6. CASE mem[k].loaded = TRUE
      BY <3>2, <3>4, <3>6, Zenon DEF HeldBy, Restored
    <3>7. CASE mem[k].loaded = FALSE
      BY <1>6, <3>2, <3>4, <3>7, Zenon DEF HeldBy, Restored, CanRead, Usable
    <3> QED  BY <3>5, <3>6, <3>7, Zenon DEF CacheInv
  <2>3. Takes(s, Restored(k).body, "cached")
    BY <1>6, <2>1, <2>2, Zenon DEF Takes
  <2> QED  BY <1>1, <1>2, <1>5, <2>3, GatherGoesOn, Zenon
<1>7. CASE /\ ~CanRead(s) /\ job.kind = "import"
           /\ job' = [job EXCEPT !.todo = @ \ {s}] /\ UNCHANGED health
  <2>1. known[k] = {} \/ k \in torn.cache
    BY <1>3, <1>7, RestoredIs, Zenon DEF CanRead
  <2>2. Skips(s)
    BY <1>2, <1>5, <1>7, <2>1 DEF Skips, Absent
  <2> QED  BY <1>1, <1>2, <1>5, <2>2, GatherGoesOn, Zenon
<1>8. CASE Fails
  BY <1>1, <1>2, <1>5, <1>8, GatherFails
<1> QED
  BY <1>1, <1>6, <1>7, <1>8 DEF ReadSource
\* A reply that wins brings a body the filter leaves something of.
LEMMA WinnerIs ==
    ASSUME SourcesAssumption, NEW s \in Sources, Key(s) \in Keys, CacheInv(Key(s)),
           Usable(Key(s)), NEW reply \in Replies(s, Restored(Key(s))),
           NEW e \in Acceptable(s, reply)
    PROVE  /\ Acc(cfg, s, reply[e].body)
           /\ reply[e].body # NoBody /\ reply[e].body # Unreadable
           /\ reply[e].kind = "unchanged" => Restored(Key(s)).body = reply[e].body
<1> DEFINE k == Key(s)
           r == reply[e]
           cache == Restored(k)
<1>1. e \in EndpointsOf(s) /\ r.kind # "error" /\ Acc(cfg, s, r.body)
  BY Zenon DEF Acceptable, Accepted, Acc
<1>2. r.body # NoBody
  BY <1>1, Zenon DEF Acc, Accepts, NoBody
<1>3. r \in {Failing} \cup {[kind |-> "body", body |-> b] :
                                b \in Served[s][cfg.identity[s]]}
                      \cup {[kind |-> "unchanged", body |-> cache.body]}
  BY <1>1, Zenon DEF Replies
<1>4. CASE r \in {[kind |-> "body", body |-> b] : b \in Served[s][cfg.identity[s]]}
  <2>1. r.kind = "body" /\ r.body \in Served[s][cfg.identity[s]]
    BY <1>4
  <2>2. k[1] = s /\ k[2] = cfg.identity[s]
    BY Zenon DEF Key
  <2>3. Unreadable \notin Served[k[1]][k[2]]
    BY DEF SourcesAssumption
  <2> QED  BY <1>1, <1>2, <2>1, <2>2, <2>3, Zenon
<1>5. CASE r = [kind |-> "unchanged", body |-> cache.body]
  <2>1. cache.body \in known[k] \cup {NoBody}
    BY RestoredIs, Zenon
  <2>3. r.body = cache.body
    BY <1>5
  <2>2. Unreadable \notin known[k]
    BY Zenon DEF CacheInv
  <2> QED  BY <1>1, <1>2, <2>1, <2>2, <2>3, Zenon
<1>6. r # Failing
  BY <1>1 DEF Failing
<1> QED
  BY <1>3, <1>4, <1>5, <1>6, Zenon

\* The caches when a body was fetched and its file written, or not.
LEMMA FetchedIsQuiet ==
    ASSUME SourcesAssumption, Shape, \A k \in Keys : CacheInv(k),
           NEW s \in cfg.active, Usable(Key(s)), NEW body, NEW new,
           body # NoBody, body # Unreadable, Acc(cfg, s, body),
           new.loaded = TRUE, new.body = body,
           mem' = [mem EXCEPT ![Key(s)] = new],
           known' = [known EXCEPT ![Key(s)] = @ \cup {body}],
           UNCHANGED <<cfg, manual, overrides, current, sealed>>,
           \/ /\ disk' = [disk EXCEPT ![Key(s)] = body]
              /\ torn' = [torn EXCEPT !.cache = @ \ {Key(s)}]
           \/ /\ UNCHANGED disk
              /\ torn' = [torn EXCEPT !.cache = @ \cup {Key(s)}]
    PROVE  /\ Quiet(s) /\ Sound(s)
           /\ known[Key(s)] \subseteq known'[Key(s)] /\ body \in known'[Key(s)]
           /\ mem'[Key(s)] = new
           /\ disk'[Key(s)] = body \/ Key(s) \in torn'.cache
<1> DEFINE k == Key(s)
<1>1. k \in Keys /\ k' = k /\ CacheInv(k)
  BY KeyIs, Zenon DEF Shape, Key
<1>2. /\ mem'[k] = new /\ mem' = [j \in Keys |-> mem'[j]]
      /\ \A j \in Keys : j # k => mem'[j] = mem[j]
  BY <1>1, Zenon DEF Shape
<1>3. /\ known'[k] = known[k] \cup {body} /\ known' = [j \in Keys |-> known'[j]]
      /\ \A j \in Keys : j # k => known'[j] = known[j]
  BY <1>1, Zenon DEF Shape
<1>4. /\ \/ disk'[k] = body /\ k \notin torn'.cache
         \/ disk'[k] = disk[k] /\ k \in torn'.cache
      /\ disk' = [j \in Keys |-> disk'[j]]
      /\ torn' = [cache |-> torn'.cache, store |-> torn.store]
      /\ \A j \in Keys : j # k => disk'[j] = disk[j]
                                  /\ (j \in torn'.cache <=> j \in torn.cache)
  BY <1>1 DEF Shape
<1>5. Quiet(s)
  BY <1>2, <1>3, <1>4, Zenon DEF Quiet
<1>6. Sound(s)
  <2> SUFFICES ASSUME NEW j \in Keys, j = k
               PROVE  /\ CacheInv(j)'
                      /\ current.cfg = cfg /\ HeldBy(s, j) => HeldBy(s, j)'
    BY Zenon DEF Sound
  <2>1. CacheInv(j)'
    BY <1>1, <1>2, <1>3, <1>4, Zenon DEF CacheInv
  <2>2. ASSUME current.cfg = cfg, HeldBy(s, j) PROVE HeldBy(s, j)'
    <3>1. s \in current.present
      BY <2>2 DEF HeldBy, Usable
    <3> QED  BY <3>1, <2>2, <1>1, <1>2, <1>4 DEF HeldBy
  <2> QED  BY <2>1, <2>2, Zenon
<1> QED
  BY <1>2, <1>3, <1>4, <1>5, <1>6, Zenon

\* fetch_source keeps the invariant.
LEMMA FetchKeeps ==
    ASSUME SourcesAssumption, UpdInv, Fetch
    PROVE  UpdInv'
<1>1. PICK s \in job.todo : Fetches(s) /\ FetchSource(s)
  BY Zenon DEF Fetch
<1>2. job.step = "gather" /\ UNCHANGED <<cfg, manual, overrides, current, sealed>>
  BY Zenon DEF Fetch
<1> DEFINE k == Key(s)
<1>3. /\ Shape /\ (\A j \in Keys : CacheInv(j)) /\ s \in cfg.active
      /\ s \in Sources /\ k \in Keys /\ CacheInv(k)
  <2>1. Shape /\ (\A j \in Keys : CacheInv(j))
    BY Zenon DEF UpdInv
  <2>2. s \in cfg.active /\ cfg \in Configs
    BY <1>2, <2>1 DEF Shape, IsJob, Nothing
  <2> QED  BY <2>1, <2>2, KeyIs, Zenon
<1>4. job.kind \notin {"cached", "overrides"}
  BY <1>1, Zenon DEF Fetches
<1>5. ASSUME Quiet(s), Sound(s), known[k] \subseteq known'[k], Absent(s), Missing(s)
      PROVE  UpdInv'
  BY <1>1, <1>2, <1>5, MissingIs, GatherGoesOn, GatherFails, Zenon
<1>6. CASE /\ ~Usable(k) /\ Missing(s)
           /\ UNCHANGED <<mem, disk, known, torn>>
  <2>1. Quiet(s) /\ Sound(s) /\ known'[k] = known[k]
    BY <1>2, <1>3, <1>6, RestoringIsQuiet, Zenon
  <2>2. Absent(s)
    BY <1>3, <1>6, RestoredIs, Zenon DEF Absent
  <2> QED  BY <2>1, <2>2, <1>5, <1>6, Zenon
<1>7. ASSUME Usable(k), NEW reply, NotFetched(s, reply) PROVE UpdInv'
  <2>1. /\ mem' = [mem EXCEPT ![k] = Restored(k)] /\ FallBack(s, Restored(k))
        /\ UNCHANGED <<disk, known, torn>>
    BY <1>7, Zenon DEF NotFetched
  <2>2. Quiet(s) /\ Sound(s) /\ known'[k] = known[k]
    BY <1>2, <1>3, <1>7, <2>1, RestoringIsQuiet, Zenon
  <2>3. CASE Restored(k).body # NoBody
    <3>1. Restored(k).body \in known'[k]
      BY <1>3, <1>7, <2>2, <2>3, RestoredIs, Zenon
    <3>2. Takes(s, Restored(k).body, "cached")
      BY <1>4, <2>1, <2>3, <3>1, Zenon DEF FallBack, Takes
    <3> QED  BY <1>1, <1>2, <2>2, <3>2, GatherGoesOn, Zenon
  <2>4. CASE Restored(k).body = NoBody
    <3>1. Absent(s)
      BY <1>3, <2>1, <2>4, RestoredIs, Zenon DEF Absent
    <3>2. Missing(s)
      BY <2>1, <2>4, Zenon DEF FallBack
    <3> QED  BY <2>2, <3>1, <3>2, <1>5, Zenon
  <2> QED  BY <2>3, <2>4, Zenon
<1>8. ASSUME Usable(k), NEW reply \in Replies(s, Restored(k)),
             NEW e \in Acceptable(s, reply), Fetched(s, reply, e)
      PROVE  UpdInv'
  <2> DEFINE body == reply[e].body
             new == IF reply[e].kind = "unchanged" THEN Restored(k)
                    ELSE [loaded |-> TRUE, body |-> body, from |-> e]
  <2>1. /\ Acc(cfg, s, body) /\ body # NoBody /\ body # Unreadable
        /\ reply[e].kind = "unchanged" => Restored(k).body = body
    BY <1>3, <1>8, WinnerIs, Zenon
  <2>2. new.loaded = TRUE /\ new.body = body
    BY <1>3, <2>1, RestoredIs, Zenon
  <2>3. /\ mem' = [mem EXCEPT ![k] = new]
        /\ known' = [known EXCEPT ![k] = @ \cup {body}]
    BY <1>8, Zenon DEF Fetched
  <2> HIDE DEF new
  <2>4. CASE /\ disk' = [disk EXCEPT ![k] = body]
             /\ torn' = [torn EXCEPT !.cache = @ \ {k}]
             /\ Gathered(s, body, "fresh")
             /\ UNCHANGED health
    <3> HIDE DEF body
    <3>1. /\ Quiet(s) /\ Sound(s) /\ known[k] \subseteq known'[k]
          /\ body \in known'[k] /\ mem'[k] = new
      BY <1>2, <1>3, <1>8, <2>1, <2>2, <2>3, <2>4, FetchedIsQuiet, Zenon
    <3>2. disk'[k] = body
      BY <1>3, <2>4 DEF Shape
    <3>3. Takes(s, body, "fresh")
      BY <1>4, <2>1, <2>2, <2>4, <3>1, <3>2, Zenon DEF Takes
    <3> QED  BY <1>1, <1>2, <3>1, <3>3, GatherGoesOn, Zenon
  <2>5. CASE /\ torn' = [torn EXCEPT !.cache = @ \cup {k}]
             /\ Missing(s) /\ UNCHANGED disk
    <3> HIDE DEF body
    <3>1. Quiet(s) /\ Sound(s) /\ known[k] \subseteq known'[k]
      BY <1>2, <1>3, <1>8, <2>1, <2>2, <2>3, <2>5, FetchedIsQuiet, Zenon
    <3>2. Absent(s)
      BY <1>3, <2>5 DEF Absent, Shape
    <3> QED  BY <2>5, <3>1, <3>2, <1>5, Zenon
  <2> QED  BY <1>8, <2>4, <2>5, Zenon DEF Fetched
<1> QED
  BY <1>1, <1>6, <1>7, <1>8, Zenon DEF FetchSource
-----------------------------------------------------------------------------
\* An update that fails after the gathering.
LEMMA FailsKeeps ==
    ASSUME UpdInv, job # Nothing, Fails, UNCHANGED <<cfg, mem, disk, known, current>>,
           torn' = [cache |-> torn.cache, store |-> torn'.store],
           overrides' = [mem |-> overrides'.mem, disk |-> overrides'.disk],
           ManualInv', OverInv'
    PROVE  UpdInv'
<1>0. Shape /\ (\A k \in Keys : CacheInv(k)) /\ \A t \in Sources : HealthInv(t)
  BY Zenon DEF UpdInv
<1>1. job' = Nothing /\ job'.step = "idle"
  BY Zenon DEF Fails, Nothing
<1>2. IsJob(job) /\ job.step # "idle"
  BY <1>0, Zenon DEF Shape, IsJob
<1>3. Shape'
  BY <1>0, <1>1, Zenon DEF Shape, Fails, RecordFailure
<1>4. \A k \in Keys : CacheInv(k)'
  BY <1>0 DEF CacheInv
<1>5. ASSUME NEW t \in Sources, health'[t] = "healthy"
      PROVE  HealthInv(t)'
  <2>1. health[t] = "healthy" /\ (Counts(job.kind) => t \notin cfg.active)
    <3>1. CASE Counts(job.kind)
      BY <3>1, <1>5, Zenon DEF Fails, RecordFailure
    <3>2. CASE ~Counts(job.kind)
      BY <3>2, <1>5, Zenon DEF Fails
    <3> QED  BY <3>1, <3>2, Zenon
  <2>2. t \in cfg.active => current # Empty /\ current.cfg = cfg /\ ~Refreshing
    BY <1>0, <2>1, Zenon DEF HealthInv, Counts, Refreshing
  <2>3. current # Empty /\ t \in current.cfg.active =>
            HeldBy(t, KeyIn(current.cfg, t))
    BY <1>0, <2>1, <2>2, Zenon DEF HealthInv
  <2>4. HeldBy(t, KeyIn(current.cfg, t))' <=> HeldBy(t, KeyIn(current.cfg, t))
    BY Zenon DEF HeldBy, KeyIn
  <2> QED  BY <2>2, <2>3, <2>4, Zenon DEF HealthInv
<1>6. \A t \in Sources : HealthInv(t)'
  BY <1>5, Zenon DEF HealthInv
<1> QED
  BY <1>1, <1>3, <1>4, <1>6, Zenon DEF UpdInv

\* A step from the sealing to the commit.
LEMMA AdvanceKeeps ==
    ASSUME UpdInv, job # Nothing, IsJob(job)', job'.kind = job.kind,
           job'.todo = job.todo, job'.inputs = job.inputs,
           job'.origin = job.origin,
           UNCHANGED <<cfg, mem, disk, known, current, torn, health>>,
           overrides' = [mem |-> overrides'.mem, disk |-> overrides'.disk],
           ManualInv', OverInv', SealedInv'
    PROVE  UpdInv'
<1>0. /\ Shape /\ (\A k \in Keys : CacheInv(k)) /\ (\A t \in Sources : HealthInv(t))
      /\ \A t \in cfg.active : GatherInv(t) /\ ReportInv(t)
  BY Zenon DEF UpdInv
<1>2. job.step # "idle" /\ job'.step # "idle"
  BY <1>0, Zenon DEF Shape, IsJob
<1>3. Shape'
  BY <1>0, Zenon DEF Shape
<1>4. \A k \in Keys : CacheInv(k)'
  BY <1>0, Zenon DEF CacheInv
<1>5. ASSUME NEW t \in cfg.active PROVE GatherInv(t)' /\ ReportInv(t)'
  <2>1. CanRead(t)' <=> CanRead(t)
    BY Zenon DEF CanRead, Usable, Restored, Key
  <2>2. Converts(t, job.inputs)' <=> Converts(t, job.inputs)
    BY Zenon DEF Converts, NodesOf, Accepts
  <2>3. Bodies(job.inputs, t)' = Bodies(job.inputs, t)
    BY Zenon DEF Bodies
  <2>4. Key(t)' = Key(t)
    BY Zenon DEF Key
  <2>5. GatherInv(t)'
    BY <1>0, <2>3, <2>4, Zenon DEF GatherInv
  <2>6. ReportInv(t)'
    BY <1>0, <2>1, <2>2, <2>4 DEF ReportInv
  <2> QED  BY <2>5, <2>6, Zenon
<1>6. ASSUME NEW t \in Sources PROVE HealthInv(t)'
  <2>1. HeldBy(t, KeyIn(current.cfg, t))' <=> HeldBy(t, KeyIn(current.cfg, t))
    BY Zenon DEF HeldBy, KeyIn
  <2>2. Refreshing' <=> Refreshing
    BY <1>2 DEF Refreshing
  <2> QED  BY <1>0, <2>1, <2>2, Zenon DEF HealthInv
<1> QED
  BY <1>3, <1>4, <1>5, <1>6, Zenon DEF UpdInv

\* The sealing of a candidate keeps the invariant.
LEMMA BuildKeeps ==
    ASSUME SourcesAssumption, UpdInv, Build
    PROVE  UpdInv'
<1>0. Shape /\ ManualInv /\ OverInv
  BY Zenon DEF UpdInv
<1>1. IsJob(job) /\ job # Nothing /\ job.step = "gather" /\ job.todo = {}
  BY <1>0 DEF Build, Shape, IsJob, Nothing
<1>2. UNCHANGED <<cfg, mem, disk, manual, overrides, current, known, torn>>
  BY DEF Build
<1>3. \/ Fails
      \/ /\ sealed' = Candidate(AllInputs)
         /\ job' = [job EXCEPT !.step = "sealed"]
         /\ UNCHANGED health
  BY Zenon DEF Build
<1>4. CASE Fails
  <2>1. job'.step = "idle"
    BY <1>4, Zenon DEF Fails, Nothing
  <2>2. ManualInv' /\ OverInv'
    BY <1>0, <1>1, <1>2, <2>1, Zenon DEF ManualInv, OverInv
  <2> QED  BY <1>0, <1>1, <1>2, <1>4, <2>2, FailsKeeps, Zenon DEF Shape
<1>5. CASE /\ sealed' = Candidate(AllInputs)
           /\ job' = [job EXCEPT !.step = "sealed"]
           /\ UNCHANGED health
  <2>1. job' = [kind |-> job.kind, arg |-> job.arg, step |-> "sealed",
                todo |-> job.todo, inputs |-> job.inputs,
                origin |-> job.origin, was |-> job.was]
    BY <1>1, <1>5, Zenon DEF IsJob
  <2>2. IsJob(job)'
    BY <1>1, <1>2, <2>1, Zenon DEF IsJob
  <2>3. ManualInv' /\ OverInv'
    BY <1>0, <1>1, <1>2, <2>1, Zenon DEF ManualInv, OverInv
  <2>4. ASSUME NEW s \in Sources
        PROVE  Converts(s, AllInputs) <=> Converts(s, job.inputs)
    <3>1. ASSUME NEW b
          PROVE  Converts(s, Append(job.inputs, ImportInput(b)))
                     <=> Converts(s, job.inputs)
      <4>1. ImportInput(b).source # s
        BY Zenon DEF ImportInput, SourcesAssumption
      <4>2. IsSeq(job.inputs)
        BY <1>1, Zenon DEF IsJob
      <4> QED  BY <4>1, <4>2, ConvertsAppend, Zenon
    <3> QED  BY <3>1, Zenon DEF AllInputs
  <2>5. SealedInv'
    <3> DEFINE c == Candidate(AllInputs)
    <3>1. /\ c.cfg = cfg /\ c.present = {s \in Sources : Converts(s, AllInputs)}
          /\ c.manual = (IF job.kind = "import" THEN job.arg ELSE manual)
          /\ c.overrides = (IF job.kind = "overrides" THEN job.arg ELSE overrides.mem)
      BY Zenon DEF Candidate
    <3> HIDE DEF c
    <3>2. c.present = {s \in Sources : Converts(s, job.inputs)}
      BY <3>1, <2>4, Zenon
    <3>3. {s \in Sources : Converts(s, job.inputs)}' =
              {s \in Sources : Converts(s, job.inputs)}
      BY <2>1, Zenon DEF Converts, NodesOf, Accepts
    <3>4. sealed' = c
      BY <1>5, Zenon DEF c
    <3> QED  BY <1>2, <2>1, <3>1, <3>2, <3>3, <3>4, Zenon DEF SealedInv
  <2> QED  BY <1>0, <1>1, <1>2, <1>5, <2>1, <2>2, <2>3, <2>5, AdvanceKeeps, Zenon DEF Shape
<1> QED
  BY <1>3, <1>4, <1>5, Zenon

\* So does a candidate that is thrown away.
LEMMA DiscardKeeps ==
    ASSUME UpdInv, Discard
    PROVE  UpdInv'
<1>0. Shape /\ ManualInv /\ OverInv
  BY Zenon DEF UpdInv
<1>1. job # Nothing /\ job.step = "sealed" /\ Fails
      /\ UNCHANGED <<cfg, mem, disk, manual, overrides, current, known, torn>>
  BY DEF Discard, Nothing
<1>2. job'.step = "idle"
  BY <1>1, Zenon DEF Fails, Nothing
<1>3. ManualInv' /\ OverInv'
  BY <1>0, <1>1, <1>2, Zenon DEF ManualInv, OverInv
<1> QED
  BY <1>0, <1>1, <1>3, FailsKeeps, Zenon DEF Shape

\* So does the manual source that is stored before the pointer moves.
LEMMA CommitManualKeeps ==
    ASSUME UpdInv, CommitManual
    PROVE  UpdInv'
<1>0. Shape /\ ManualInv /\ OverInv /\ SealedInv
  BY DEF UpdInv, CommitManual
<1>1. /\ job # Nothing /\ IsJob(job) /\ job.step = "sealed" /\ job.kind = "import"
      /\ UNCHANGED <<cfg, mem, disk, overrides, current, known>>
  BY <1>0 DEF CommitManual, Nothing, Shape
<1>2. CASE /\ manual' = job.arg
           /\ job' = [job EXCEPT !.step = "stored", !.was = manual]
           /\ UNCHANGED <<sealed, health, torn>>
  <2>1. job' = [kind |-> job.kind, arg |-> job.arg, step |-> "stored",
                todo |-> job.todo, inputs |-> job.inputs,
                origin |-> job.origin, was |-> manual]
    BY <1>1, <1>2, Zenon DEF IsJob
  <2>2. IsJob(job)'
    BY <1>1, <2>1, Zenon DEF IsJob
  <2>3. ManualInv' /\ OverInv'
    BY <1>0, <1>1, <1>2, <2>1, Zenon DEF ManualInv, OverInv
  <2>4. SealedInv'
    <3>1. {s \in Sources : Converts(s, job.inputs)}' =
              {s \in Sources : Converts(s, job.inputs)}
      BY <2>1, Zenon DEF Converts, NodesOf, Accepts
    <3> QED  BY <1>0, <1>1, <1>2, <2>1, <3>1, Zenon DEF SealedInv
  <2> QED  BY <1>0, <1>1, <1>2, <2>1, <2>2, <2>3, <2>4, AdvanceKeeps, Zenon DEF Shape
<1>3. CASE torn' = Torn({"manual"}) /\ Fails
  <2>1. job'.step = "idle"
    BY <1>3, Zenon DEF Fails, Nothing
  <2>2. torn' = [cache |-> torn.cache, store |-> torn.store \cup {"manual"}]
    BY <1>0, <1>3, Zenon DEF Shape, Torn
  <2>3. ManualInv' /\ OverInv'
    BY <1>0, <1>1, <2>1, <2>2, Zenon DEF ManualInv, OverInv
  <2> QED  BY <1>0, <1>1, <1>3, <2>2, <2>3, FailsKeeps DEF Shape
<1> QED
  BY <1>2, <1>3, Zenon DEF CommitManual

\* So do the overrides that are stored before the pointer moves.
LEMMA CommitOverridesKeeps ==
    ASSUME UpdInv, CommitOverrides
    PROVE  UpdInv'
<1>0. Shape /\ ManualInv /\ OverInv /\ SealedInv
  BY Zenon DEF UpdInv, CommitOverrides
<1>1. /\ job # Nothing /\ IsJob(job) /\ job.step = "sealed" /\ job.kind = "overrides"
      /\ UNCHANGED <<cfg, mem, disk, manual, current, known>>
  BY <1>0 DEF CommitOverrides, Nothing, Shape
<1>2. CASE /\ overrides' = [overrides EXCEPT !.disk = job.arg]
           /\ job' = [job EXCEPT !.step = "stored", !.was = overrides.disk]
           /\ UNCHANGED <<sealed, health, torn>>
  <2>1. job' = [kind |-> job.kind, arg |-> job.arg, step |-> "stored",
                todo |-> job.todo, inputs |-> job.inputs,
                origin |-> job.origin, was |-> overrides.disk]
    BY <1>1, <1>2, Zenon DEF IsJob
  <2>2. IsJob(job)'
    BY <1>1, <2>1, Zenon DEF IsJob
  <2>3. overrides' = [mem |-> overrides.mem, disk |-> job.arg]
    BY <1>0, <1>2, Zenon DEF Shape
  <2>4. ManualInv' /\ OverInv'
    BY <1>0, <1>1, <1>2, <2>1, <2>3, Zenon DEF ManualInv, OverInv
  <2>5. SealedInv'
    <3>1. {s \in Sources : Converts(s, job.inputs)}' =
              {s \in Sources : Converts(s, job.inputs)}
      BY <2>1, Zenon DEF Converts, NodesOf, Accepts
    <3> QED  BY <1>0, <1>1, <1>2, <2>1, <2>3, <3>1, Zenon DEF SealedInv
  <2> QED  BY <1>0, <1>1, <1>2, <2>1, <2>2, <2>3, <2>4, <2>5, AdvanceKeeps, Zenon DEF Shape
<1>3. CASE UNCHANGED <<overrides, torn>> /\ Fails
  <2>1. job'.step = "idle"
    BY <1>3, Zenon DEF Fails, Nothing
  <2>2. ManualInv' /\ OverInv'
    BY <1>0, <1>1, <1>3, <2>1, Zenon DEF ManualInv, OverInv
  <2> QED  BY <1>0, <1>1, <1>3, <2>2, FailsKeeps, Zenon DEF Shape
<1>4. CASE /\ overrides' \in {overrides, [overrides EXCEPT !.disk = job.arg]}
           /\ torn' = Torn({"overrides"}) /\ Fails
  <2>1. job'.step = "idle"
    BY <1>4, Zenon DEF Fails, Nothing
  <2>2. torn' = [cache |-> torn.cache, store |-> torn.store \cup {"overrides"}]
    BY <1>0, <1>4, Zenon DEF Shape, Torn
  <2>3. overrides' = [mem |-> overrides'.mem, disk |-> overrides'.disk]
    BY <1>0, <1>4 DEF Shape
  <2>4. ManualInv' /\ OverInv'
    BY <1>0, <1>1, <2>1, <2>2, Zenon DEF ManualInv, OverInv
  <2> QED  BY <1>1, <1>4, <2>2, <2>3, <2>4, FailsKeeps
<1> QED
  BY <1>2, <1>3, <1>4, Zenon DEF CommitOverrides

\* A source that is shown healthy is in what is published.
LEMMA PublishedHealth ==
    ASSUME SourcesAssumption, UpdInv, Ready, current' = Published,
           UNCHANGED <<cfg, mem, disk>>, job' = Nothing,
           health' \in IF Counts(job.kind) THEN {RecordReport, RecordFailure}
                       ELSE {health}
    PROVE  \A t \in Sources : HealthInv(t)'
<1>0. /\ Shape /\ SealedInv /\ (\A k \in Keys : CacheInv(k))
      /\ (\A t \in Sources : HealthInv(t))
      /\ \A t \in cfg.active : ReportInv(t)
  BY DEF UpdInv, Ready, Nothing
<1>1. /\ IsJob(job) /\ job.todo = {}
      /\ job.kind \in {"all", "one", "cached", "import", "overrides"}
  BY <1>0 DEF Shape, Ready, IsJob, Nothing
<1>2. /\ current'.cfg = cfg /\ current' # Empty
      /\ current'.present = {s \in Sources : Converts(s, job.inputs)}
  BY <1>0, Zenon DEF Published, Empty, SealedInv
<1> SUFFICES ASSUME NEW t \in Sources, health'[t] = "healthy"
             PROVE  HealthInv(t)'
  BY Zenon DEF HealthInv
<1>3. CASE t \notin cfg.active
  BY <1>2, <1>3, Zenon DEF HealthInv
<1>4. CASE t \in cfg.active
  <2>0. PICK k \in Keys : k = Key(t)
    BY <1>0, <1>4, KeyIs, Zenon DEF Shape
  <2>1. k = Key(t) /\ k = KeyIn(cfg, t) /\ ReportInv(t) /\ t \notin job.todo
        /\ HealthInv(t) /\ CacheInv(k)
    BY <1>0, <1>1, <1>4, <2>0, KeyIs, Zenon DEF Shape
  <2>2. ASSUME health[t] = "healthy", job.kind # "all"
        PROVE  current.cfg = cfg /\ HeldBy(t, k)
    <3>1. ~Refreshing
      BY <2>2, Zenon DEF Refreshing
    <3>2. current # Empty /\ current.cfg = cfg
      BY <1>4, <2>1, <2>2, <3>1, Zenon DEF HealthInv
    <3>3. HeldBy(t, KeyIn(current.cfg, t))
      BY <1>4, <2>1, <2>2, <3>1, <3>2, Zenon DEF HealthInv
    <3> QED  BY <2>1, <3>2, <3>3, Zenon
  <2>3. HeldBy(t, k)'
    <3>1. CASE ~Counts(job.kind)
      <4>1. health[t] = "healthy" /\ job.kind \in {"cached", "overrides"}
        BY <1>1, <3>1, Zenon DEF Counts
      <4>2. Converts(t, job.inputs)
        BY <2>1, <4>1, Zenon DEF ReportInv
      <4>3. current.cfg = cfg /\ HeldBy(t, k)
        BY <2>2, <4>1, Zenon
      <4> QED  BY <1>2, <4>2, <4>3, Zenon DEF HeldBy
    <3>2. CASE Counts(job.kind)
      <4>1. health' = RecordReport
        BY <1>4, <3>2, Zenon DEF RecordFailure
      <4>2. CASE job.origin[t] = "none"
        <5>1. health[t] = "healthy" /\ job.kind = "import"
          BY <1>1, <2>1, <3>2, <4>1, <4>2, Zenon DEF RecordReport, ReportInv, Counts
        <5>2. ~CanRead(t)
          BY <2>1, <4>2, <5>1, Zenon DEF ReportInv
        <5>3. current.cfg = cfg /\ HeldBy(t, k)
          BY <2>2, <5>1, Zenon
        <5>4. disk[k] = Unreadable /\ ~mem[k].loaded
          <6>1. Acc(cfg, t, NoBody) = FALSE
            BY Zenon DEF Acc, Accepts, NoBody
          <6>2. CASE mem[k].loaded = TRUE
            BY <2>0, <5>2, <5>3, <6>1, <6>2, Zenon DEF CanRead, Usable, Restored, HeldBy
          <6>3. CASE mem[k].loaded = FALSE
            BY <2>0, <5>2, <5>3, <6>1, <6>3, Zenon DEF CanRead, Usable, Restored, HeldBy
          <6> QED  BY <6>2, <6>3, <2>1, Zenon DEF CacheInv
        <5> QED  BY <5>4, Zenon DEF HeldBy
      <4>3. CASE job.origin[t] # "none"
        <5>1. Converts(t, job.inputs) /\ job.origin[t] = "fresh"
          BY <4>1, <4>3, Zenon DEF RecordReport
        <5> QED  BY <1>2, <2>1, <5>1, Zenon DEF HeldBy, ReportInv
      <4> QED  BY <4>2, <4>3, Zenon
    <3> QED  BY <3>1, <3>2, Zenon
  <2>4. HeldBy(t, KeyIn(current.cfg, t))'
    BY <1>2, <2>1, <2>3, Zenon DEF HeldBy, KeyIn
  <2> QED  BY <1>2, <2>4, Zenon DEF HealthInv
<1> QED
  BY <1>3, <1>4, Zenon
\* The commit keeps the invariant.
LEMMA CommitPointerKeeps ==
    ASSUME SourcesAssumption, UpdInv, CommitPointer
    PROVE  UpdInv'
<1>0. Shape /\ ManualInv /\ OverInv /\ SealedInv /\ (\A k \in Keys : CacheInv(k))
  BY Zenon DEF UpdInv, CommitPointer, Ready, Nothing
<1>1. /\ Ready /\ current' = Published /\ job' = Nothing
      /\ UNCHANGED <<cfg, mem, disk, manual, known>>
  BY Zenon DEF CommitPointer
<1>2. IsJob(job) /\ job.step \in {"sealed", "stored"} /\ job'.step = "idle"
  BY <1>0, <1>1 DEF Shape, Ready, IsJob, Nothing
<1>3. /\ torn' = [cache |-> torn.cache, store |-> torn'.store]
      /\ torn'.store = IF overrides'.disk = overrides'.mem THEN {}
                       ELSE torn.store \ {"manual"}
  BY <1>0, Zenon DEF CommitPointer, Shape
<1>4. overrides' = [mem |-> IF job.kind = "overrides" THEN job.arg ELSE overrides.mem,
                    disk |-> overrides.disk]
  BY <1>0, Zenon DEF CommitPointer, Shape
<1>5. /\ current'.cfg = cfg /\ current'.manual = sealed.manual
      /\ current'.overrides = sealed.overrides
  BY <1>0, <1>1, Zenon DEF Published, SealedInv
<1>6. Shape'
  BY <1>0, <1>1, <1>3, <1>4, <1>5, Zenon
     DEF Shape, CommitPointer, RecordReport
<1>7. \A k \in Keys : CacheInv(k)'
  BY <1>0, <1>1, <1>3 DEF CacheInv
<1>8. ManualInv'
  BY <1>0, <1>1, <1>2, <1>5, Zenon DEF ManualInv, SealedInv, IsJob, Ready
<1>9. OverInv'
  <2>1. CASE job.kind = "overrides"
    <3>1. job.step = "stored"
      BY <1>1, <2>1, Zenon DEF Ready
    <3> QED  BY <1>0, <1>2, <1>4, <1>5, <2>1, <3>1, Zenon DEF OverInv, SealedInv
  <2>2. CASE job.kind # "overrides"
    BY <1>0, <1>2, <1>3, <1>4, <1>5, <2>2, Zenon DEF OverInv, SealedInv
  <2> QED  BY <2>1, <2>2, Zenon
<1>10. \A t \in Sources : HealthInv(t)'
  <2>1. health' \in IF Counts(job.kind) THEN {RecordReport, RecordFailure}
                    ELSE {health}
    BY Zenon DEF CommitPointer
  <2> QED  BY <1>1, <2>1, PublishedHealth, Zenon
<1> QED
  BY <1>1, <1>2, <1>6, <1>7, <1>8, <1>9, <1>10, Zenon DEF UpdInv

\* So does a commit that fails and restores the stores.
LEMMA CommitFailsKeeps ==
    ASSUME SourcesAssumption, UpdInv, CommitFails
    PROVE  UpdInv'
<1>0. Shape /\ ManualInv /\ OverInv /\ SealedInv /\ (\A k \in Keys : CacheInv(k))
  BY Zenon DEF UpdInv, CommitFails, Ready, Nothing
<1>1. /\ Ready /\ Restore /\ Fails /\ UNCHANGED <<cfg, mem, disk, known>>
  BY Zenon DEF CommitFails
<1>2. /\ IsJob(job) /\ job.step \in {"sealed", "stored"} /\ job # Nothing
      /\ job' = Nothing /\ job'.step = "idle"
  BY <1>0, <1>1 DEF Shape, Ready, IsJob, Nothing, Fails
<1>3. /\ manual' = (IF job.kind = "import" THEN job.was ELSE manual)
      /\ overrides' = [mem |-> overrides.mem,
                       disk |-> IF job.kind = "overrides" THEN job.was
                                ELSE overrides.disk]
  BY <1>0, <1>1 DEF Restore, Shape
<1>4. CASE UNCHANGED <<current, torn>>
  <2>1. ManualInv'
    BY <1>0, <1>1, <1>2, <1>3, <1>4, Zenon DEF ManualInv, Ready
  <2>2. OverInv'
    BY <1>0, <1>1, <1>2, <1>3, <1>4, Zenon DEF OverInv, Ready
  <2>3. torn' = [cache |-> torn.cache, store |-> torn'.store]
    BY <1>0, <1>4, Zenon DEF Shape
  <2>4. overrides' = [mem |-> overrides'.mem, disk |-> overrides'.disk]
    BY <1>3, Zenon
  <2> QED  BY <1>1, <1>2, <1>4, <2>1, <2>2, <2>3, <2>4, FailsKeeps, Zenon
<1>5. CASE current' = Published /\ torn' = Torn({"manual", "overrides"})
  <2>1. torn' = [cache |-> torn.cache, store |-> torn.store \cup {"manual", "overrides"}]
    BY <1>0, <1>5, Zenon DEF Shape, Torn
  <2>2. ManualInv' /\ OverInv'
    BY <1>2, <2>1, Zenon DEF ManualInv, OverInv
  <2>3. current'.cfg = cfg
    BY <1>0, <1>5, Zenon DEF Published, SealedInv
  <2>4. Shape'
    BY <1>0, <1>1, <1>2, <1>3, <2>1, <2>3, Zenon DEF Shape, Fails, RecordFailure
  <2>5. \A k \in Keys : CacheInv(k)'
    BY <1>0, <1>1, <2>1, Zenon DEF CacheInv
  <2>6. \A t \in Sources : HealthInv(t)'
    <3>1. health' \in IF Counts(job.kind) THEN {RecordReport, RecordFailure}
                      ELSE {health}
      BY <1>1, Zenon DEF Fails
    <3> QED  BY <1>1, <1>2, <1>5, <3>1, PublishedHealth, Zenon
  <2> QED  BY <1>2, <2>2, <2>4, <2>5, <2>6, Zenon DEF UpdInv
<1> QED
  BY <1>4, <1>5, Zenon DEF CommitFails
-----------------------------------------------------------------------------
\* A job that is started.
LEMMA JobStarts ==
    ASSUME SourcesAssumption, NEW c \in Configs, NEW kind \in Kinds, NEW arg,
           cfg' = c, job' = Job(c, kind, arg)
    PROVE  /\ IsJob(job)' /\ job' # Nothing /\ job'.step = "gather"
           /\ job'.kind = kind
           /\ \A s \in c.active : GatherInv(s)' /\ ReportInv(s)'
<1>1. <<>> \in Seq({})
  OBVIOUS
<1>2. IsSeq(<<>>)
  BY <1>1, Zenon DEF IsSeq
<1>3. IsJob(job)'
  BY <1>2, Zenon DEF IsJob, Job
<1>4. job'.step = "gather" /\ job'.kind = kind /\ job' # Nothing
  BY Zenon DEF Job, Nothing
<1>5. ASSUME NEW s \in c.active PROVE GatherInv(s)' /\ ReportInv(s)'
  <2>1. job'.todo = c.active /\ job'.origin[s] = "none" /\ job'.inputs = <<>>
    BY Zenon DEF Job, SourcesAssumption
  <2>2. Bodies(job.inputs, s)' = {}
    BY <2>1 DEF Bodies
  <2> QED  BY <2>1, <2>2, Zenon DEF GatherInv, ReportInv
<1> QED
  BY <1>3, <1>4, <1>5, Zenon

\* HealthInv between two updates.
LEMMA IdleHealth ==
    ASSUME UpdInv, job.step = "idle", NEW t \in Sources, health[t] = "healthy"
    PROVE  /\ t \in cfg.active => current # Empty /\ current.cfg = cfg
           /\ current # Empty /\ t \in current.cfg.active =>
                  HeldBy(t, KeyIn(current.cfg, t))
<1>1. ~Refreshing
  BY Zenon DEF Refreshing
<1>2. HealthInv(t)
  BY Zenon DEF UpdInv
<1> QED
  BY <1>1, <1>2, Zenon DEF HealthInv

\* An update that is at rest is none.
LEMMA IdleJob ==
    ASSUME Shape, job.step = "idle"
    PROVE  job = Nothing
BY Zenon DEF Shape, IsJob

\* A request keeps the invariant.
LEMMA RequestKeeps ==
    ASSUME SourcesAssumption, UpdInv, Request
    PROVE  UpdInv'
<1>0. Shape /\ ManualInv /\ OverInv /\ (\A k \in Keys : CacheInv(k))
  BY Zenon DEF UpdInv
<1>1. /\ UNCHANGED <<cfg, mem, disk, manual, overrides, current, sealed, health,
                     known, torn>>
      /\ job.step = "idle"
  BY Zenon DEF Request, Start
<1>2. PICK kind \in Kinds : \E arg : job' = Job(cfg, kind, arg)
  BY Zenon DEF Request, Start, Kinds
<1>3. PICK arg : job' = Job(cfg, kind, arg)
  BY <1>2, Zenon
<1>4. /\ IsJob(job)' /\ job' # Nothing /\ job'.step = "gather"
      /\ \A s \in cfg.active : GatherInv(s)' /\ ReportInv(s)'
  BY <1>0, <1>1, <1>3, JobStarts, Zenon DEF Shape
<1>5. Shape'
  BY <1>0, <1>1, <1>4, Zenon DEF Shape
<1>6. \A k \in Keys : CacheInv(k)'
  BY <1>0, <1>1, Zenon DEF CacheInv
<1>7. ManualInv' /\ OverInv'
  BY <1>0, <1>1, <1>4, Zenon DEF ManualInv, OverInv
<1>8. ASSUME NEW t \in Sources PROVE HealthInv(t)'
  <2>1. HeldBy(t, KeyIn(current.cfg, t))' <=> HeldBy(t, KeyIn(current.cfg, t))
    BY <1>1, Zenon DEF HeldBy, KeyIn
  <2> QED  BY <1>1, <2>1, IdleHealth, Zenon DEF HealthInv
<1> QED
  BY <1>1, <1>4, <1>5, <1>6, <1>7, <1>8, Zenon DEF UpdInv

\* So does a request for a source that is not active.
LEMMA RequestInactiveKeeps ==
    ASSUME UpdInv, RequestInactive
    PROVE  UpdInv'
<1>0. Shape /\ ManualInv /\ OverInv /\ (\A k \in Keys : CacheInv(k))
  BY Zenon DEF UpdInv
<1>1. /\ UNCHANGED <<cfg, mem, disk, manual, overrides, current, sealed, job,
                     known, torn>>
      /\ job.step = "idle" /\ health' = RecordFailure
  BY Zenon DEF RequestInactive
<1>2. job = Nothing
  BY <1>0, <1>1, IdleJob, Zenon
<1>4. Shape'
  BY <1>0, <1>1, <1>2, Zenon DEF Shape, RecordFailure
<1>5. \A k \in Keys : CacheInv(k)'
  BY <1>0, <1>1, Zenon DEF CacheInv
<1>6. ManualInv' /\ OverInv'
  BY <1>0, <1>1, Zenon DEF ManualInv, OverInv
<1>7. ASSUME NEW t \in Sources PROVE HealthInv(t)'
  <2>1. HeldBy(t, KeyIn(current.cfg, t))' <=> HeldBy(t, KeyIn(current.cfg, t))
    BY <1>1, Zenon DEF HeldBy, KeyIn
  <2>2. health'[t] = "healthy" => health[t] = "healthy"
    BY <1>1, Zenon DEF RecordFailure
  <2> QED  BY <1>1, <2>1, <2>2, IdleHealth, Zenon DEF HealthInv
<1> QED
  BY <1>1, <1>2, <1>4, <1>5, <1>6, <1>7, Zenon DEF UpdInv

\* So does the preview of an import.
LEMMA PreviewImportKeeps ==
    ASSUME SourcesAssumption, UpdInv, PreviewImport
    PROVE  UpdInv'
<1>0. Shape /\ ManualInv /\ OverInv /\ (\A k \in Keys : CacheInv(k))
  BY DEF UpdInv
<1>1. /\ UNCHANGED <<cfg, disk, manual, overrides, current, sealed, job, health,
                     known, torn>>
      /\ job.step = "idle"
      /\ mem' = [k \in Keys |-> mem'[k]]
      /\ \A k \in Keys : mem'[k] = mem[k] \/ (Usable(k) /\ mem'[k] = Restored(k))
  BY Zenon DEF PreviewImport
<1>2. job = Nothing
  BY <1>0, <1>1, IdleJob, Zenon
<1>3. \A k \in Keys : CacheInv(k)' /\ \A t : HeldBy(t, k) => HeldBy(t, k)'
  BY <1>0, <1>1, RestoredKeeps, Zenon
<1>4. Shape'
  BY <1>0, <1>1, <1>2, Zenon DEF Shape
<1>6. ManualInv' /\ OverInv'
  BY <1>0, <1>1, Zenon DEF ManualInv, OverInv
<1>7. ASSUME NEW t \in Sources PROVE HealthInv(t)'
  <2>1. ASSUME current # Empty, t \in current.cfg.active,
               HeldBy(t, KeyIn(current.cfg, t))
        PROVE  HeldBy(t, KeyIn(current.cfg, t))'
    <3>1. PICK k \in Keys : k = KeyIn(current.cfg, t)
      BY <1>0, <2>1, Zenon DEF Shape, SourcesAssumption, KeyIn
    <3>2. HeldBy(t, k)'
      BY <1>3, <2>1, <3>1, Zenon
    <3> QED  BY <1>1, <3>1, <3>2, Zenon DEF HeldBy, KeyIn
  <2> QED  BY <1>1, <2>1, IdleHealth, Zenon DEF HealthInv
<1> QED
  BY <1>1, <1>2, <1>3, <1>4, <1>6, <1>7, Zenon DEF UpdInv

\* So does a change of the configuration.
LEMMA ReplaceConfigKeeps ==
    ASSUME SourcesAssumption, UpdInv, ReplaceConfig
    PROVE  UpdInv'
<1>0. Shape /\ ManualInv /\ OverInv /\ (\A k \in Keys : CacheInv(k))
  BY DEF UpdInv
<1>1. /\ UNCHANGED <<mem, disk, manual, overrides, current, sealed, health,
                     known, torn>>
      /\ job.step = "idle"
  BY Zenon DEF ReplaceConfig
<1>2. PICK c \in Configs : cfg' = c /\ job' = Job(c, "all", {})
  BY Zenon DEF ReplaceConfig
<1>3. /\ IsJob(job)' /\ job' # Nothing /\ job'.step = "gather" /\ job'.kind = "all"
      /\ \A s \in c.active : GatherInv(s)' /\ ReportInv(s)'
  <2>1. "all" \in Kinds
    BY Zenon DEF Kinds
  <2> QED  BY <1>2, <2>1, JobStarts, Zenon
<1>4. Shape'
  BY <1>0, <1>1, <1>2, <1>3, Zenon DEF Shape
<1>5. \A k \in Keys : CacheInv(k)'
  BY <1>0, <1>1, Zenon DEF CacheInv
<1>6. ManualInv' /\ OverInv'
  BY <1>0, <1>1, <1>3, Zenon DEF ManualInv, OverInv
<1>7. ASSUME NEW t \in Sources PROVE HealthInv(t)'
  <2>1. HeldBy(t, KeyIn(current.cfg, t))' <=> HeldBy(t, KeyIn(current.cfg, t))
    BY <1>1, Zenon DEF HeldBy, KeyIn
  <2>2. Refreshing'
    BY <1>3, Zenon DEF Refreshing
  <2> QED  BY <1>1, <2>1, <2>2, IdleHealth, Zenon DEF HealthInv
<1> QED
  BY <1>2, <1>3, <1>4, <1>5, <1>6, <1>7, Zenon DEF UpdInv

\* So does a restart of the worker.
LEMMA RestartKeeps ==
    ASSUME SourcesAssumption, UpdInv, Restart
    PROVE  UpdInv'
<1>0. /\ Shape /\ ManualInv /\ OverInv /\ (\A k \in Keys : CacheInv(k))
      /\ \A t \in Sources : HealthInv(t)
  BY Zenon DEF UpdInv
<1>1. /\ UNCHANGED <<cfg, disk, manual, current, health, known>>
      /\ mem' = [k \in Keys |-> EmptyCache]
  BY Zenon DEF Restart
<1>2. overrides' = [mem |-> overrides.disk, disk |-> overrides.disk]
  BY <1>0, Zenon DEF Restart, Shape
<1>3. torn' = [cache |-> torn.cache,
               store |-> torn.store \cup IF job.step = "stored"
                                         THEN {"manual", "overrides"} ELSE {}]
  BY <1>0, Zenon DEF Restart, Shape, Torn
<1>4. /\ job' = Nothing \/ IsJob(job)'
      /\ job'.step \in {"idle", "gather"}
      /\ job' # Nothing => \A s \in cfg.active : GatherInv(s)' /\ ReportInv(s)'
      /\ IsNeeded => Refreshing'
  <2>1. CASE IsNeeded
    <3>1. job' = Job(cfg, "all", {}) /\ "all" \in Kinds /\ cfg \in Configs
      BY <1>0, <2>1, Zenon DEF Restart, Kinds, Shape
    <3>2. /\ IsJob(job)' /\ job'.step = "gather" /\ job'.kind = "all"
          /\ \A s \in cfg.active : GatherInv(s)' /\ ReportInv(s)'
      BY <1>1, <3>1, JobStarts, Zenon
    <3> QED  BY <3>2, Zenon DEF Refreshing
  <2>2. CASE ~IsNeeded
    BY <2>2, Zenon DEF Restart, Nothing
  <2> QED  BY <2>1, <2>2, Zenon
<1>5. Shape'
  BY <1>0, <1>1, <1>2, <1>3, <1>4, Zenon DEF Shape
<1>6. \A k \in Keys : CacheInv(k)'
  BY <1>0, <1>1, <1>3, Zenon DEF CacheInv, EmptyCache
<1>7. ManualInv'
  BY <1>0, <1>1, <1>3, <1>4, Zenon DEF ManualInv
<1>8. OverInv'
  BY <1>0, <1>1, <1>2, <1>3, <1>4, Zenon DEF OverInv
<1>9. ASSUME NEW t \in Sources, health[t] = "healthy" PROVE HealthInv(t)'
  <2>1. IsNeeded \/ (current # Empty /\ current.cfg = cfg)
    BY Zenon DEF IsNeeded
  <2>2. ASSUME current # Empty, t \in current.cfg.active,
               HeldBy(t, KeyIn(current.cfg, t))
        PROVE  HeldBy(t, KeyIn(current.cfg, t))'
    <3>1. PICK k \in Keys : k = KeyIn(current.cfg, t)
      BY <1>0, <2>2, Zenon DEF Shape, SourcesAssumption, KeyIn
    <3>2. mem'[k].loaded = FALSE
      BY <1>1, Zenon DEF EmptyCache
    <3> QED  BY <1>1, <2>2, <3>1, <3>2, Zenon DEF HeldBy, KeyIn
  <2>3. HealthInv(t)
    BY <1>0, Zenon
  <2> QED  BY <1>1, <1>4, <1>9, <2>1, <2>2, <2>3, Zenon DEF HealthInv
<1>10. \A t \in Sources : HealthInv(t)'
  BY <1>1, <1>9, Zenon DEF HealthInv
<1> QED
  BY <1>1, <1>4, <1>5, <1>6, <1>7, <1>8, <1>10, Zenon DEF UpdInv

\* So does a cache file that is spoilt or lost.
LEMMA CacheSpoilsKeeps ==
    ASSUME SourcesAssumption, UpdInv, CacheSpoils
    PROVE  UpdInv'
<1>0. Shape /\ ManualInv /\ OverInv /\ (\A k \in Keys : CacheInv(k))
  BY DEF UpdInv
<1>1. /\ UNCHANGED <<cfg, mem, manual, overrides, current, sealed, job, health,
                     known>>
      /\ job.step = "idle"
  BY Zenon DEF CacheSpoils
<1>2. PICK key \in Keys :
          /\ disk' = [disk EXCEPT ![key] = Unreadable]
          /\ torn' = [torn EXCEPT !.cache = @ \cup {key}]
  BY Zenon DEF CacheSpoils
<1>3. job = Nothing
  BY <1>0, <1>1, IdleJob
<1>4. /\ disk' = [k \in Keys |-> IF k = key THEN Unreadable ELSE disk[k]]
      /\ torn' = [cache |-> torn.cache \cup {key}, store |-> torn.store]
  BY <1>0, <1>2, Zenon DEF Shape
<1>5. Shape'
  BY <1>0, <1>1, <1>3, <1>4, Zenon DEF Shape
<1>6. \A k \in Keys : CacheInv(k)'
  BY <1>0, <1>1, <1>4, Zenon DEF CacheInv, NoBody, Unreadable
<1>7. ManualInv' /\ OverInv'
  BY <1>0, <1>1, <1>4, Zenon DEF ManualInv, OverInv
<1>8. ASSUME NEW t \in Sources PROVE HealthInv(t)'
  <2>1. ASSUME current # Empty, t \in current.cfg.active,
               HeldBy(t, KeyIn(current.cfg, t))
        PROVE  HeldBy(t, KeyIn(current.cfg, t))'
    <3>1. PICK k \in Keys : k = KeyIn(current.cfg, t)
      BY <1>0, <2>1, Zenon DEF Shape, SourcesAssumption, KeyIn
    <3>2. disk'[k] = IF k = key THEN Unreadable ELSE disk[k]
      BY <1>4, Zenon
    <3> QED  BY <1>1, <2>1, <3>1, <3>2, Zenon DEF HeldBy, KeyIn
  <2> QED  BY <1>1, <2>1, IdleHealth, Zenon DEF HealthInv
<1> QED
  BY <1>1, <1>3, <1>5, <1>6, <1>7, <1>8, Zenon DEF UpdInv

\* A step that changes nothing keeps the invariant.
LEMMA Stutters ==
    ASSUME UpdInv, UNCHANGED updVars
    PROVE  UpdInv'
<1>0. Shape /\ ManualInv /\ OverInv /\ (\A k \in Keys : CacheInv(k))
  BY Zenon DEF UpdInv
<1>1. UNCHANGED <<cfg, mem, disk, manual, overrides, current, sealed, job, health,
                  known, torn>>
  BY Zenon DEF updVars
<1>2. Shape'
  BY <1>0, <1>1, Zenon DEF Shape, IsJob, IsSeq
<1>3. (\A k \in Keys : CacheInv(k)') /\ ManualInv' /\ OverInv'
  BY <1>0, <1>1, Zenon DEF CacheInv, ManualInv, OverInv
<1>4. ASSUME job # Nothing, NEW s \in cfg.active
      PROVE  GatherInv(s)' /\ ReportInv(s)'
  <2>1. GatherInv(s) /\ ReportInv(s)
    BY <1>4, Zenon DEF UpdInv
  <2> QED  BY <1>1, <2>1, Zenon DEF GatherInv, ReportInv, Key, CanRead, Usable, Restored,
             Converts
<1>5. job.step \in {"sealed", "stored"} => SealedInv'
  BY <1>1, Zenon DEF UpdInv, SealedInv, Converts
<1>6. ASSUME NEW s \in Sources PROVE HealthInv(s)'
  <2>1. HealthInv(s)
    BY Zenon DEF UpdInv
  <2> QED  BY <1>1, <2>1, Zenon DEF HealthInv, HeldBy, KeyIn, Refreshing
<1> QED
  BY <1>1, <1>2, <1>3, <1>4, <1>5, <1>6, Zenon DEF UpdInv

\* The invariant holds at the start, and every step keeps it.
LEMMA UpdInit ==
    ASSUME Init
    PROVE  UpdInv
<1>1. PICK config \in Configs : InitAt(config)
  BY Zenon DEF Init
<1>2. Shape
  BY <1>1, Zenon DEF InitAt, Shape
<1>3. \A k \in Keys : CacheInv(k)
  BY <1>1, Zenon DEF InitAt, CacheInv, EmptyCache, NoBody, Unreadable
<1>4. job = Nothing /\ job.step = "idle"
  BY <1>1, Zenon DEF InitAt, Nothing
<1>5. ManualInv /\ OverInv
  BY <1>1, <1>4, Zenon DEF InitAt, ManualInv, OverInv, Empty
<1>6. \A s \in Sources : HealthInv(s)
  BY <1>1, Zenon DEF InitAt, HealthInv
<1> QED
  BY <1>2, <1>3, <1>4, <1>5, <1>6 DEF UpdInv

LEMMA UpdStep ==
    ASSUME SourcesAssumption, UpdInv, [Next]_updVars
    PROVE  UpdInv'
<1>1. CASE Request          BY <1>1, RequestKeeps, Zenon
<1>2. CASE RequestInactive  BY <1>2, RequestInactiveKeeps, Zenon
<1>3. CASE PreviewImport    BY <1>3, PreviewImportKeeps
<1>4. CASE ReplaceConfig    BY <1>4, ReplaceConfigKeeps
<1>5. CASE Fetch            BY <1>5, FetchKeeps
<1>6. CASE ReadCache        BY <1>6, ReadCacheKeeps
<1>7. CASE Build            BY <1>7, BuildKeeps
<1>8. CASE Discard          BY <1>8, DiscardKeeps
<1>9. CASE CommitManual     BY <1>9, CommitManualKeeps
<1>10. CASE CommitOverrides BY <1>10, CommitOverridesKeeps
<1>11. CASE CommitPointer   BY <1>11, CommitPointerKeeps
<1>12. CASE CommitFails     BY <1>12, CommitFailsKeeps
<1>13. CASE Restart         BY <1>13, RestartKeeps
<1>14. CASE CacheSpoils     BY <1>14, CacheSpoilsKeeps
<1>15. CASE UNCHANGED updVars BY <1>15, Stutters, Zenon
<1> QED
  BY <1>1, <1>2, <1>3, <1>4, <1>5, <1>6, <1>7, <1>8, <1>9, <1>10, <1>11, <1>12,
     <1>13, <1>14, <1>15, Zenon DEF Next

\* The invariant implies each of the two properties.
LEMMA InvKeepsSources ==
    ASSUME UpdInv
    PROVE  SourcesAreKept
<1> SUFFICES ASSUME job.step \in {"sealed", "stored"}, NEW s \in cfg.active
             PROVE  /\ Bodies(job.inputs, s) \subseteq known[Key(s)]
                    /\ Bodies(job.inputs, s) = {} =>
                           known[Key(s)] = {} \/ Key(s) \in torn.cache
  BY Zenon DEF SourcesAreKept
<1>1. job # Nothing /\ job.todo = {}
  BY DEF UpdInv, Shape, IsJob, Nothing
<1>2. GatherInv(s)
  BY <1>1 DEF UpdInv
<1> QED
  BY <1>1, <1>2, Zenon DEF GatherInv

LEMMA InvMatchesStores ==
    ASSUME SourcesAssumption, UpdInv
    PROVE  StoresMatch
<1> SUFFICES ASSUME job.step = "idle", current # Empty
             PROVE  StoresMatch
  BY Zenon DEF StoresMatch
<1>1. ManualInv /\ OverInv /\ Shape
  BY Zenon DEF UpdInv
<1>2. /\ current.manual = manual \/ "manual" \in torn.store
      /\ \/ current.overrides = overrides.mem /\ current.overrides = overrides.disk
         \/ "overrides" \in torn.store
  BY <1>1, Zenon DEF ManualInv, OverInv
<1>3. ASSUME current.cfg = cfg, NEW s \in cfg.active, health[s] = "healthy"
      PROVE  s \in current.present \/ Key(s) \in torn.cache
  <2>1. s \in Sources /\ Key(s) \in Keys
    BY <1>1, Zenon DEF Shape, SourcesAssumption, Key
  <2>2. HeldBy(s, Key(s)) /\ CacheInv(Key(s))
    BY <1>3, <2>1, IdleHealth, Zenon DEF KeyIn, Key, UpdInv
  <2> QED  BY <2>2, Zenon DEF HeldBy, CacheInv
<1> QED
  BY <1>2, <1>3, Zenon DEF StoresMatch

-----------------------------------------------------------------------------
(***************************************************************************)
(* An outage takes no nodes away and an old URL's never return             *)
(* (HttpSourceBodyFetcher, fetch and cached): what a candidate holds of a  *)
(* source was served for its request_identity_digest, and it holds nothing *)
(* of it only where nothing ever was or the cache was spoilt.              *)
(***************************************************************************)
THEOREM UpdatesKeepSources ==
    ASSUME SourcesAssumption
    PROVE  Spec => []SourcesAreKept
<1>1. Init => UpdInv
  BY UpdInit, Zenon
<1>2. UpdInv /\ [Next]_updVars => UpdInv'
  BY UpdStep, Zenon
<1>3. UpdInv => SourcesAreKept
  BY InvKeepsSources, Zenon
<1> QED
  BY <1>1, <1>2, <1>3, PTL DEF Spec

(***************************************************************************)
(* Between updates the manual source, the overrides and the health that    *)
(* go with the published generation are those it was built from (commit,   *)
(* record_report), whatever failed or was restarted in between, unless a   *)
(* write failed half way or the worker died inside a commit.               *)
(***************************************************************************)
THEOREM UpdatesMatchStores ==
    ASSUME SourcesAssumption
    PROVE  Spec => []StoresMatch
<1>1. Init => UpdInv
  BY UpdInit
<1>2. UpdInv /\ [Next]_updVars => UpdInv'
  BY UpdStep
<1>3. UpdInv => StoresMatch
  BY InvMatchesStores
<1> QED
  BY <1>1, <1>2, <1>3, PTL DEF Spec
=============================================================================
