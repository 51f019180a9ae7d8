---------------------------- MODULE CandidatePool ----------------------------
(***************************************************************************)
(* From the bodies of the sources to the nodes of a generation:            *)
(* convert_sources and dedupe_sources (pipeline.rs), build_candidate_pools *)
(* (candidate_pool.rs) and build_candidate_with_overrides                  *)
(* (worker_services.rs).                                                   *)
(*                                                                         *)
(* A node is the number its fingerprint sorts by, a body the set of nodes  *)
(* it parses to, and an input is a record [source, body, excluded].        *)
(***************************************************************************)
EXTENDS Integers, Sequences, FiniteSets, Functions

CONSTANTS
    MaxSources,     \* worker_config.rs MAX_SOURCES
    MaxSourceRefs,  \* ParserLimits.max_source_refs
    MaxAuto         \* proxy.urltest max_candidates

\* NodeFilter.accepts, by the excluded node ids
Accepts(excluded, body) == body \ excluded

\* convert_sources: what one input contributes
NodesOf(input) == Accepts(input.excluded, input.body)

\* convert_sources: the nodes of all inputs, once each
Converted(inputs) == UNION {NodesOf(inputs[i]) : i \in DOMAIN inputs}

(***************************************************************************)
(* dedupe_sources: the sources a node is attributed to, in the order of    *)
(* the inputs and at most MaxSourceRefs of them.                           *)
(***************************************************************************)
SourceRefs(inputs, node) ==
    LET having == SelectSeq(inputs, LAMBDA in : node \in NodesOf(in))
    IN {having[i].source : i \in 1..(IF Len(having) < MaxSourceRefs
                                     THEN Len(having) ELSE MaxSourceRefs)}

\* build_candidate_with_overrides: the attribution of every node
Attribution(inputs) ==
    [node \in Converted(inputs) |-> SourceRefs(inputs, node)]

-----------------------------------------------------------------------------
\* validate_inputs; node ids are unique by construction
ValidInputs(mode, active) ==
    /\ Len(active) \in 1..MaxSources
    /\ IsInjective(active)
    /\ mode = "single" => Len(active) = 1

Eligible(active, refs) ==
    {n \in DOMAIN refs : refs[n] \cap Range(active) # {}}

\* The nodes of one source that the pool does not hold yet.
Left(refs, source, pool) ==
    {n \in DOMAIN refs :
        source \in refs[n] /\ \A k \in DOMAIN pool : pool[k].node # n}

Least(S) == CHOOSE n \in S : \A m \in S : n =< m

(***************************************************************************)
(* round_robin: the sources take turns, each adding its first node that no *)
(* other has added, until the pool is full or no source has one left.  The *)
(* pool keeps the source that contributed each node.                       *)
(***************************************************************************)
\* Mutant: a source that is visited takes all it has.
MutTurn(active, refs, pool, k) ==
    LET source == active[((k - 1) \div Cardinality(DOMAIN refs)) + 1]
    IN IF Len(pool) = MaxAuto \/ Left(refs, source, pool) = {} THEN pool
       ELSE Append(pool, [source |-> source,
                          node |-> Least(Left(refs, source, pool))])

Turn(active, refs, pool, k) ==
    LET source == active[((k - 1) % Len(active)) + 1]
    IN IF Len(pool) = MaxAuto \/ Left(refs, source, pool) = {} THEN pool
       ELSE Append(pool, [source |-> source,
                          node |-> Least(Left(refs, source, pool))])

RoundRobin(active, refs) ==
    LET last == Len(active) * Cardinality(DOMAIN refs)
        pool[k \in 0..last] ==
            IF k = 0 THEN <<>> ELSE Turn(active, refs, pool[k - 1], k)
    IN pool[last]

\* The nodes in the order of their ids.
Sorted(nodes) ==
    [k \in 1..Cardinality(nodes) |->
        CHOOSE n \in nodes : Cardinality({m \in nodes : m < n}) = k - 1]

\* build_candidate_pools; eligible nodes are sorted by their id
Pools(mode, active, refs) ==
    IF mode = "merge" THEN RoundRobin(active, refs)
    ELSE LET sorted == Sorted(Eligible(active, refs))
         IN [k \in 1..(IF Len(sorted) < MaxAuto
                       THEN Len(sorted) ELSE MaxAuto) |->
                 [source |-> active[1], node |-> sorted[k]]]

-----------------------------------------------------------------------------
Share(pool, source) ==
    Cardinality({k \in DOMAIN pool : pool[k].source = source})

(***************************************************************************)
(* What a pool promises: it lists eligible nodes, each once and as many as *)
(* fit, and no source has two places more than another one that still has  *)
(* a node to offer.                                                        *)
(***************************************************************************)
Fair(active, refs, pool) ==
    LET nodes == {pool[k].node : k \in DOMAIN pool}
        all == Eligible(active, refs)
    IN /\ nodes \subseteq all
       /\ Cardinality(nodes) = Len(pool)
       /\ Len(pool) = MaxAuto \/ nodes = all
       /\ \A s, t \in Range(active) :
              Share(pool, s) > Share(pool, t) + 1 => Left(refs, t, pool) = {}
=============================================================================
