# Compatibility Registry: TLA+ models, model checking and proofs

This directory holds the specification of the compatibility registry: TLA+
modules translated from the C++ sources, TLC configurations that check them on
small instances, and TLAPS proofs of the properties that matter most for every
value of the constants. Paths such as `registry.cpp:139` are those of
`src/src/compat/` and `src/include/compat/`; `PROJECT.json` maps every
definition to the lines it models and names the run, the theorem and a fault
(a definition of the model changed the way a bug would change it) for every
property.

## 1. The system

| Component | State | Operations |
|---|---|---|
| Profile lifecycle (`registry.cpp:39-239`, `573-613`) | `profiles_`: a deque of records per identity; `deps_`, `reverse_`: the dependency graph and its reverse index; `invalidations_`; `registry_gen_` | `register_profile`, `supersede_profile`, `invalidate_profile`, `propagate_invalidation`, `find_profile`, `history_of` |
| Cycle search (`registry.cpp:73-135`) | the colours of a depth-first search | `dfs_cycle`, `has_cycle`, `create_cycle` |
| Rules, evidence, policy (`registry.cpp:249-321`) | `rules_`, `rule_gen_`, `evidence_`, `policy_id_` | `register_rule`, `supersede_rule`, `disable_rule`, `register_evidence`, `set_policy` |
| Evaluator (`registry.cpp:339-568`, `697-713`) | `decisions_`, a cache keyed by the digest of a decision | `eval_rule`, `evaluate_pair`, `evaluate_requirement`, `find_decision`, `replay_decision` |
| Constraint predicates and counterfactual queries (`rule.cpp`, `registry.cpp:339-343`, `618-642`) | none: functions of two payloads | `resolve_profile_field`, `Constraint::evaluate`, `constraint_known`, `apply_profile_field_edit`, `counterfactual_pair` |
| Persistence (`registry.cpp:868-1049`) | a file | `snapshot`, `save`, `recover`, `load` |
| Coordinator (`net.cpp`, `net.hpp`, `coordinator_main.cpp`) | `sources_`: boot id and generation of every source; the registry; the connections | a frame protocol over TCP: `RegisterSource`, `RegisterProfile`, `RegisterRule`, `RegisterEvidence`, `Invalidate`, `QueryPair`, `QueryRequirement`, `Snapshot`, `Shutdown` |
| Canonical encoding (`canonical.cpp`, `canonical.hpp`) | none | `put`, `mk_record`, `field`, encoding and strict decoding |
| Profile types (`profile.hpp`, `rule.cpp:12-170`) | structures of eleven kinds | `to_canon`, `from_canon`, the names by which rules reach fields |
| Capabilities (`capability.hpp`) | `caps_`, a vector in the order of the tags | `set_*`, `unset`, `has`, the getters, `to_canon` |
| CUDA discovery (`cuda.cpp`) | none | `discover_cuda_devices`, `make_cuda_device_profile` |
| Identifiers, SHA-256 | none | values |
| Command line, examples, benchmarks, tests | none of their own | callers of the above |

**Interaction.** The registry is one object behind one mutex: every public
method holds `mutex_` from its first to its last statement. The profile store
and the rule store share one generation counter, `registry_gen_`; the evaluator
reads both and derives the id of a decision from that counter. `snapshot`
writes all of it but the two dependency maps and `rule_gen_`, and `recover`
computes the maps anew from the histories. The coordinator owns a registry and
calls it for clients, one connection and one request at a time; it adds to the
registry's rules its own: who may mutate (the boot id of a source) and in which
order (the generation of a source), in which domain (its scope). Callers on several
threads share one registry, and read what `find_profile` and `find_evidence`
point to without the lock. Rules do not see profiles but records: the
structures of `profile.hpp` become records before they are registered, and
those of CUDA devices are made of what CUDA answers, call by call.

**What is hard here.**

* Calls that fail half-way. `register_profile` and `supersede_profile` throw
  for a dependency cycle after they have begun to write.
* Two maps that must be inverse of one another, updated by different helpers.
* Numbers that stand for state. A decision id is computed from a counter, not
  from what was evaluated; rules take generations from two sources.
* A cache whose key leaves out part of what it stores.
* Numbers in texts. Versions are read out of strings, integers of 64 bits are
  made unsigned and compared as doubles, and values come in kinds that may not
  match.
* Absent evidence. An evaluation has three-valued constraints and a list of
  rules in priority order, and the answer must not depend on what is not known.
* Conversions. A profile, a rule or a piece of evidence is written as a record,
  as bytes, as a frame or as a file, under tags counted by hand, and must decide
  the same when it is read.
* Restarts. What is not saved is recomputed, and counters begin again.
* Threads. A pointer outlives the lock under which it was found.
* The network. A client may die with a request on its way; a source may come
  back while requests of its former process still wait in a socket; the server
  serves one connection until it ends. A frame arrives in pieces, and a
  connection may break between any two.

`PROJECT.json` lists them one by one under `hazards`, each at its line and with
the properties that would catch it.

**What makes each component correct.**

* Profile lifecycle: histories are append-only and consecutive, at most the
  newest record is in use, an invalidated generation never comes back, the two
  maps agree, the graph has no cycle, propagation misses no dependent.
* Cycle search: it ends, and answers exactly whether there is a cycle.
* Evaluator: the rule that decides is the right one, and more evidence does not
  overturn an answer that was given as final.
* Constraints: an order of versions and bounds that can be relied on, verdicts
  that stay when more fields arrive, and counterfactual answers that come true.
* Decisions: an id names one decision, replay returns it, a fresh decision is
  governed by rules as they are.
* Persistence: a registry that comes back keeps every promise of one that never
  went away.
* Coordinator: a former process of a source has no say, publications are
  ordered and in scope, answers are true, and a client that waits is answered.
* Frames: a request is carried out once or not at all, an answer is that of its
  call, and a call ends.
* Canonical encoding: decoding inverts encoding and refuses all else; the order
  in which fields were put is forgotten.
* Profile types and capabilities: what was assigned is what rules compare; what
  was not is unknown.
* CUDA discovery: what was not observed is unknown, and what was is ordered as
  CUDA's numbers are.
* Callers on threads: a pointer keeps showing what was found.

## 2. Modules

```
DependencyGraph ──┬── CycleSearch ── CycleSearchProofs
                  └── Profiles ── ProfilesProofs        VersionedLedger
                        │   └─────── refines ───────────────┘
                        └── SharedRecords ── SharedRecordsProofs
RuleEvaluation ──┬── PairEvaluation ───────────────┐
                 ├── Registry  (INSTANCE Profiles) ── RegistryProofs  (INSTANCE ProfilesProofs)
                 │      └── DurableRegistry ─────────────── DurableRegistryProofs
Constraints ─────┴── Submissions ─────────────────┤
     ├────────────────────────────────────────────┤
     └── DeviceDiscovery ─────────────────────────┼── Evaluation ── EvaluationProofs
TaggedVectors ──┬── Capabilities ─────────────────┤
                └── Records ──────────────────────┤
                       └── Canonical ─────────────┤
ProfileTypes ─────────────────────────────────────┘
Coordinator ── CoordinatorProofs
Frames ── refines ── Exchange
   └───── FramesProofs
```

A module named `MC...` defines the values of constants that a `.cfg` cannot
write. **Evaluation** puts side by side the modules on which a decision rests
(`PairEvaluation`, `Constraints`, `Submissions`, `DeviceDiscovery`,
`Capabilities`, `Records`, `Canonical`, `ProfileTypes`), which share no state;
`MCNetwork` does the same with the two grains of the network (`Coordinator`,
`Frames`), and `MCRegistryCalls` with what is below the grain of a call of the
registry (`CycleSearch`, `SharedRecords`). A variable `subject`, chosen
at the start, says which module a behaviour moves, and a property of a module
is asked where that module is the subject. Definitions with a comment that
begins "Fault:" are the variants the properties are tested against; no
specification uses them.

**DependencyGraph** has the operators the code applies to `deps_` and
`reverse_`: `ReplaceEdges` and `ReplaceReverse` are `add_dependency`
(`registry.cpp:52-64`), which removes the former edges first; `CreateCycle` is
what `create_cycle` answers. It declares no `RECURSIVE` operator: a graph has a
cycle when a non-empty set of identities exists each of which has a successor
in the set. Vectors of dependencies are sets; their order shows in one place
only, the test for a call that says nothing new.

**VersionedLedger** is the abstract specification of the profile store: every
identity has an append-only ledger of versions, at most the newest is live, a
clock dates what is published.

**Profiles** is the profile lifecycle. A call is one action because it holds
the mutex throughout; a call that throws is an action too, with what it wrote
before the throw: `RegisterRejected` has retired the active record,
`SupersedeRejected` has also dropped the edges. `InvalidateProfile` and
`PropagateInvalidation` are the two invalidations, `OtherMutation` stands for
the methods of other components that advance `registry_gen_`. `isActive` is
nondeterministic in `RegisterAccepted`, since a caller may pass on a record
that `history_of` gave it. `supersede_profile` compares payload and
dependencies but not the kind (`registry.cpp:174`), and so does `SameSemantics`.

**CycleSearch** is `dfs_cycle` with an explicit stack, one action per loop
iteration, call and return, from any graph and in any order of roots and
successors (a hash map and a vector determine it in the code). It justifies the
use of `HasCycle` everywhere else.

**Constraints** is what a constraint answers on two payloads: `Resolve`
(`resolve_profile_field`, with one level of subfields), `Version` (`parse_ver`:
letters dropped, major and minor read, a part that does not fit is 0),
`RangeSatisfied` (`Min` and `Max`: the conditional at `rule.cpp:258` that picks
`as_uint()` or `as_int()` is a `std::uint64_t`, so a negative number is read
modulo 2^64, `Unsigned`, before it is cast to the double nearest to it), `Evaluate`, with
the answer "raises" where `Canon::as_*` throws, and `Verdict`, which asks
`constraint_known` first. `AfterEdits` is how `counterfactual_pair` edits
its copies, one edit after another. The state is one pair of payloads; its sides are superseded freely.

**RuleEvaluation** is `eval_rule` and the choice among its results, as
operators. A constraint holds, fails or is unknown; an evaluation that raises
gives no decision, writes nothing, and is left out. The order of clauses is
kept where it matters: an `incompatible_with` clause that is unknown is passed
over on the way to one that holds, every required constraint is tried, the
first alternative that holds ends its loop.

**PairEvaluation** moves one pair of profiles through all evidence while rules
that apply to it come and go. Its properties compare the decision with the
decisions that later evidence could bring.

**Registry** composes `Profiles` with rules, evidence, policy, evaluations and
the cache. `Evaluate` follows `evaluate_locked`: unresolved pairs and equal
fingerprints are decided before any rule, with a zero id (`Zero`). A decision
id is the tuple that the code hashes. `Cached` replaces the entry with the same
digest, and the digest leaves out the id and the scope. `issued` is a history
variable: what callers were given, which the code does not keep.

**DurableRegistry** extends `Registry` by the file and the process; its
specification is `DurableSpec`. `Save` and `SaveFails`
truncate first, as `std::ofstream` does; `Crash` may leave a torn file; `Load`
rebuilds the edges from every record of every history in order, as `recover`
does, and throws for a cycle. `ruleGen` starts at 0 again.

**Submissions** puts the constraints of `Constraints`, which may raise, under
the rules of `RuleEvaluation`, and evaluates rules on payloads. A rule is
registered in process or over the wire, whose message has no place for its
kind, its alternatives and its conditions (`net.cpp:221-240`, `401-423`). `SaveAndLoad` writes
every rule as the record of `enc_rule` and reads it as `dec_rule` does
(`registry.cpp:765-820`, `895-948`): encoder and decoder are functions of their
own, with the tags and kinds their lines have, and so are those of the message.
`rules` is `rules_`; `asked` is a history variable, the rules as they were
registered and whether they were disabled. `Decision` is the outcome of a
request (two payloads, their kinds and a scope), which only rules of its scope
and kinds decide, or nothing when the evaluation raises.

**Coordinator** is the server loop, the request handlers and the clients. The
server accepts one connection at a time and reads requests until the connection
ends; other connections wait and can already send. `Send` writes a request with
the credentials the client holds, `Receive` takes the response. `Die` ends a
client's process and leaves what it had sent in the socket. `Stop` is `stop()`
from another thread, after which the request being waited for is still served;
a request to shut down ends the loop after its answer. `Crash` and `Restart`
are those of the server; a restart forgets every source, and may recover the
registry from a snapshot a client wrote. `granted` is a history variable: the
scope that went with every boot id. The registry is the log of the mutations it
has carried out: over the wire a profile has no identity and no dependencies,
so none is rejected.

**Frames** is one connection under those requests: `sock_send_all` and
`recv_frame` in pieces, the limit on the length, and what either end does when
a frame is refused. Both ends run the same code; the difference is that the
server closes the socket and the client does not. **Exchange** is the abstract
specification: what a caller of `RegistryClient::send` may expect.

**SharedRecords** composes `Profiles` with callers that hold what `find_profile`
gave them: a call is what a thread has found, evaluated and found again, with
the calls of other threads in between. A method of the registry is one action,
since it holds the lock, and of a record already in a history it writes flags
only.

**TaggedVectors** is `std::lower_bound` on a vector in the order of its tags,
halving as it does, so that a vector that is out of order is searched wrongly
too. **Capabilities** is a `CapabilitySet` with its setters, `unset` and its
getters, over that search.
**Records** has the fields a caller has `put`, `mk_record` (which sorts and
refuses duplicates) and `field` (bisection). **Canonical** adds values one inside
the other, `Encode` and the strict `Decode`. An encoding is a sequence of cells,
one for every read of the decoder, so that every truncation falls between two
cells or in the middle of a text. No module declares a `RECURSIVE` operator:
`Element` is a function of the depth of a value, and `Items` a function of the
position in the buffer, of which each is the parse of the items from there on. Lengths
are tested as the code does, which does not test the room left once a header has
passed the end of its segment (`canonical.cpp:179`: the difference is unsigned).
A text or an item that would then be copied from behind the buffer gives
`Undefined`, which is neither a value nor an exception; numbers are read through
a test of the buffer's end and raise.

**ProfileTypes** has for each of the eleven kinds the four tables that the code
has, none derived from another: the fields of the structure (`ModelProfile`),
the tag `to_canon` puts each at (`ModelPut`), the tag `from_canon` reads each
from and as what (`ModelTake`), and the tag `tag_for` gives each name
(`ModelNames`); and so for the other kinds. `ToCanon`, `FromCanon` and `TagFor` work on these tables.
Callers assign to each field what `Given` has for its sort.

**DeviceDiscovery** is `discover_cuda_devices`, in which every call to CUDA may
fail by itself, and `make_cuda_device_profile`, which writes an empty text for a
version or a capability that was not given; versions are compared with
`Constraints`, as a rule would. **Casts** defines the double nearest to a number
for the instances of TLC; the proofs take any function that rounds to nearest
(`CastsRound`).

## 3. Runs

`tlc -config X.cfg M` in this directory. "pass" runs finish without an error;
"violation" runs check one statement of the documentation that the code
refutes, and TLC prints the counterexample.

| Run | Module, configuration | Distinct states | Shows |
|---|---|---|---|
| `profile_lifecycle` | `MCProfiles`, `MCProfiles.cfg` | 35,701 | every order of accepted, rejected, repeated and historical calls keeps histories, both maps and the log consistent; the cycle test is exact although it runs on stale edges; propagation is complete; the store implements `VersionedLedger` |
| `registry_calls` | `MCRegistryCalls`, `MCRegistryCalls.cfg` | 49,476 | the search for a cycle ends and is right on all 512 graphs of three identities; a pointer keeps showing the record that was found; two finds that agree vouch for the evaluation between them |
| `evaluation` | `MCEvaluation`, `MCEvaluation.cfg` | 58,320 | complete, Unknown and Incompatible answers are final and lower priorities have no say; versions and ranges are compared in the order of the numbers the code reads, arriving fields change no known verdict, counterfactual payloads are those of the supersede they stand for; rules decide after saves and loads as before, plain rules also over the wire; devices compare as CUDA's numbers do, and as 0.0 where CUDA gave none; profiles are read from the tags they were written at, and names lead there; decoding is exact; setting a capability disturbs no other |
| `registry_decisions` | `MCRegistry`, `MCRegistry.cfg` | 237,685 | one decision per id, fresh decisions name rules as they are |
| `recovered_registry` | `MCDurableRegistry`, `MCDurableRegistry.cfg` | 89,241 | after any save, failed save, crash and load the lifecycle's promises hold, and an id finds at most one decision, also when the file is older than the decisions callers hold |
| `coordinator` | `MCCoordinator`, `MCCoordinator.cfg` | 1,232,944 | former processes are fenced, publications ordered and in scope, answers true |
| `network` | `MCNetwork`, `MCNetwork.cfg` | 98,522 | a client that waits is answered or loses its connection; calls over one connection are those of `Exchange`, and end |
| `rejection_mutates` | `MCProfiles`, `MCProfilesRejection.cfg` | violation | a rejected registration has taken the profile out of use |
| `missing_evidence_positive` | `MCPairEvaluation`, `MCPairEvaluationPositive.cfg` | violation | a veto whose field is absent is passed over |
| `replay_loses_decision` | `MCRegistry`, `MCRegistryReplay.cfg` | violation | decisions of the two scopes share one place in the cache |
| `snapshot_unrecoverable` | `MCDurableRegistry`, `MCDurableRegistryRecoverable.cfg` | violation | `save` writes a file that `load` rejects |
| `unobserved_device` | `MCDevices`, `MCDevicesUnobserved.cfg` | violation | a version that CUDA did not report is not unknown to rules |

### Bounds

* `profile_lifecycle`, `registry_calls`. `MaxRegistryGen` bounds the accepted
  mutations (4 and 3): an identity can be registered, depend on another that depends
  on it, be superseded, invalidated and registered again. Rejected calls are
  not bounded. Three identities are the fewest for a dependency that is neither
  the seed nor its direct dependent; dependency sets have at most one member,
  which makes chains, self dependencies and cycles of every length the
  identities allow. The search of `registry_calls` and `CycleCheckExact` range
  over all sets of dependencies. Two payloads are the fewest that differ. One kind is enough for
  TLC: no property of the lifecycle distinguishes two; the proofs hold for any
  number. The callers of `registry_calls` have one payload, one reader and three
  mutations of other threads, which are enough for a record to be replaced
  before and after the evaluation: of those calls it matters only where they
  fall between the reader's three, and contents differ by their dependencies.
* `evaluation`, subject by subject.
  * Pairs: ten rules of every kind on three priorities, up to three at once, and
    all 27 assignments of verdicts to three constraints. Three rules are the
    fewest in which one is above and one below the rule that decides.
  * Constraints: kernels and devices that share a version field, of seven values
    that include a third part, two digits, a part too large, no digits, a plain
    number and a Boolean; numbers around the point where doubles merge (`Mantissa`,
    4, stands for 2^53, and `MaxUint`, 1023, for the largest 64-bit integer) and
    negative ones; capabilities with two subfields; constraints with every
    operator.
  * Submissions: six rules of every kind and with clauses in every list, for one
    kind of profile or any and in two scopes, two held at once, on payloads whose
    fields may be absent or of another kind; every other request finds rules that
    do not apply.
  * Devices: up to two on a machine, minor versions of one and two digits, the
    CUDA versions 12.9 and 12.10, and two profiles made, the fewest that compare.
  * Types: the whole of the tables, of which any two (`MaxSet`) are assigned:
    the fewest that can be taken for one another. `SomeOfEach` gives each sort a
    value that is not its default, with lists of one and two elements.
  * Records: up to three fields with three tags, which are put in every order and
    twice.
  * Encoding: up to two fields (`MaxPut`) of five kinds, texts with no cell or
    two, and records one inside the other, two deep (`MaxDepth`); every proper
    prefix of an encoding is decoded, and every extension by a cell.
  * Capabilities: four tags, so that a vector of up to four elements is halved
    twice; two kinds and two values.
* `registry_decisions` issues up to three decisions between up to three
  mutations; two decisions are the fewest that can disagree. The generation of
  a caller's rule is always 0 (assigned by the registry): a caller that sends
  its own generation can write any number, and then no statement about
  generations holds.
* `recovered_registry` has two generations before and after any number of
  crashes: the second identity can depend on the first, or have a rejected call
  drop its edges, before or after a load; a rule can replace another at a
  generation that was reached before the crash; two decisions are issued.
  `snapshot_unrecoverable` needs three identities and four generations.
* `coordinator` has two clients that publish under one name, two generations, a
  domain the source may register for or not, four requests and one restart:
  register, publish, register again by the other client, and publish with the
  former credentials, or the same around a restart. A scope that is refused is
  one other domain, and one kind of mutation stands for the three that are
  handled alike.
* `network` has three requests, the fewest with one in service, one that waits
  and one that comes after; frames with a rest of one to three pieces under a
  limit of two, three calls, so that an oversized answer, what is left of it,
  and the call after that all happen. Bytes that are read as a header give any
  length up to the one above the limit.

`CHECK_DEADLOCK FALSE` is in every configuration because every model can stop:
the search when it has answered, the others at the bounds above, a registry
whose file cannot be loaded, and a coordinator that is not started again.

Symmetry is used only in runs without liveness, over values that nothing
distinguishes.

### Fairness

`CycleSearch!FairSpec` has weak fairness of the search: the thread holds the
registry lock and nothing inside the loop waits. `Coordinator!Fairness` is weak
fairness of the server's step (the loop of `run` goes on as long as the
process lives), of `Receive` for every client (a client in `send` blocks in
`recv` and takes what arrives), and of `Close` for every client: a client that
has its answer closes its connection some time, as `net_proof.cpp` and the
destructor of `RegistryClient` do. The last one is a real obligation on
clients: one that keeps an idle connection open shuts out all the others, as
the server serves one connection at a time and sets no timeout. Nothing is
assumed of `Connect`, `Send`, `Die`, `Stop`, `Crash` and `Restart`.
`Frames!Fairness` is weak fairness of the steps of the two ends together: both
processes run, and the network delivers what it has taken as long as both ends
are open. Nothing is assumed of calls, of connections that break or of clients
that connect again. All other specifications are about safety and state no
fairness.

## 4. Behaviours the models show

Refuted by a run:

* *A rejected registration changes state.* `register_profile` retires the
  active record at `registry.cpp:142` and throws at 152; `supersede_profile`
  also drops the edges (179) first. A comment at 150 and README.md:115 say that
  cycles are rejected before any authoritative mutation.
* *An absent field behind a veto is passed over.* (`registry.cpp:351`) A pair is
  called compatible, and is Incompatible when the field arrives. README.md:36
  says that missing evidence never becomes implicit compatibility.
* *A decision can be lost.* The cache key (`registry.cpp:546`) has neither the
  id nor the scope; README.md:106 says `replay_decision` returns prior
  decisions.
* *A saved registry may be impossible to load.* A rejected supersede drops the
  edges of a record that stays in the history; another profile may now depend
  on it the other way; `recover` finds both edges and throws
  (`registry.cpp:1020-1031`).
* *What CUDA did not report is version 0.0.* A device that failed, or a runtime
  or driver whose version call failed, has an empty text in its profile
  (`cuda.cpp:60`, `78`, `91-94`), which is present and read as 0.0: a rule that
  asks for at most a version holds. cuda.hpp:33-34 says that what was not
  observed is left unset (unknown). Of what rules read here, only the memory is.

Plain in the models, which follow the code, and checked by no property of their
own.

Profiles, rules and decisions:

* An alternative whose field is absent is not listed in `missing_evidence`
  (`registry.cpp:388`, `AlternativesResult`): a decision of
  InsufficientEvidence may list nothing. CONTRIBUTING.md:43 asks for the list.
* Rule generations are used twice (`RegisterRule`, `registry.cpp:256`): register
  a rule, supersede it, disable it and register it again. The last call takes
  2 from the counter of the registry, the generation `supersede_rule` has given
  the rule already. ARCHITECTURE.md:12 says a new generation is a new value.
  The counter also begins again after a restart (`registry.cpp:255`, `Restore`).
* A negative number meets every minimum and exceeds every maximum that is not
  negative and not near 2^64 (`rule.cpp:258`, `Unsigned`).
* A constraint that meets a value of another kind raises (`rule.cpp:258`,
  `Readable`), and every applicable rule is evaluated before one is chosen
  (`registry.cpp:487`, `Submissions!Decision`): a rule of low priority can keep
  a pair from being decided by the one above it.
* A version part beyond 64 bits reads as 0 (`ParseNum`), so that the version
  passes for an old one (`OverflowReadsAsOldest`), and `Min` and `Max` do not
  tell neighbours beyond 2^53 apart (`Double`).
* A counterfactual edit of a dotted field replaces the whole top-level field
  (`ApplyEdit`), as rule.hpp:16 says; registry.hpp:82 calls it a "dotted field
  on the target side". An edit of a field the chosen side lacks is passed over.
  Such a query never answers Exact: it does not compare fingerprints.
* Evidence is overwritten whatever its generation (`registry.cpp:302`,
  `RegisterEvidence`), also while another thread reads it through what
  `find_evidence` gave it; README.md:123 and EXAMPLES.md:345 speak of stale
  evidence being refused. No evaluation reads the evidence store.
* Decisions for unresolved pairs and equal fingerprints have a zero id
  (`registry.cpp:452`, `461`) and cannot be replayed by id (README.md:107).
* A rejected registration changes the state, and with it the digest of the
  registry, but not its generation (compare ARCHITECTURE.md:98).
* `supersede_profile` with another kind and the same payload changes nothing
  (`registry.cpp:174`).

Data:

* `CapabilitySet::find_` answers a position and not whether the tag is there
  (`capability.hpp:86`): the getters of `Capabilities` show a neighbour's value
  for a tag that is not set, and `Unset` erases the neighbour (78). Only set
  tags can be relied on, and that is what `SetKeepsTheOthers` says.
* Some fields have no name, and no rule reaches them (`Names` beside `Puts` in
  `ProfileTypes`), among them the capabilities of a backend (`rule.cpp:95`).
* A length altered inside an encoding may make the decoder read beyond the
  buffer (`canonical.cpp:179`, `Canonical!Undefined`). Nothing that is cut off or
  extended does (`TruncatedIsRefused`), and files and frames are checked against
  their checksums before they are decoded.
* CUDA 12.9 is written 12.90
  (`cuda.cpp:40`, `FormatCudaVersion`), which keeps the order among CUDA's own
  versions and not against 12.10 written by hand; the architecture is the
  compute capability with its dot, sm_12.0 (`cuda.cpp:90`).
* Evidence and payloads that are no records are saved empty, or make a file that
  does not load (`registry.cpp:792`, `827`: `put_record` of `as_record`).

Network and file:

* A registration without an identity makes a new one each time
  (`registry.cpp:119-128`); over the wire every registration is one
  (`net.cpp:395`), so a client that retries after a lost answer registers
  twice. EXAMPLES.md:20 calls repeated registration idempotent.
* `RegisterRule`, `RegisterEvidence` and `Invalidate` do not compare the
  generation of the source (`net.cpp:401` and after, `Mutate`);
  ARCHITECTURE.md:69 says mutations of an older generation are refused.
* A rule that comes over the wire has lost its kind, its alternatives, its
  conditions and the sets of its constraints (`net.cpp:223`, `RuleMessage`).
* A client that refuses an oversized response stays connected, in the middle of
  a frame (`Frames!GiveUp`): its next call reads the rest as a header. `inStep`
  says when this has not happened.
* `save` truncates the file before it writes (`registry.cpp:1038`, `SaveFails`):
  a crash or a full disk leaves neither the old file nor the new one.

## 5. Proofs

`tlapm M.tla` for each. All obligations are proved by SMT (Z3), Zenon and, for
temporal steps, LS4. `PROJECT.json` lists the theorems.

**ProfilesProofs** assumes `DependencySetsAssumption` (lists name identities)
and `MaxRegistryGenAssumption` (the bound is a number). The inductive invariant

    IInv == TypeOK /\ HistoryWellFormed /\ ReverseIndexExact
            /\ DependencyGraphAcyclic /\ ActiveEdgesMatchRecord
            /\ InvalidatedNeverServed

is the conjunction of the properties themselves, and each needs the others:
the cycle test runs on a graph with the former edges, and is exact only because
that graph has no cycle; an invalidated generation stays out because only the
newest record can be active and generations are positions in the history; the
walk of a propagation goes over `reverse`, and reaches what the records say
because the index is exact and the edges of a record in use are those it names.
`PropagationIsComplete` follows from `IInv` by showing that every set closed
under the reverse edges is, in complement, closed under the records' edges.
`StoreImplementsLedger` shows that every accepted call is a `Publish`, and every
rejected call and invalidation a `Withdraw` or a stutter.

**CycleSearchProofs** has no assumption, and needs `Id` to be finite only for
`SearchGetsOn`. The inductive invariant is `TypeOK /\ StackIsPath /\ SuccessorsAccounted /\
DoneIsSafe /\ AnswerExact`: an identity met on the stack closes a cycle because
the stack is a path; an activation that returns makes its identity done because
all its successors are accounted for, and only the one it called could be above
it; when all identities are done there is no set in which each has a successor.
The four parts are theorems of their own. `SearchGetsOn` is what `SearchTerminates`
rests on besides fairness: `StepsLeft` counts the identities to meet, those to
finish, the successors to look at and the answer, and no step adds to any of
them (`GetsOn`) while each takes one away. That an activation is the only one of
its identity (`StackIsPath`) is what makes a successor that is passed over one
less.

**EvaluationProofs** is about `Evaluation`, part by part; `ComponentsStandAlone`
shows that a behaviour of `Evaluation` is one of each of its parts, so that what
is proved of a part holds of the whole. Of the pair whose evidence grows it
assumes `LibraryAssumption` (ids tell rules apart) and
`FiniteLibraryAssumption`; that the sort then puts one rule first is proved, by
the smallest set of rules that had no first (`FirstFacts`). No strengthening is
needed beyond `TypeOK`: the theorems are about all pairs of evidence. `RuleIsFinal` shows that
a rule that lacks no evidence gives the same result under all evidence that
extends it, which makes complete and Unknown answers final;
`IncompatibleIsForGood` that the evidence that made a rule incompatible, or let
it refuse, stands whatever else arrives; `LowerPrioritiesHaveNoSay` that the
rule that decides is first of the definite ones, with or without those below.

The theorems about the other parts assume `InputsAreTyped`, the forms of what
callers pass: constraints, payloads and rules have the fields of their types, a
payload has finitely many, tags are numbers, a device's numbers can be read
back, and a cast to double takes a number to one that is nearest to it. TLC evaluates it on the instance of `MCEvaluation`.

* *Constraints.* `VersionsOrdered` goes over the operators: what one answers on
  two versions is what the numbers say that are read (`VersionOperators`), and a
  part that is read as 0 only makes a version older (`OlderPrecedes`). That a
  cast rounds to nearest makes it monotone (`DoubleIsMonotone`); with what is
  read of a negative number (`ReadingOfNumbers`) this gives `RangesOrdered`.
  `MoreFieldsKeepVerdicts` needs no assumption at all.
* *Queries.* `AfterEdits` is a recursion on a number, and TLA+ gives a recursive
  function its equation only once a function is known to satisfy it. Induction
  is done by `LeastNumber`: a set of numbers that is not empty has a least one,
  and the numbers for which a statement fails are such a set (`EditsAreApplied`,
  the form every induction here has). An edit sets its field and no edit of
  another field touches it (`SidesAfterEdits`), so that when all are made, in
  whatever order, the sides are those of the supersede (`AllEditsMade`).
* *Submissions.* What a file or a message gives back is computed tag by tag: of
  a constraint and of a rule in a file it is the same (`ConstraintReadBack`,
  `RuleReadBack`), of a rule in a message it is two of the lists, without their
  sets (`RuleSent`). So a registry holds of every rule what it was asked to hold,
  under the id it was asked for, after any number of saves and loads
  (`SubmissionsInv`), which decides the same; and what the wire leaves of a plain
  rule is all that is evaluated (`WireLeaves`).
* *Devices.* Every profile goes back to answers of CUDA (`DeviceInv`), and the
  version written from two numbers is read as those two, or as 0.0 when it was
  not given (`VersionReadBack`).
* *Vectors, capabilities and records.* `Bisection` satisfies its equation
  (`BisectionIsItsBody`) and, in a vector in the order of its tags, ends where
  the tags below the one it looks for end (`BisectionSplits`). An insertion there
  keeps the order (`InsertKeepsOrder`), a removal does (`UnsetFacts`); so the
  order is invariant (`CapInv`), which is all that find needs. A set of fields
  with different tags has one order (`OneOrder`, `SomeOrder`), which makes
  records independent of the order of `put`.
* *Encoding.* The recursion of the encoder is on the depth of a value and that of
  the decoder on positions, from the last one down; that both have a solution is
  by the least number again (`ItemsAreTheirBody` and its like for `Element`). An
  element that stands somewhere in a buffer, within its segment, is parsed as
  what it was made from, and the parse ends where the element does: of scalars by
  cases, of records and sequences because their items stand one behind the other
  (`HeaderIsRead`, `BehindHeader`), for all depths because there is no least
  depth for which it fails. A record is written in the order of its tags, which
  is the order `mk_record` gave it, and so the test of the tags passes. A proper
  prefix lacks cells the length of the root claims, and an extension leaves
  cells behind it. `CanonInvariant` says that what callers build is such a value.
* *Profiles.* `ProfilesTyped` says that a field holds what its sort can; the
  records of `ToCanon` then have a field exactly where one is assigned
  (`FieldsAreWritten`), lists come back element by element (`ListsAreReadBack`),
  and values written under one sort are alike only if they are the same
  (`WrittenAlike`). What the theorems rest on is `TablesOfAllKinds`: of each kind
  the tags of the writer are different, the reader has the same, with the kinds
  they were written with, and a name has the tag of its field. It is proved by
  comparing the four tables of the kind, and fails if one tag in one of them is
  another. The theorems are for any values of the
  fields and any number of them assigned, where TLC assigns two.

**RegistryProofs** assumes `RuleConstantsAssumption` (the types of what callers
pass), `FiniteRuleIdAssumption` (ids are 128-bit numbers; from it
`FirstIsMember` proves that the sort puts one candidate first) and states `ProfileConstantsAssumption`, by which the
assumptions of `Profiles` hold of the instance. `RegistryImplementsProfiles`
maps every step to a step of `Profiles` or a stutter, so whatever
`ProfilesProofs` shows of a behaviour of `Profiles` holds of the composed
registry. The theorems about decisions rest on the invariant

    DecisionInv == HistoriesTyped /\ RulesTyped /\ Sound(issued)

where `Sound` says of a set of decisions that they are `Dated`, that their ids
name their inputs (`IdsNameInputs`), that they are `Governed` by a rule that is
held, and `Unambiguous`. Its heart is `AnswersStand`: a decision of the current
generation is what an evaluation would answer now, or one of its two profiles no
longer resolves. The second case is needed: a registration that `create_cycle` rejects retires a
record and leaves the generation alone (`registry.cpp:141-153`), so the answer
of the generation changes to an early one, without an id. Every other mutation
advances the generation and leaves all decisions behind
(`NewGenerationKeepsSound`). An id that is given out again therefore names the
decision it named.

**CoordinatorProofs** assumes `CoordinatorAssumption` (which types of messages
there are, and that generations and bounds are numbers). Its invariant comes in
three parts. `TypeInv` is the types of everything in memory and in the sockets,
and that the queue holds a client at most once and only while it is connected:
without that, what is accepted next might be served already. `LogInv` says of
the log, and of every copy of it in a file or in a snapshot on its way, that
boot ids do not go back, that generations of one boot id do not, and that every
profile lies in the scope its boot id was granted; and that nothing in the log
is ahead of its source. The copies are needed because a restart may take any of
them for the log. The three theorems about the log follow. `NumberInv` says
that the number of a request that waits to be read is that of no other request,
no answer and nothing applied, from which `AnswersTrue` follows.

What `RegistryProofs` shows of a state it shows of the parts of a state:
`Sound(S)` says of any set `S` of decisions what `DecisionInv` says of those
issued, and `ProfilesInvStep` of the profiles alone, so that both can be used
where the registry is not in the middle of a behaviour of `Registry`.
`ProfilesInvariantInRegistry` carries the invariant of `ProfilesProofs` over to
the composed registry.

**DurableRegistryProofs** assumes `IdAssumption` (of the identities there are
finitely many, as in any registry) besides the assumptions of the two modules
it builds on. The invariant `DurableInv` is a pair: the registry in memory
satisfies the invariants above for the decisions it holds in its cache, and so
does the registry that the file holds, if it holds one. `Load` is the step to
prove. What it has in memory afterwards is a fold over the histories, which is
a recursion on finite sets. The induction it needs is over sets, and is done
without an induction theorem: `LeastSubset` picks the smallest of the sets on
which a recursion has no value, or on which a property fails, and a set with one
element less contradicts it (`RecursionOnSubsets`, `RebuiltEffect`). So the fold
yields the edges that `add_dependency` leaves for the last record of every
history, `Load` refuses them when they form a cycle, and for what it accepts
`RecoveredProfilesSound` holds and goes on holding. The decisions come back with
the counter they were dated by, which gives `ReplayUnambiguous`, and with the
rules as they were saved; `RestoredRulesGovern` says that they still name them.

**SharedRecordsProofs** uses the assumptions of `Profiles`. Its lemmas show that
a history only ever grows (`Grown`): of the records it holds, generation and
content stay, and a flag that is down stays down. `Histories` makes that
inductive. `CallInv` adds what a reader knows at each point of its call
(`Tells`): the record it found stands in the history at the place the pointer
names, what an evaluation or a later find used is at that place or after it, and
a record that was once found out of use is not found again. A second find that
shows the first generation therefore shows the same record, and the evaluation
between them used no other.

**FramesProofs** assumes `FramesAssumption` (the lengths, the limit and the
bound on calls are numbers) and shows that `Frames` implements `Exchange`. What an
end has taken of a frame, what is on its way to it and what its peer has yet to
send are one stream, which `Push`, `TakeHeader` and `TakeMore` leave as it is (`PushKeeps`,
`TakeKeeps`); a broken connection loses the end of it (`CutStream`). The
invariant `FramesInv` says of the server's stream (`ServerStream`) that it
continues a whole frame and consists of frames of later and later calls
(`Chain`), none of which has been carried out, and that no frame is cut off
while the client is connected; so the next request always begins where the last
one ended, and what is applied is applied once and in order. Of the client's
stream (`ClientStream`) it says that all it holds answers requests carried out,
and as long as the client has read whole frames only, that it holds nothing but
the response to the call that waits, and not even that while the request is
still on its way. Therefore the call that is answered is the one that was made.
A failed call leaves the client in step only when nothing of a response can
arrive any more, because the server's end is closed. Every step is then `Ask`,
`Apply`, `Answer`, `Fail` or `Connect` of `Exchange`, or a stutter
(`CallsStep`).

**Only model-checked.** Liveness under fairness, which is out of the prover's
reach: `SearchTerminates` (of which `SearchGetsOn` proves that the steps run out, not that the
next one is taken), `EventuallyAnswered` and `CallsEnd`. Every other property of a
passing run is stated by a theorem.

## 6. Not modelled

* **An evaluation that raises**, in `Registry`: it leaves the registry as it was.
  In a coordinator it ends the process, which `Crash` covers. What raises is
  modelled in `Constraints` and `Submissions`.
* **Values of kind Float, Null, Uuid and Sequence in constraints**: a Float is
  the double it is compared as, the others are only ever compared for equality.
* **SHA-256 and identifiers**: digests are taken as injective, and random ids as
  fresh. Equal payloads are equal fingerprints.
* **JSON and other texts** (`canonical_to_json`, explanations, matrices): they
  read what the evaluator computes, and change nothing. The same holds of the
  part of `counterfactual_pair` that follows its edits.
* **The canonical form of capability sets**: pairs of tag and value in one more
  record; the getters are modelled, the conversion is not.
* **Records edited by hand**, and values that are no records on the way to a
  file: `ProfileTypes` and `DurableRegistry` have what the structures of
  `profile.hpp` produce.
* **Evidence read without the lock**: `find_evidence` returns a pointer into a
  map, and `register_evidence` assigns over the record it names, member by
  member. What a reader sees of a record that is being assigned is not defined.
* **Checksums** are taken to detect what is not a frame; `Frames` has the length,
  the limit and the magic number.
* **The coordinator's registry** is a log of mutations: what it decides is in
  `Registry`.
* **Command line, examples, benchmarks, the kernels of `cuda_proof.cpp`**: input
  and output around the calls that are modelled.

## 7. Plan

The order was that of importance: the profile lifecycle with its proofs, the
evaluator, the composed registry, its file, the coordinator, the callers on
threads, the frames, and the data that rules read. These are done. What is
left:

* The coordinator with the registry of `Registry` in place of its log, so that
  what a client was answered and what it is answered later can be related.
