# TLA+ models of the UHD host control layer

This directory holds TLA+ specifications of `src/host/lib/usrp/dboard/manager.cpp` and `src/host/lib/usrp/multi_usrp.cpp`: the daughterboard registry and manager, the subdevice proxy, the channel resolver, the multi-board facade and the PPS time-synchronization protocol. It also holds TLC configurations that model-check them, and TLAPS proofs of the registry and manager invariants, of the facade's type correctness and of every invariant the time-synchronization run checks. `PROJECT.json` lists the components, runs, mutants, the definition-to-source map, the findings, the hazards and the theorems.

## 1. The system

| Part | Code | State | Operations |
|---|---|---|---|
| Registry | manager.cpp 40-68 | `id_to_ctor_map`, `ctor_to_names_map` (process-wide `uhd::dict`s), the static latch `called` | `register_subdevs` (seed, then insert); `register_internal_dboards` (one-time seeding of four built-in entries); `get_dboard_ctor` (lookup, throws for an unknown id) |
| Manager | manager.cpp 116-217 | per motherboard: `_rx_dboards`, `_tx_dboards` (name → proxy), the GPIO banks | constructor (seed, two lookups, GPIO direction/output/ATR set-up, then the transceiver or separate branch); `get_rx/tx_subdev` (throws `invalid_argument` for an unknown name) |
| Subdevice proxy | manager.cpp 77-111 | a driver instance and a direction tag | `get`/`set` forwarded to `rx_*` or `tx_*` by the tag |
| Channel resolver | multi_usrp.cpp 483-508 | none: recomputed from the live subdev specs | flat index → (mboard, chan) |
| Facade | multi_usrp.cpp 84-554 | none of its own: everything is in the device's property tree | per-board setters with `ALL_MBOARDS`, per-channel setters with `ALL_CHANS`, `get_pp_string` |
| Time sync | multi_usrp.cpp 184-230 | board clocks, "time at last PPS", pending "time at next PPS" | `set_time_unknown_pps` (wait for an edge with a 1.1 s timeout, arm all boards, sleep 1 s, verify); `get_time_synchronized` |

How the parts interact:
- An external driver may call `register_subdevs` at any time. Every manager constructor calls the seeding first and then reads the registry.
- A manager's proxies share one driver instance per name when both ids resolve to the same constructor, and have separate instances otherwise.
- The facade resolves every channel-indexed call through the resolver against the specs the client may have changed since.
- The time protocol is one thread of host reads and writes, racing the boards' hardware. That hardware latches pending values at each PPS edge.

Behaviours that make this hard:
- Order between external registrations and the lazy seeding.
- Aliasing that follows from constructor equality rather than id equality.
- Names keyed by constructor.
- Fan-outs that fail half-way.
- Heterogeneous and empty channel counts.
- A PPS edge falling between two reads of the host.
- A value left armed by an earlier aborted call.
- The one-sided verification bound.

## 2. Modules

| Module | Models | State ↔ code |
|---|---|---|
| `DboardRegistry` | the registry | `idToCtor`, `ctorToNames` are the two dicts, as total functions with sentinels `NoCtor`, `NoNames` for "no key"; `called` is the latch. `Put` is lines 66-67; `RegisterInternal` is the seeding, its nested calls each a `Put` because the latch is already set. History: `givenNames` (names last given per id), `extCtor` (constructor of the last external registration per id). |
| `DboardManager` | manager and proxy, composed with the registry | `mgr`, `mgrIds`, `db[m][d][n]` (the proxy filed under name n, an `[inst, dir]` record or `NoProxy`), `gpio[m]`, `drv[inst]` (board state of a driver instance named `<<m, kind, name>>`). `entered[inst]` is the set of entry points (`RX` for `rx_set`, `TX` for `tx_set`) the instance was driven through since its construction. History: `lastWrite`. Actions: `ExtRegister`, `Construct` (the whole constructor: seeding, throw leaving the old manager, GPIO, `BuildDb`), `ProxySet` (dispatch on the proxy's type tag to the RX or TX entry point, lines 105-110). |
| `MultiUsrp` | resolver and facade | `spec[d][m]` (subdev spec as a sequence of entries), `rate[d][m][k]`, `streamCmd`, `antenna[d][m][entry]`, `clockRate`, `clockConfig`; `failed` is whether the call threw. History: `lastCall`. `ChanToMcp` is the loop of lines 491-495 as a recursive function over the boards; `DspOk` is where `names.at()` / `dsp_names.at()` throw. One action per setter. |
| `TimeSync` | the PPS protocol | `t` real time in 10 ms ticks, `off[m]` board clock − real time, `armed[m]`, `lastPps` (board 0's time at the last edge), `ppsOn[m]`, `phase`; `pc` the host's next property access, and the procedure's locals. `Tick` is the hardware (spec-modelled): an edge latches every pending value of a board with PPS. Each host step is one property access of lines 192-230; at most `MaxGap` ticks pass between two accesses except during the sleep. |
| `MCDboardManager`, `MCMultiUsrp`, `MCTimeSync` | TLC instances | small constant sets, the reference channel layout (`Layout`, `ResolverMatchesLayout`) |
| `DboardManagerContract` | what a manager promises its clients (abstract) | `built[m]`, `shared[m]`, `subdevs[m][d]`, `board[m][d][n]`. `CBuild` is a (re)construction with fresh boards, `CSet` a set through a proxy, shown on the opposite side too when shared. |
| `TimeSyncContract` | what `set_time_unknown_pps` and `get_time_synchronized` promise (abstract) | `pps[m]`, `clk[m]`, `stage` (running, failed, settled, verified, answered), `verdict` (the warned boards), `answer`. `CDrift` moves only clocks with PPS, `CFail` needs no PPS on board 0, `CSettle` aligns every PPS board with board 0, `CVerdict` is an exact warning set, `CAnswer` a sound answer. `TimeSync` maps onto it by `StageView` (from `pc`) and `VerdictView` (`warned` once the verify loop ends), and `ImplementsSyncContract` is the refinement. |
| `DboardManagerProofs` | TLAPS proofs about the registry | see §5 |
| `DboardContractProofs` | TLAPS proofs about aliasing and the refinement | see §5 |
| `MultiUsrpProofs` | TLAPS proof of the facade's type correctness | see §5 |
| `TimeSyncProofs` | TLAPS proofs about the PPS protocol | see §5 |
| `TimeSyncRefinement` | TLAPS proof that `TimeSync` implements `TimeSyncContract` | see §5 |

A dictionary read through `operator[]` (line 151) would default-insert an empty list. The model reads it as "no names". `AlwaysResolvable` proves that branch unreachable.

## 3. Runs

| Run | Checks | Shows |
|---|---|---|
| `dboard_manager` (pass, 4113 states, `VIEW MCClientView` without `entered`) | `TypeOK`, `Resolvable`, `ExternalOverrideWins`, `TransceiverCoherent`, `SeparateCtorsIsolated`, `ImplementsContract` | over every interleaving of two external registrations and constructions with every id pair (one of them unknown), proxy sets of two values |
| `dboard_dispatch` (pass, 1597 states, `VIEW MCDispatchView` without `drv`/`lastWrite`) | `EntryMatchesRole` | the same interleavings: an instance built for the RX (TX) half is only ever driven through `rx_set` (`tx_set`); a transceiver through either |
| `dboard_entry_per_id` (violation) | `EntryPerId` | the seeding alone gives `ID_NONE` the names a/b/ab |
| `dboard_different_ids` (violation) | `DifferentIdsIsolated` | rx = `ID_BASIC_RX`, tx = `ID_NONE` share an instance |
| `facade` (pass, ~160k states) | `TypeOK`, `ResolverMatchesLayout` | two boards, one DSP each, specs of 0-2 entries changing at run time, so channels past a board's DSPs fail |
| `facade_board` (pass, 82944 states, `VIEW MCDeviceView` without `failed`/`lastCall`) | `AntennaSetReachesSubdev` | two boards, two subdevice entries, two antennas; specs: empty, two distinct subdevices, one subdevice named twice. A set on one channel changes that board's subdevice and nothing else: the other board and the other entry keep their antenna |
| `facade_all_or_nothing` (violation) | `FanOutAllOrNothing` | partial application of a failing `ALL_CHANS` set |
| `facade_pp_string` (violation) | `PpStringListsChannels` | the `(m+1)*size(m)` bound |
| `time_sync` (pass, 91720 states) | `TypeOK`, `NoSpuriousTimeout`, `SyncedOnReturn`, `VerifyExact`, `ImplementsSyncContract`, `Terminates` | two boards; PPS present or absent per board; first edge 10, 20, 500 or 1000 ms after the call; clocks ±5 s off |
| `time_sync_stale_arm` (violation) | `NoSpuriousTimeout` | a stale armed value on board 0 gives a false "no PPS" |

Bounds and why they are enough:
- **Boards.** Two boards are the smallest case with a neighbour to skip into. A spec of 2 entries with one DSP per board gives valid channels, failing channels and empty boards. Layouts of 0-2 entries per board cover the zero-size and heterogeneous cases.
- **Antenna run.** Two boards and two entries make the "everything else keeps its antenna" case real: a set through the wrong board, the wrong entry or the other direction is seen. The specs are narrowed to the three that tell these apart, including the duplicated subdevice.
- **Registry.** The three built-in ids, one unknown id and two external registrations are enough. One registration overrides a built-in id with a new constructor. The other re-points `ID_BASIC_TX` at `basic_rx::make`, so that two ids share a constructor.
- **Time.** The run uses the real ratios: PPS period 100 ticks, timeout 110, sleep 100, tolerance 1 tick (10 ms). Each host access is at most 1 tick (10 ms) after the previous one, below the tolerance the code's comment justifies ("greater than RTT"). Time stops at `MaxTime` = 400 ticks, beyond the longest run, which is about 321 steps deep.
- **Symmetry.** None is used: the ids, constructors and names all play distinct roles.

Fairness (`time_sync` only): weak fairness on `Tick`, because real time passes, and on `Host`, because the single control thread keeps running when it can. Spec §5 says there is no background thread and every access blocks until the hardware answers. `Terminates` needs both.

Every property of a passing run has a mutant in `PROJECT.json`: a variant of one mapped definition, defined just before it, under which TLC finds that property violated. Examples are seeding after the insert, a resolver that breaks on `<=`, a proxy set that dispatches to the other entry point, an antenna set that writes the other direction, a poll loop that re-reads its baseline, a missing settle sleep (which also breaks `ImplementsSyncContract`: the wake finds a board with PPS not yet latched), and a deviation test without the lower bound.

## 4. Findings

1. **Names are keyed by constructor** (manager.cpp:67). `ID_NONE` builds a, b and ab, not the one subdevice the comment at line 46 promises, and the "basic tx" entry of line 45 is dead.
2. **Aliasing follows constructor equality** (manager.cpp:150). Different ids that share a constructor share instances, against spec §8.
3. **Fan-outs apply partially** (multi_usrp.cpp:304, 410), against spec §7.
4. **`get_pp_string` bound** (multi_usrp.cpp:129, 145). With heterogeneous channel counts it skips channels or throws. In the run's trace, counts [0, 1], it lists channel 0, then asks for channel 1 of 1, which resolves to mboard 2, where `names.at()` throws.
5. **Stale armed value** (multi_usrp.cpp:193). Re-running the procedure after an aborted call can throw "no PPS" with PPS present, against spec §5's "safe to re-run".

## 5. Proofs

`DboardManagerProofs` proves, for all values of the constants that satisfy `RegistryAssumption` and `ManagerAssumption`:
- `TypeCorrect`: `Spec => []TypeOK`;
- `AlwaysResolvable`: `Spec => []Resolvable`;
- `OverrideAfterSeed`: `Spec => []ExternalOverrideWins`.

All three rest on one inductive invariant, `IInv`. It is `TypeOK /\ Resolvable /\ ExternalOverrideWins` plus one more conjunct, `~called => extCtor = all NoCtor`. That conjunct is needed because `ExternalOverrideWins` alone is not inductive: a seeding that runs after an external registration would overwrite the built-in ids. The conjunct says this cannot happen, because `register_subdevs` sets the latch before it inserts.

The argument runs through lemmas about the record operators, cited by name:
- `PutType` and `PutResolvable`: one insert keeps the record typed and resolvable;
- `InternalType`: the four seeding inserts do too;
- `SeededIdentity`: once the latch is set, the seeding is the identity.

There is one step lemma per action (`ExtRegisterIInv`, `ConstructIInv`, `ProxySetIInv`). `NextIInv` combines them, and each theorem ends `BY ..., PTL DEF Spec`.

The same module proves `DispatchByRole`: `Spec => []EntryMatchesRole`. `EntryMatchesRole` alone is not inductive, since a proxy set adds the proxy's own type to its instance's entries, so the invariant is `RoleInv == IInv /\ ProxyRole /\ EntryMatchesRole`. `ProxyRole` says every filed proxy's type is one its instance's role admits. `BuildDbRoles` shows both constructor branches file such proxies; a construction resets the entries of its board's instances (`ConstructRoles`); a set enters through an admitted type (`ProxySetRoles`).

`DboardContractProofs` proves, under the same assumptions (`ManagerAssumption` includes `NoProxy \notin Proxy`, so that an empty slot is never a proxy record):
- `XcvrAliasing`: `Spec => []TransceiverCoherent`;
- `SplitIsolation`: `Spec => []SeparateCtorsIsolated`;
- `Refinement`: `Spec => ImplementsContract`, i.e. `DboardManager` implements `DboardManagerContract`.

These rest on `MInv == IInv /\ ProxyShape /\ SharedBothSides /\ SplitTracks`. The aliasing properties speak of driver states, but a set writes the instance a proxy holds, so the invariant must say which instances the proxies hold:
- `ProxyShape`: a filed proxy of (m, d, n) holds instance `<<m, kind, n>>`, kind `"xcvr"` when the constructors are equal and `"rx"`/`"tx"` otherwise, with direction d;
- `SharedBothSides`: with equal constructors a name is filed on both sides or on neither;
- `SplitTracks`: with different constructors every filed proxy's driver state is exactly what was last written through it.

Lemmas give the shape of `BuildDb` (`BuildDbShape`, `BuildDbSharedSides`) and of a proxy set (`ProxySetShape`). `NextMInv` is the step lemma. The refinement mapping is `BuiltView` (the construction succeeded), `SharedView` (constructors equal, line 149), `SubdevView` (the filed names, lines 195-201) and `BoardView` (the driver state seen through a filed proxy, V0 elsewhere). `InitRefines` maps the initial state; `ConstructRefines` maps a successful construction to `CBuild` (a throw to a stutter); `ProxySetRefines` maps a set to `CSet`, where extensionality over the three levels of `board` shows that exactly the proxied entry, and for a shared manager its twin, change. TLC checks the same property on one motherboard, and the mutant that keeps the old driver states on a rebuild breaks it.

`MultiUsrpProofs` proves `FacadeTypeCorrect`: `Spec => []TypeOK` for `MultiUsrp`, under `FacadeAssumption`. The assumption now also says that `Rates`, `Antennas` and `ClockVals` are nonempty, since `Init` picks each node's starting value from them. The proof has one lemma per setter. None of them needs to know what the resolver computes. A rate write puts `CoerceRate[r]` wherever `WrittenDsps` says. An antenna write is an `EXCEPT` at whatever entry the spec names, and an `EXCEPT` at an index outside the domain changes nothing.

`TimeSyncProofs` proves the four invariants of the `time_sync` run, and one action property, for every number of boards, every set of boards with PPS, every offset and phase, and every timing that satisfies the hypothesis named with each theorem:
- `TimeSyncTypeCorrect`: `Spec => []TypeOK`, with no hypothesis;
- `PpsNeverTimesOut`: `NoStaleTiming => (Spec => []NoSpuriousTimeout)`;
- `AlignedOnReturn`: `SyncTiming => (Spec => []SyncedOnReturn)`;
- `VerifyJudgesExactly`: `VerifyTiming => (Spec => []VerifyExact)`;
- `SettledAfterWake`: `SyncTiming => (Spec => ClocksSettled)`. `ClocksSettled` is `[][PostWake => UNCHANGED <<off, armed>>]_vars`: from the wake on, no clock moves and nothing pending latches. No run checks it. Time stops at return in the model, so no mutant of the code can break it within a run.

The hypotheses are the code's own timing, stated as relations between the constants:
- `NoStaleTiming`: no stale pending value, and `PpsTimeout + 1 >= PpsPeriod + 2 * MaxGap`. The 1.1 s timeout leaves room for one period plus two host gaps. `time_sync_stale_arm` shows why the first half is needed.
- `SyncTiming`: no stale value, `(NumMboards + 2) * MaxGap <= PpsPeriod` (the arm loop fits in one period) and `SettleTime >= PpsPeriod` (the 1 s sleep of line 207 lasts a period).
- `VerifyTiming`: `SyncTiming /\ MaxGap <= SyncTol`. One host gap is within the 10 ms tolerance, which the comment at line 213 assumes ("greater than RTT").

The run's constants (period 100, timeout 110, sleep 100, gap 1, tolerance 1, two boards) satisfy all three.

The inductive invariants:
- `TInv`: `TypeOK` plus `KInv`, the loop index in range at each access.
- `EdgeInv`, for `NoSpuriousTimeout`. Before arming, with PPS on board 0, `lastPps - off[0]` is the latest edge. That edge has the form `phase + j * PpsPeriod` and is less than a period behind `t`, and each host read is tied to the real time it was taken at. Edges are stated through the quotient `j` and not through `%`, because the SMT backend does not prove the usual facts about `%`. The only fact about `%` that is used is `ModUnique`, uniqueness of the remainder. `EdgeIff`, proved from it, says when the next tick is an edge.
- `ClockInv`: the same edge fact at every pc.
- `SyncInv`, for `SyncedOnReturn`:
  - the poll loop sees the edge within two gaps;
  - the arm loop has armed boards `0 .. k-1` since that edge;
  - the sleep starts before the next edge and ends after it;
  - from the wake on, `PpsDone` holds: every board with PPS has latched and agrees with board 0.
- `NoPpsInv`: without PPS on board 0 the procedure never leaves the poll loop.
- `VerifyInv`, for `VerifyExact`. Boards `1 .. k-1` are judged, and `time0` is board 0's clock `gap` ticks before now. `DeviatesExact` proves the deviation test exact once `MaxGap <= SyncTol`. `StableAfterWake` proves that no clock moves during the verify and query loops.

`TimeSyncRefinement` proves `SyncRefinement`: `RefTiming => (Spec => ImplementsSyncContract)`, where `RefTiming` is `VerifyTiming /\ NoStaleTiming`, all three hypotheses above. The argument is step by step. `InitRefines` maps the initial state to `CInit`. The invariant is `RefInv`, the conjunction of `TInv`, `EdgeInv`, `ClockInv`, `SyncInv`, `NoPpsInv` and `VerifyInv`, and the mapping uses it in the state before a step and in the state after it.
- `TickRefines`: a tick before the wake is `CDrift`, because a latch needs the PPS (`TickNoPps`). From the wake on, it is a stutter, by `StableAfterWake`.
- `HostRefines` has one case per host action. Every access leaves `ppsOn` and `off` alone (`HostFixesClocks`). Most accesses keep the stage, verdict and answer, and so are stutters (`HostStutter`).
  - The timeout is `CFail`. `EdgeInv` in the next state says board 0 has no PPS.
  - `Wake` is `CSettle`. `NoPpsInv` says board 0 has PPS at the sleep, and `SyncInv` then gives `PpsDone` after the wake.
  - The last `VerifyI` turn is `CVerdict`, with `warned` as the witness, by `VerifyInv` at `query0`.
  - Each return of the query is `CAnswer` (`ReturnAnswers`), by the last two conjuncts of `VerifyInv`.

Writing these proofs changed one definition. `QueryI` was a `CASE` whose guards overlapped; TLA+ gives such a `CASE` a `CHOOSE` meaning that TLC does not reproduce. It is now the `IF` chain of lines 224-229, and the run's results did not change. `TimeSyncAssumption` also says that `None` is neither an integer nor a Boolean, so the "no answer yet" of `synced` differs from both answers.

Only model-checked:
- `ResolverMatchesLayout` and `AntennaSetReachesSubdev` of `MultiUsrp`. Each rests on what the recursive functions `ChanToMcp` and `NumChannels` compute for every spec size. That needs induction over the boards, and the provers cannot instantiate the library's induction theorems.
- Liveness (`Terminates`): TLAPS does not handle fairness and ENABLED here.

## 6. Not modelled

- the wax property-tree library (not in src/);
- concrete daughterboard drivers, the device and transport layer, tuning and gain groups (not in src/, excluded by the spec);
- `set_time_now`;
- frequency, gain, bandwidth and sensor accessors, which delegate to excluded collaborators or repeat the antenna pattern;
- the read-only getters and name listings, except where a property reads them (`Seen`, `AntennaOf`);
- formatting and the warning messages.

## 7. Plan for further work

- **Proofs.** Prove the resolver's per-board facts for fixed `NumMboards`, by unfolding `ChanToMcp` a fixed number of times.
- **Refinement.** `DifferentIdsIsolated` fails (finding 2), so the contract speaks of constructor equality; a contract keyed by ids would record the departure. Write an abstract registry of per-id entries and show where the concrete one departs from it (finding 1).
- **Model extensions.** Add the bandwidth setters, `set_time_now`, and `issue_stream_cmd` fan-out properties. Add a motherboard that is replaced while its old proxies are still in use.
