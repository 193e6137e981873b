# A TLA+ development of solana-nova-sniper

solana-nova-sniper is a bot that watches a gRPC stream of Solana transactions
for new token launches, filters them, and buys with one of a pool of wallets,
through Jito bundles first and plain RPC if those fail. This directory models its
concurrent core, its detector and filters, and its exit strategy in TLA+, model-checks
them with TLC, and proves their main properties with TLAPS.

Paths below are relative to the root of the repository's copy: `src/src/` holds
the Rust sources, `src/README.md` and `src/config.example.toml` the documents.

## The system

    Geyser gRPC -> listener task --mpsc(1024)--> event loop --semaphore--> snipe task (one per launch)
                   (detector)                    (main)                     prefilter, facts, evaluate
                                                   ^                        WalletPool::acquire -> guard
                                              ctrl-c / SIGTERM              Executor::buy -> block engine, RPC node
                                                                            (PositionState: integration hook)

| part | source | state | operations | hard behaviour | what makes it correct |
|---|---|---|---|---|---|
| wallet pool | `wallet.rs` | atomic cursor, busy flags behind a lock, one guard per lease | `acquire` (three strategies), `mark_busy`, guard drop | callers interleave; two strategies lease without looking at the flag; the cursor wraps | exclusive leases under FirstAvailable, no flag left set, honest denials, even rotation |
| event loop, snipe tasks | `main.rs` | channel, semaphore permits, the tasks and what they own | `select!`, spawn, `handle_launch`, exit | permits and guards released on every path and on abort; the loop awaits a permit without polling the signal; exit without join | permits conserved, wallets returned, stop on signal, nothing unread at the end of the stream |
| executor | `executor.rs` | retry counter, last signed transaction | `buy`, `submit_bundle`, `submit_direct`, `pick_tip_account` | lost and late answers, retries that sign anew, fallback after ambiguous failures, cancellation at an await | what is reported is real, a second payment needs a lost answer, the fallback is last, buy returns |
| exit strategy | `strategy.rs` | peak, remaining share, fired rungs, armed flag | `open`, `on_tick` | price gaps over several rungs, unsorted ladders, order of the checks, fraction conversions | each rung sells once, no due exit is missed, the caller's tokens agree with `remaining` |
| listener | `listener.rs` | attempt counter, launches waiting to be sent | `start`, `run_once`, `backoff_for` | streams that break anywhere, backpressure, a consumer that goes away | order kept, nothing read is lost, always reconnects |
| detector | `detector.rs` | none (matchers) | `decode`, `extract_launches` (in `listener.rs`) | accounts by position, borsh strings cut short | launches decoded to the right accounts |
| filter engine | `filters.rs` | none (compiled rules) | `prefilter`, `evaluate` | default facts against thresholds, absent names | rejects exactly what is configured |
| configuration | `config.rs` | none | `from_path`, `validate` | what validation does not look at | the assumptions of the other parts hold |
| Jupiter helpers | `executor.rs` | none | `jupiter_quote`, `submit_signed_tx` | called by nothing | - |
| library root, benchmarks | `lib.rs`, `benches/` | none | re-exports, bench inputs | - | - |

The listener owns the sender of the channel and the event loop its receiver. The
loop takes one message at a time, waits for a permit of the semaphore, and spawns
a task that owns the launch and the permit. The task runs the filters, leases a
wallet, buys, and drops the wallet's guard and then the permit. Cancelling a task
(the runtime does so once `main` has returned) drops what it owns in the same
order. `PositionState` is called by nothing but its tests and the benchmarks: `main.rs`
leaves a TODO where a strategy task would drive it.

`PROJECT.json` lists the hazards of this code, each at its line with the
properties that watch it, and maps each definition to the lines it models.

## Modules

| module | models | composed of |
|---|---|---|
| `WalletPool` | `WalletPool` and `WalletGuard` | - |
| `WalletRotation` | the same with the history of the round-robin picks | extends `WalletPool` |
| `Sniper` | `main()` and `handle_launch` with channel, semaphore and pool | instantiates `WalletPool`, with launches as tasks |
| `Executor` | one call of `Executor::buy` and the servers it talks to | - |
| `Listener` | the task of `Listener::start`, the chain, the consumer | - |
| `PositionState` | `PositionState::open` and `on_tick`, and the section `Config::validate` lets through | - |
| `Detector` | the decoders, `extract_launches`, the subscription and the server's filter (operators) | - |
| `Filters` | `FilterEngine::prefilter` and `evaluate` (operators) | - |
| `Screening` | a transaction on its way from the chain to a verdict | instantiates `Detector` and `Filters` |
| `Feed` | abstract: the channel between listener and event loop | - |
| `SnipeService` | abstract: what the operator is promised | - |
| `BuyPromise` | abstract: what the caller of a buy is promised | - |
| `MC...` | concrete chains, transactions, rules and sections, symmetry sets | extend the above |
| `...Proofs` | theorems about the module of that name | extend it and `TLAPS` |
| `NaturalLemmas` | two lemmas on natural numbers that several proofs need | - |

### Abstract specifications

| property | says that | mapping |
|---|---|---|
| `Listener!FeedsTheLoop` | `Listener` implements `Feed` | the channel; an index into the chain for each launch |
| `Sniper!ReadsTheFeed` | `Sniper` implements `Feed` | the channel; what has left it |
| `Sniper!ServesTheOperator` | `Sniper` implements `SnipeService` | a spawned task is "running", the signal is `told`, the exit is `stopped` |
| `Executor!KeepsPromise` | `Executor` implements `BuyPromise` | accepted requests are `paid`, attempts whose answer was lost or told nothing `doubts` |

`Feed` stands between two models that were written apart. `Listener` implements it
with its own consumer, `Sniper` with its own environment, so what each of them assumes of
the other's side of the channel is within one contract. `SnipeService` has neither
channel nor semaphore nor wallets, and `BuyPromise` neither retries nor bundles nor a
fallback. Both state their liveness with `~>` and `<>`: a `WF` of theirs
would be a fairness condition on an abstract step under the mapping, which says no more and
costs TLC an `ENABLED` for every state.

Definitions whose comment starts with "Mutant:" belong to no specification. Each
is a form of the definition below it with a plausible bug in it, and
`PROJECT.json` names the property that notices.

### How states and actions correspond to the code

**WalletPool.** `cursor` is the `AtomicUsize`, `busy` the flags, and `phase`/`idx`
say where a task stands: `picked` (index chosen, lock not yet taken), `held` (it
owns a guard), `denied` (`acquire` returned `None`). An action is one atomic
access to shared state. RoundRobin and Random need two, the choice and
`MarkBusy`; FirstAvailable searches and marks under one lock, so
`TakeFirstAvailable` is one action. `Release` is the guard's drop and clears the
flag whoever else leases the wallet, as the code does. `CursorModulus` is the
2^w of the counter. `picks` and `handed` of `WalletRotation` are history: how often the
cursor was drawn, and how often it gave each wallet.

**Sniper.** `main` is the position of the event loop: `select` (the shutdown
future is polled next), `polling` (it was pending, the stream is polled next;
`biased` fixes this order), `awaiting` (a launch in hand, no permit), `exited`.
Between the two polls the signal may fire. `stage` follows one launch from
`new` through the channel (`queued`), the loop (`hand`) and the task (`spawned`,
`prefiltered`, `acquiring`, `buying`, `returning`, `done`). A verdict of the
filters and the end of a live buy are nondeterministic. `Abort` is the runtime
dropping a suspended task after `main` returned: one never polled, or one in a live
buy. A dry-run buy has no suspension point.

The pool's actions appear as `Pool!PickRoundRobin(l)` and so on, each conjoined with
what `handle_launch` does around it.

**Executor.** `pc` names the await or the step `buy` is at, `attempt` is the loop
variable, and `Direct` the value that stands for the fallback. A transaction is
its blockhash and its tip account, which decide its signature. The `wire` holds
requests that may yet be accepted, refused or lost, also after the client has
given up on them, which is what makes a timeout ambiguous. An answer can be ambiguous too.
A success whose body has neither "error" nor "result" (`Blank`) tells nothing of the bundle, and
`submit_bundle` reports it as submitted under the id "<unknown>": the outcome `BundleUnknown`. An
error status, or a body with an "error" (`null` included), is a failed attempt, though the request may have been
accepted: that is `AnswerLost`, together with the answers that never come or cannot be parsed. `unknown` records the
attempts given up without an answer that tells what became of the request. Actions `Accept`, `Refuse`, `Lose`,
`DropBundle` and `NewBlockhash` are the environment's.

**Listener.** `at` is the position of the task, `pending` what `extract_launches`
found in the current transaction and is not yet sent. The chain grows on its own
(`Produce`), and a subscription sees it from its tip on, so what happens between two
subscriptions is never seen. `attempt += 1` wraps in a release build and panics in
a debug build, and `Backoff` allows both at the last value.

**PositionState.** `action` and `tick` are the last answer of `on_tick` and what it
answers; `held` belongs to the caller, who sells the fraction it is told to of
what it holds. `on_tick` runs its checks in order and returns at the first that
sells: each action's guard is its own condition with the negation of the earlier
ones. Multipliers stand as prices, shares as integer percentages. `cfg` is the
`[strategy]` section the bot was started with: any of `Candidates` that passes
`Validates`, the checks that `Config::validate` makes of it. These checks leave the trailing stop
and the hold alone, and so does `PositionAssumption`, which states the types of the
fields only.

**Detector.** An index of an instruction is the account it stands for, and a transaction says
which accounts are in the message (`static`) and which come from a lookup table (`loaded`).
`extract_launches` resolves against the message only, so `Resolve` is a selection by membership in
`static`: what is left out makes the later accounts move up, as the
`filter_map` does. `SelectAt` is the `filter_map` itself, the items at a set of positions in
their order, and `Collect` uses it again for the events of the instructions. An inner instruction whose program is not in the message is missed. Instruction
data is the outcome of comparing its discriminator and a sequence of Borsh fields, each
of which reads as a text or not; a field that does not read leaves the cursor where
it was. Message and meta are always there, and the `uri`, which nothing reads, is left out.
`Matches`, the server's filter, is external: it is the one of the Yellowstone documentation that
`run_once` relies on.

**Filters.** A regex is the set of texts it matches. `None` is what it is in the code: an
absent name or symbol passes every pattern, and `FactsOrDefault` is the
`unwrap_or_default` of `handle_launch`.

**Screening.** One action for the server, one for the listener (`Read`), and three for
`handle_launch`: `Prefilter`, `FetchFacts`, `Evaluate`. Each instruction of a transaction
carries the launch it `makes`, so that a property can compare the bot's view of a launch with the
chain's: `Creates` is the set of them, `Made` the sequence the bot should report. What the chain
itself guarantees is `ChainAssumption`: instructions name accounts the transaction lists or loads, a
create instruction is laid out as the venue's program lays it out (`LaidOut`), and the mint of a Pump.fun launch, which signs, is
never loaded from a table. The layout of Pump.fun is that of the comments in `decode_pumpfun`. LaunchLab's
"varies by pool type" (`detector.rs:180`) and is left open: pool, mint and creator are among the accounts, anywhere,
and `MCScreening` has launches of two layouts, of which `decode_raydium` reads one wrongly. `fetch_launch_facts` is a stub that returns `None`; `Enrichment` stands for what the
integration of `README.md:192` may return, `None` among it.

## Runs

| run | instance | shows |
|---|---|---|
| `pool` | 4 tasks, 3 wallets, a 2-bit cursor, 12 round-robin picks, all strategies | `ExclusiveLease`, `NoUnmarkedLease`, `NoLeakedWallet`, `BalancedRotation`, `DeniedOnlyWhenExhausted` |
| `sniper_safety` | 3 launches, 2 wallets, channel of 2, limits 0, 2, 3, both modes, all strategies | every invariant of `Sniper`, `SkipOnlyWhenAllBuying`, `ReadsTheFeed` |
| `sniper_liveness` | 2 launches, 1 wallet, channel of 1, limits 0 and 2 | `LaunchesAreHandled`, `ServesTheOperator` |
| `executor` | 2 retries, 3 tip accounts of which 2 parse, 2 blockhashes | the safety invariants of `Executor` and `KeepsPromise` |
| `executor_fallback` | 1 retry | finding: the fallback after a lost answer |
| `listener` | 3 transactions with 2, 0 and 1 launches, channel of 2, a counter modulo 9 | `InChainOrder`, `ReadIsDelivered`, `FeedsTheLoop`, `ReconnectsBackOff`, `KeepsReconnecting` |
| `listener_dropped` | the same chain, a counter modulo 3 | finding: the task does not stop |
| `position` | 13 sections of which 7 are valid, 10 prices, 5 times | every property of `PositionState` but `ClosedMeansSold` |
| `position_closed` | one section with one rung | finding: tokens left in a closed position |
| `screening` | about a hundred transactions, 12 rulesets, 6 answers of the enrichment, every choice of venues | `ReportsTheLaunchesMade`, `MetadataIsOwn`, `AcceptedIsAllowed`, `UnenrichedNeedsNoCheck` |
| `screening_lookup` | the same | finding: the wrong creator |
| `screening_required` | the same | finding: a launch withheld |

The passing runs that check invariants also check the type invariant of their module.

Why these bounds are enough for the interesting cases:

- *Pool*: four tasks on three wallets lets FirstAvailable deny, lets two tasks hold
  one wallet under the other strategies while a third takes it up again. The
  modulus of the cursor is no multiple of the number of wallets, as 2^64 is none of
  3, so the rotation restarts in mid-round; twelve picks wrap a 2-bit cursor three
  times.
- *Sniper*: limit 0 exercises `.max(1)`, limit 2 is covered by the pool, limit 3 is
  more than the two wallets, so launches are skipped. Three launches fill a
  channel of two and leave one in hand. The liveness run's channel of one is
  full while the loop waits for its only permit.
- *Executor*: two retries give a first, a middle and a last attempt. Two
  blockhashes and two accounts that parse let a retry sign the same
  transaction as before or another; the third account does not parse.
- *Listener*: a transaction with two launches and a channel of two lets the receiver
  go away with one launch sent and one waiting. Nine attempts pass the cap at six
  and wrap.
- *PositionState*: the prices lie below, at and above each threshold, and one price
  jumps over every rung. The times lie before the entry, one second before, at and after the
  end of `max_hold_seconds`. One ladder sells everything, one is unsorted with two
  rungs at one price and a rest of 10 %, one is empty. Four more sections have values that
  nothing refuses: a negative activation, one beyond every price, a drawdown of 0 and
  of 120 %, a hold of zero. The six that are refused fail one check each. The state space is finite
  without a bound on the number of ticks.
- *Screening*: launches of both venues by the message and below a wrapper, two in one
  transaction, trades, an instruction that names a program without calling it, a name and a symbol that do not
  read, a failed transaction. Each is combined with no lookup table, one that shifts the accounts by
  one, one that leaves too few of them, one with the pool, and one with the
  program. Each rule is tried alone, deny against allow, and the shipped section
  as a whole; the facts lie at each threshold and just past it.

Deadlock is checked in `position` and `position_closed`. The other configurations switch it off since
those systems really stop: a bot that has exited, a buy that has returned, a
listener that has panicked, a transaction whose launches all have a verdict, a
rotation that has used up its `MaxPicks`.

### Fairness

`Sniper!FairSpec` is weakly fair to the event loop and to every snipe task: the
runtime polls a task that is ready, and every await of a buy ends by itself. The HTTP
client has a timeout of five seconds, `RpcClient` has one of its own, and the
sleep between attempts has a fixed length. Nothing is assumed of the listener, of the
signal, or of `Abort`. `Executor!FairSpec` is weakly fair to the steps of `buy` for the
same reason, and assumes nothing of servers and network: `AnswerLost`, the
timeout, is always possible. `Listener!FairSpec` is fair to the task
except while it reads the stream, which may stay silent for ever, and to the consumer, since the event loop keeps taking messages
(`sniper_liveness` shows that of the loop). Weak
fairness is enough everywhere: a permit is taken by the loop only, a place in the channel by
its one sender only, and a task that may lease a wallet may be denied one
otherwise, so that no other actor disables the step a process waits to take.

### Findings

Each is a disagreement of the code with its documentation, shown by the run that
violates the documented property.

1. `DropTerminates`: the doc of `Listener::start` says dropping the stream
   "terminates the listener task"; the task reconnects for ever.
2. `FallbackOnlyIfDropped`: `README.md:29-30` has the fallback happen "if all bundle attempts
   are dropped"; it also happens while a bundle whose answer was lost stands
   accepted, and both may land.
3. `ClosedMeansSold`: `strategy.rs:10` says a `Sell` is of the *remaining*
   position, and rungs are converted to that. The stop-loss, the trailing stop and
   max-hold return the share of the *original* position, so that after a rung of 40 %
   a stop-loss sells 60 % of the 60 % that are left and keeps 24 % of the position in a
   closed state machine.
4. `CreatorIsTheUser`: `detector.rs:84-85` says `decode` gets the ordered accounts
   of the instruction, of which the eighth is the creator of a Pump.fun launch (lines 152-154). With an account loaded
   through a lookup table the list has a gap that is closed up, and the system program
   is reported as the creator, to which the dev lists are then applied.
5. `WithheldHasNoLaunch`: `detector.rs:72-73` says the watched ids narrow the
   subscription. Under `account_required` a transaction must name all of them, so that
   with both venues enabled a launch of either alone is not delivered. With both
   disabled nothing is required and every transaction is.

Met while modelling, without a run of their own:

- `README.md:194-196` says that until facts are fetched "all threshold filters see default (zero)
  facts and will reject". `max_supply` accepts a supply of zero, and a threshold of 0 is off;
  `UnenrichedNeedsNoCheck` states which rules do reject.
- `config.example.toml:87` calls the name patterns case-insensitive. They are so only when they
  say `(?i)`, as the two shipped ones do.
- `main` returns without joining its tasks (`README.md:70`: "graceful shutdown"): a live
  buy that may have been submitted is cut off and its outcome not logged. `Abort` of
  `Sniper` and the report "cancelled" of `Executor` are this case.
- `config.example.toml:39` calls `max_bundle_retries` the "retry attempts if a bundle is
  dropped"; only a failed submission is retried, never a bundle dropped after it was accepted.
- Nothing watches a bundle once it is submitted: one that the block engine accepts and then drops is
  neither noticed nor bought again (`DropBundle` of `Executor`).
- `executor.rs:25` documents `BundleSubmitted` as "Bundle accepted by Jito block engine". Lines 165-169 also return it, with
  the id "<unknown>", for a success body without a result. `ReportIsReal` is therefore about the
  reports that name a bundle, and those of the RPC node.
- `detector.rs:180` says the layout of LaunchLab varies by pool type, and lines 183-185 read pool, mint and creator from
  the same places of each, which is what the dev lists are applied to.
- Every comparison of `validate` is false for a NaN, which TOML can write.
- Launches of inner instructions are reported after those of the message, whatever the order of
  execution.
- The release profile has `panic = "abort"` and no overflow checks: there the listener's
  counter wraps. Only a debug build panics at `attempt += 1`.

## Proofs

All theorems hold for every value of the constants that satisfies the named
assumptions of the module, and assume nothing else. The assumptions are what
`Config::validate` enforces or what the types give: at least one wallet
(`PoolAssumption`), a channel of positive capacity and a finite set of launches
(`SniperAssumption`), a tip account (`ExecutorAssumption`), a channel and a counter of positive size
(`ListenerAssumption`), fields of the right types
(`PositionAssumption`; that a ladder is valid is a result of `Validates`, the lemma
`ValidRung`), different program ids and thresholds that are numbers (`ScreeningAssumption`). `SniperAssumption` has no
lower bound on the limits: zero is allowed, as in the code. Only `ChainAssumption` speaks of something that is not the
bot's: the Solana runtime and the programs of the two venues.

Every invariant and every action property that a passing run checks is the statement of a theorem. So are
the refinements, down to their safety parts:

| refinement | theorem |
|---|---|
| `WalletRotation` implements `WalletPool` | `RotationIsThePool` |
| `Sniper` implements `WalletPool`, with launches as the tasks | `PoolIsImplemented` |
| `Listener` implements `Feed` | `Feeding` |
| `Sniper` implements `Feed` | `Reading` |
| `Sniper` implements `SnipeService!Safety` | `ServiceIsSafe` |
| `Executor` implements `BuyPromise!Safety` | `PromiseIsSafe` |

**WalletPoolProofs.** `TypeCorrect`, `LeakFreedom` and, for FirstAvailable,
`Exclusion`, `FlagsCoverGuards` and the action property `DenialIsHonest`.
`ExclusiveLease` is not inductive: in a state where a guard's wallet is not
marked, the next search would lease it again. The invariant adds that every held
wallet is marked, and that FirstAvailable never has a task in `picked`, which is
the one critical section at work.
The proofs are split by what a step does to the flags. `TypeCorrect` tells the steps that leave them alone
from the writes under the lock. `LeakFreedom` rests on `HolderStays` (a marked wallet keeps its holder unless that holder drops
it) and `FlagHasGuard` (a flag is set together with a guard). `SearchOrDrop` says that under FirstAvailable there are only searches and
drops, and `SearchKeepsLeases` and `DropKeepsLeases` treat the two.

**WalletRotationProofs.** `BalancedRotation` does not say where the cursor stands, so a pick may break it.
`RotationInv` does: the cursor is `picks % CursorModulus`, and with `Share(w, n)` the number of
times wallet w comes up in the first n values of a fresh cursor,
`handed[v] - handed[w] <= Wraps + Share(v, cursor) - Share(w, cursor)`. A pick adds one to a count and to
the same share. A wrap sets the shares back to zero, and they differ by at most one, which is what `Wraps`
gains. The argument needs neither that the modulus is a power of two nor how it relates to the pool.

**SniperProofs.** `SniperInv` is the types without the upper bound on `permits`
(`BaseType`), the agreement of the channel with the stages (`QueueInv`: a launch is
in the channel once exactly if it is `queued`, and at most one is in the loop's
hand), the state of a loop that ended with the stream (`EndInv`),
`PermitsConserved`, `LateInv` and `LeaseOnlyWhileBuying`. The bound on `permits` follows
from their conservation, and so `TypeCorrect` comes after it. `QueueInv` is needed
because a permit is only taken for the launch in hand, and because the drained stream is a
statement about stages while the code sees a channel. `LateInv` says that after a
late snipe the loop is about to look at the signal or has exited. Theorems:
`PermitConservation`, `TypeCorrect`, `LeaseEndsWithTheBuy`, `LateSnipes`,
`StreamIsDrained`.

`PoolIsImplemented` shows that every step of the bot is a step of the pool or leaves it alone, and
so the theorems of `WalletPoolProofs`, instantiated with launches as tasks, hold in the bot.
`BuysAreExclusive` gains from it: under FirstAvailable no wallet pays for two launches at once. So
does `SkipsAreHonest`: a wallet that is marked has a guard, a guard has a buy
(`LeaseOnlyWhileBuying`), and no buy has two wallets, so that there are as many buys as wallets.
With `PermitsConserved`, so many buys would hold more permits than the task that is denied leaves
for them, which is `PoolCovers`. `SerialFlags` shows that with a single permit no wallet is leased twice, since
two leases would be two buys and so two permits, and adds `MarkedInv`: nobody else
can clear the flag of a running buy. `Reading` maps the launches that left the channel to those the
feed's receiver has taken, and needs `QueueInv` to know that none is sent twice. `ServiceIsSafe`
maps a task to running work for as long as it holds its permit: that a begun snipe finds a free slot
is `PermitsConserved`, and that the grace of one suffices is `LateInv`.

**ExecutorProofs.** Even the types need more than themselves: `Retry` must not
count past `Direct`, which it does not because a failure of the direct send returns.
`LoopInv` adds that every earlier attempt has failed, and gives `TypeCorrect` and
`LastResort`. `ReportsAreReal` needs to know whose answer is read: `WireInv` says that a
request still under way belongs to an earlier attempt or is the transaction signed last. `BlankInv` says that an answer
without a name never reaches the direct send, whose report is thus a named one.
`DoubleBuysAreExplained` counts: accepted requests and those on the wire
together are at most the attempts without an answer that tells plus one slot for the
current attempt (`CountInv`). The property alone is not inductive, for it ignores what is
still under way. `SimulationIsSilent` follows from a dry run's two program points.
`PromiseIsSafe` joins all of these in `PromiseInv`, with the outcome of every program point
(`OutcomeInv`): a payment the promise allows is one that `CountInv` has left a slot or a doubt for.

**PositionStateProofs.** `TypeCorrect` shows that the fractions stay in (0, 1] and that the
caller's holdings never go below zero. `OverdueExits` and `TrailingExits` hold after
each tick because of the order of the checks. `RungsAreInOrder` is inductive
by itself: a rung fires only if no earlier one is reached and unfired.
`HoldingsAreFollowed` rests on the lemma `KeptShare`, that selling n parts of d keeps
100 * (d - n) of 100 * d. `LadderIsAccounted` rests on `SellPctGrows`: the sum over the fired rungs, taken in the
order of the ladder as the code's iterator takes it, grows by the rung that fires next, wherever that stands.
`Shrinking` is the action property.

**ListenerProofs.** `InChainOrder` speaks of what the loop has, the channel and `pending` together. Its invariant
(`OrderInv`) says of each of the three that it is in order, of each pair that the
first is ahead of the second, and of all that none is newer than the
`cursor`, which is what makes the next transaction fit behind them. `NoneIsLost` needs `ReadInv`, the same
statement on the sets of the three parts, since a send moves a launch from one to the next. `ReconnectsAreDelayed` goes
through the actions: each end of `run_once` counts (`BackoffCounts`), a counted attempt doubles the delay or leaves it at the
cap (`NextBackoff`), and nothing else touches the counter. `Feeding` adds `PendingInv`, that everything waiting comes from the chain, and maps the
reports of a broken stream to the one `Notice` of the feed.

**ScreeningProofs.** `TypeCorrect` says that the decoders return well-formed launch events. The other four theorems follow from
`ReadInv` (what the bot has is `Extract` of this transaction, which has not failed) and `VerdictInv` (what was accepted passed
`Evaluate` with the facts it still has). The work is in the lemmas between them and the properties.
`PositionIsKept`, `SelectAll` and `SelectFirst` say what a selection of positions keeps in place: all accounts
of a transaction without lookup tables, and the mint of any. `TextsRead`, `PumpfunDecoded`, `RaydiumDecoded` and
`InstructionDecoded` say what each decoder makes of an instruction that is `LaidOut`. `Extracted` and
`LegacyReport` put the instructions together: one event for each launch, at the same place of the sequence.

**Induction.** What a sum or a selection over a sequence of any length computes is shown without the library's induction
theorems, whose operator parameters no prover here can instantiate. `LeastNumber` of `NaturalLemmas` says that a
nonempty set of numbers has a least element, and a proof by induction becomes one by the least counterexample: the set of
numbers that violate the claim is named, and its least element refutes itself. The sums are recursive
functions and the selections have a closed form (`Position` counts the positions up to one), for what
is recursive as an operator is out of the provers' reach.

## What is only model-checked

Liveness: `LaunchesAreHandled` and `KeepsReconnecting`, and what `ServesTheOperator` and `KeepsPromise` say beyond `Safety`.
Fairness and `ENABLED` are beyond the prover. The five documented properties that the code violates are
shown violated by TLC.

## What is not modelled

- Rounding of `f64`. With integer percentages a ladder that sums to 100 closes the
  position exactly; with doubles a residue above `EPSILON` may remain.
- The composition of `Screening` with `Listener` and `Sniper`: `Sniper` chooses the
  verdicts, `Listener` the number of launches in a transaction. Neither depends on a
  channel, a permit or another launch.
- Of the detector, transactions without message or meta and indices out of range of both lists: they are
  skipped like an index that does not resolve. Of the filters, the text of a rejection and
  the compilation of patterns, which fails at start.
- A connection that delivers neither items nor errors: the listener reads without a timeout, and
  nothing in the code would make a liveness property of it true.
- `Config::validate`'s checks of wallets, sizing and tip accounts: they are assumptions
  of the modules they protect.
- The instructions of the venue builders, which are stubs in the code; the Jupiter helpers,
  which nothing calls; the benchmarks.
- TOML parsing, reading of key files, logging, argument parsing.
- Which accounts of a LaunchLab instruction are its mint, creator and pool: the repository does not say, and no property
  promises that the detector picks the right ones.
- Instructions after which a task may be preempted without a visible effect:
  between two accesses to shared state a task's own computation is one step.

## Plan

Done: the pool and its rotation, the event loop with its tasks, the executor, the exit
strategy with the validation of its section, the listener, the detector and the filters, the abstract
specifications and their refinements, and theorems for every safety property that is checked and for the
safety part of every refinement. What is left:

1. The non-temporal half of the liveness properties: what each step brings closer (a measure that
   falls with every step of a buy, a task and the loop), leaving to fairness only that the step is taken.
2. The composition of `Screening` with `Sniper`: that the verdicts `Sniper` chooses freely include those of the rules.
