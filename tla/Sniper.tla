------------------------------- MODULE Sniper -------------------------------
(***************************************************************************)
(* The event loop of src/main.rs with everything it shares with the snipe  *)
(* tasks: the bounded channel the listener fills, the semaphore that caps  *)
(* concurrent snipes, the wallet pool, and the shutdown signal.            *)
(*                                                                         *)
(* The loop is one task and every accepted launch becomes another, which   *)
(* runs handle_launch with a permit in hand.  The module composes the      *)
(* pool's actions (WalletPool) with the launch that takes them.  What a    *)
(* filter decides and how a live buy ends is chosen nondeterministically;  *)
(* module Executor looks inside the buy.                                   *)
(***************************************************************************)
EXTENDS Integers, Sequences, FiniteSets

CONSTANTS
  Launches,             \* the launches the listener decodes
  Reconnecting,         \* the other message of the channel
  ChannelCap,           \* capacity of the mpsc channel
  Limits,               \* values of runtime.max_concurrent_snipes, 0 allowed
  NumWallets, CursorModulus  \* see WalletPool

ASSUME SniperAssumption ==
  /\ IsFiniteSet(Launches)
  /\ Reconnecting \notin Launches
  /\ ChannelCap \in Nat \ {0}
  /\ Limits \subseteq Nat
  /\ NumWallets \in Nat \ {0}
  /\ CursorModulus \in Nat \ {0}

VARIABLES
  limit,      \* runtime.max_concurrent_snipes, read once
  mode,       \* ExecutionMode, likewise
  channel,    \* messages sent and not yet received
  listening,  \* the listener task still holds its sender
  shutdown,   \* the shutdown signal has fired
  main,       \* where the event loop stands
  permits,    \* permits left in the semaphore
  stage,      \* where each launch stands
  outcome,    \* how its handling ended
  late,       \* history: tasks spawned since the signal fired
  strategy, cursor, busy, phase, idx  \* the wallet pool

Pool == INSTANCE WalletPool WITH Tasks <- Launches

config == <<limit, mode>>
loopVars == <<channel, listening, shutdown, main, late>>
poolVars == <<strategy, cursor, busy, phase, idx>>
vars == <<config, loopVars, permits, stage, outcome, poolVars>>

\* Mutant: the limit is taken as configured.
PermitsAsConfigured == limit

\* Semaphore::new(max_concurrent_snipes.max(1))
Permits == IF limit < 1 THEN 1 ELSE limit

\* "select": about to poll the shutdown future; "polling": it was pending and
\* the stream is polled next; "awaiting": a launch in hand, no permit yet.
LoopStates == {"select", "polling", "awaiting", "exited"}

Stages == {"new", "queued", "hand", "spawned", "prefiltered", "acquiring",
           "buying", "returning", "done"}

Outcomes == {"none", "filtered", "skipped", "submitted", "dropped",
             "simulated", "aborted"}

\* The stages in which the task of a launch owns a permit.
Running == {"spawned", "prefiltered", "acquiring", "buying", "returning"}
Holders == {l \in Launches : stage[l] \in Running}

TypeOK ==
  /\ limit \in Limits
  /\ mode \in {"Live", "DryRun"}
  /\ channel \in Seq(Launches \cup {Reconnecting})
  /\ Len(channel) <= ChannelCap
  /\ listening \in BOOLEAN
  /\ shutdown \in BOOLEAN
  /\ main \in LoopStates
  /\ permits \in 0 .. Permits
  /\ stage \in [Launches -> Stages]
  /\ outcome \in [Launches -> Outcomes]
  /\ late \in Nat
  /\ Pool!TypeOK

Init ==
  /\ limit \in Limits
  /\ mode \in {"Live", "DryRun"}
  /\ channel = <<>>
  /\ listening = TRUE
  /\ shutdown = FALSE
  /\ main = "select"
  /\ permits = Permits
  /\ stage = [l \in Launches |-> "new"]
  /\ outcome = [l \in Launches |-> "none"]
  /\ late = 0
  /\ Pool!Init

-----------------------------------------------------------------------------
\* The listener and the operating system.

\* Mutant: an unbounded channel.
PostUnbounded(m) == listening /\ channel' = Append(channel, m)

Post(m) ==
  /\ listening
  /\ Len(channel) < ChannelCap  \* send().await waits while the channel is full
  /\ channel' = Append(channel, m)

ListenerSend(l) ==
  /\ stage[l] = "new"
  /\ Post(l)
  /\ stage' = [stage EXCEPT ![l] = "queued"]
  /\ UNCHANGED <<config, listening, shutdown, main, permits, outcome, late, poolVars>>

ListenerReconnecting ==
  /\ Post(Reconnecting)
  /\ UNCHANGED <<config, listening, shutdown, main, permits, stage, outcome, late,
                 poolVars>>

\* The listener's loop has no exit: only a panic of its task drops the sender, in
\* a build that unwinds (the release profile aborts the process instead).
ListenerStops ==
  /\ listening
  /\ listening' = FALSE
  /\ UNCHANGED <<config, channel, shutdown, main, permits, stage, outcome, late,
                 poolVars>>

ShutdownSignal ==
  /\ ~shutdown
  /\ shutdown' = TRUE
  /\ UNCHANGED <<config, channel, listening, main, permits, stage, outcome, late,
                 poolVars>>

-----------------------------------------------------------------------------
\* The event loop.

\* Mutant: without biased the stream may be polled first.
PollEither ==
  /\ main = "select"
  /\ main' = "polling" \/ (shutdown /\ main' = "exited")
  /\ UNCHANGED <<config, channel, listening, shutdown, permits, stage, outcome, late,
                 poolVars>>

\* biased: the shutdown future is polled first, and ready means break.
PollShutdown ==
  /\ main = "select"
  /\ main' = IF shutdown THEN "exited" ELSE "polling"
  /\ UNCHANGED <<config, channel, listening, shutdown, permits, stage, outcome, late,
                 poolVars>>

\* Mutant: the message sent last is taken.
ReceiveNewest ==
  /\ main = "polling"
  /\ channel # <<>>
  /\ channel' = SubSeq(channel, 1, Len(channel) - 1)
  /\ LET m == channel[Len(channel)]
     IN  IF m = Reconnecting
           THEN main' = "select" /\ UNCHANGED stage
           ELSE main' = "awaiting" /\ stage' = [stage EXCEPT ![m] = "hand"]
  /\ UNCHANGED <<config, listening, shutdown, permits, outcome, late, poolVars>>

\* A launch goes on to the semaphore, a Reconnecting is only logged.
Receive ==
  /\ main = "polling"
  /\ channel # <<>>
  /\ channel' = Tail(channel)
  /\ IF Head(channel) = Reconnecting
       THEN main' = "select" /\ UNCHANGED stage
       ELSE main' = "awaiting" /\ stage' = [stage EXCEPT ![Head(channel)] = "hand"]
  /\ UNCHANGED <<config, listening, shutdown, permits, outcome, late, poolVars>>

\* Both branches pending: the loop sleeps and polls again when woken.
Park ==
  /\ main = "polling"
  /\ channel = <<>>
  /\ listening
  /\ main' = "select"
  /\ UNCHANGED <<config, channel, listening, shutdown, permits, stage, outcome, late,
                 poolVars>>

\* Mutant: the end of the stream overtakes what is still buffered.
StreamEndEarly ==
  /\ main = "polling" /\ ~listening /\ main' = "exited"
  /\ UNCHANGED <<config, channel, listening, shutdown, permits, stage, outcome, late,
                 poolVars>>

\* events.next() yields None once the sender is gone and the channel empty.
StreamEnd ==
  /\ main = "polling"
  /\ channel = <<>>
  /\ ~listening
  /\ main' = "exited"
  /\ UNCHANGED <<config, channel, listening, shutdown, permits, stage, outcome, late,
                 poolVars>>

\* Mutant: "let _ = permit" drops it at once.
TakeNoPermit == permits > 0 /\ UNCHANGED permits

TakePermit == permits > 0 /\ permits' = permits - 1

\* acquire_owned().await, then tokio::spawn; the signal is not polled here.
SpawnSnipe(l) ==
  /\ main = "awaiting"
  /\ stage[l] = "hand"
  /\ TakePermit
  /\ stage' = [stage EXCEPT ![l] = "spawned"]
  /\ late' = IF shutdown THEN late + 1 ELSE late
  /\ main' = "select"
  /\ UNCHANGED <<config, channel, listening, shutdown, outcome, poolVars>>

-----------------------------------------------------------------------------
\* handle_launch, in the task of launch l.

\* The task moves on to stage s, its handling ending with o if it does.
Advance(l, s, o) ==
  /\ stage' = [stage EXCEPT ![l] = s]
  /\ outcome' = [outcome EXCEPT ![l] = o]

Prefilter(l) ==
  /\ stage[l] = "spawned"
  /\ \/ Advance(l, "prefiltered", "none")
     \/ Advance(l, "returning", "filtered")
  /\ UNCHANGED <<config, loopVars, permits, poolVars>>

\* fetch_launch_facts, whose stub never suspends, and evaluate.
Evaluate(l) ==
  /\ stage[l] = "prefiltered"
  /\ \/ Advance(l, "acquiring", "none")
     \/ Advance(l, "returning", "filtered")
  /\ UNCHANGED <<config, loopVars, permits, poolVars>>

\* First half of acquire() under RoundRobin and Random.
PickWallet(l) ==
  /\ stage[l] = "acquiring"
  /\ Pool!PickRoundRobin(l) \/ Pool!PickRandom(l)
  /\ UNCHANGED <<config, loopVars, permits, stage, outcome>>

\* acquire() returns a guard and buy() starts.
StartBuy(l) ==
  /\ stage[l] = "acquiring"
  /\ Pool!MarkBusy(l) \/ Pool!TakeFirstAvailable(l)
  /\ Advance(l, "buying", "none")
  /\ UNCHANGED <<config, loopVars, permits>>

\* acquire() returns None and the launch is dropped.
Skip(l) ==
  /\ stage[l] = "acquiring"
  /\ Pool!Deny(l)
  /\ Advance(l, "returning", "skipped")
  /\ UNCHANGED <<config, loopVars, permits>>

BuyOutcomes == IF mode = "DryRun" THEN {"simulated"} ELSE {"submitted", "dropped"}

\* buy() never returns Err; handle_launch returns and drops the wallet guard.
FinishBuy(l) ==
  /\ stage[l] = "buying"
  /\ Pool!Release(l)
  /\ \E o \in BuyOutcomes : Advance(l, "returning", o)
  /\ UNCHANGED <<config, loopVars, permits>>

\* Mutant: the permit is forgotten.
ForgetPermit(l) ==
  /\ stage[l] = "returning"
  /\ Advance(l, "done", outcome[l])
  /\ UNCHANGED <<config, loopVars, permits, poolVars>>

\* The task's future is dropped: _permit goes last.
ReleasePermit(l) ==
  /\ stage[l] = "returning"
  /\ permits' = permits + 1
  /\ Advance(l, "done", outcome[l])
  /\ UNCHANGED <<config, loopVars, poolVars>>

\* Mutant: a future dropped in mid-buy does not drop its wallet guard.
AbortKeepsWallet(l) ==
  /\ main = "exited"
  /\ stage[l] = "spawned" \/ (stage[l] = "buying" /\ mode = "Live")
  /\ Advance(l, "returning", "aborted")
  /\ UNCHANGED <<config, loopVars, permits, poolVars>>

\* main() has returned and the runtime drops a task that is suspended: one that
\* was never polled, or a live buy waiting for the network.  A dry-run buy has
\* no suspension point.
Abort(l) ==
  /\ main = "exited"
  /\ \/ stage[l] = "spawned" /\ UNCHANGED poolVars
     \/ stage[l] = "buying" /\ mode = "Live" /\ Pool!Release(l)
  /\ Advance(l, "returning", "aborted")
  /\ UNCHANGED <<config, loopVars, permits>>

-----------------------------------------------------------------------------
LoopStep ==
  \/ PollShutdown
  \/ Receive
  \/ Park
  \/ StreamEnd
  \/ \E l \in Launches : SpawnSnipe(l)

TaskStep(l) ==
  \/ Prefilter(l)
  \/ Evaluate(l)
  \/ PickWallet(l)
  \/ StartBuy(l)
  \/ Skip(l)
  \/ FinishBuy(l)
  \/ ReleasePermit(l)

Next ==
  \/ ListenerReconnecting
  \/ ListenerStops
  \/ ShutdownSignal
  \/ LoopStep
  \/ \E l \in Launches : ListenerSend(l) \/ TaskStep(l) \/ Abort(l)

Spec == Init /\ [][Next]_vars

\* The runtime polls every ready task, and every await of a buy has a timeout
\* or a fixed delay.  Nothing is assumed of the listener or of the signal.
FairSpec ==
  /\ Spec
  /\ WF_vars(LoopStep)
  /\ \A l \in Launches : WF_vars(TaskStep(l))

-----------------------------------------------------------------------------
\* A permit is in the semaphore or with exactly one task; no path through
\* handle_launch, and no abort, loses one or returns one twice.
PermitsConserved == permits + Cardinality(Holders) = Permits

\* With FirstAvailable and at least as many wallets as permits no launch is
\* skipped for want of a wallet: a task gives its wallet back before its permit.
NoSkipWhenPoolCovers ==
  strategy = "FirstAvailable" /\ Permits <= NumWallets =>
    \A l \in Launches : outcome[l] # "skipped"

\* A launch is skipped only while other snipes, as many as there are wallets, are
\* in the middle of their buys: never for a wallet that is merely marked.
SkipOnlyWhenAllBuying ==
  [][\A l \in Launches :
       outcome'[l] = "skipped" /\ outcome[l] # "skipped" =>
         Cardinality({k \in Launches \ {l} : stage[k] = "buying"}) >= NumWallets]_vars

\* With a single permit no wallet is leased twice and the busy flags are exact,
\* under every strategy: the wallet of a running buy is marked and no other is.
SerialLease ==
  Permits = 1 =>
    \A w \in Pool!Wallets :
      LET tasks == {l \in Launches : Pool!Holds(l, w)}
      IN  /\ \A k, l \in tasks : k = l
          /\ busy[w] <=> tasks # {}

\* A wallet is on lease only to a task whose launch passed the filters and is
\* being bought: none survives the end of its task, aborts included.
LeaseOnlyWhileBuying ==
  \A l \in Launches : phase[l] = "held" <=> stage[l] = "buying"

\* After the shutdown signal at most one more snipe is started: the one already
\* in hand, or received by a poll that was under way when the signal fired.
AtMostOneLateSnipe == late <= 1

\* When the stream ends, rather than the signal, nothing sent is left unread.
DrainedAtStreamEnd ==
  main = "exited" /\ ~shutdown =>
    \A l \in Launches : stage[l] \notin {"queued", "hand"}

TheFeed ==
  INSTANCE Feed WITH
    Items <- Launches, Notice <- Reconnecting, Capacity <- ChannelCap,
    queue <- channel, open <- listening,
    taken <- {l \in Launches : stage[l] \notin {"new", "queued"}}

\* The loop takes from the channel as module Feed has it: oldest first, each
\* launch once, and through a shutdown none is put back or passed over.
ReadsTheFeed == TheFeed!Spec

\* A launch whose message was sent is handled to the end unless the bot exits.
LaunchesAreHandled ==
  \A l \in Launches : stage[l] = "queued" ~> stage[l] = "done" \/ main = "exited"

Work(l) ==
  CASE stage[l] \in Running -> "running"
    [] stage[l] = "done" -> "ended"
    [] OTHER -> "waiting"

Service ==
  INSTANCE SnipeService WITH
    Jobs <- Launches, slots <- Permits,
    work <- [l \in Launches |-> Work(l)],
    told <- shutdown, grace <- 1 - late, stopped <- main = "exited"

\* Channel, semaphore, pool and shutdown together give the operator the service
\* of module SnipeService: no more than the configured number of snipes at once,
\* every one of them ends, one begins at most after the signal, and the bot exits
\* even when the signal fires while the loop waits for a permit.
ServesTheOperator == Service!Spec
=============================================================================
