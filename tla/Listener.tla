------------------------------ MODULE Listener ------------------------------
(***************************************************************************)
(* The listener task of src/listener.rs: subscribe to the gRPC stream,     *)
(* send the launches of each transaction into the channel, and reconnect   *)
(* with a growing delay after every end of the stream.                     *)
(*                                                                         *)
(* The subscription is live: a new one starts at the tip of the chain, and *)
(* what happened between two subscriptions is never sent.  Pings and       *)
(* updates without a transaction change nothing and have no action.        *)
(***************************************************************************)
EXTENDS Integers, Sequences, SequencesExt

CONSTANTS
  Chain,          \* how many launches the detector finds in each transaction
  ChannelCap,     \* capacity of the mpsc channel
  AttemptModulus  \* 2^w for the w-bit attempt counter

ASSUME ListenerAssumption ==
  /\ Chain \in Seq(Nat)
  /\ ChannelCap \in Nat \ {0}
  /\ AttemptModulus \in Nat \ {0}

VARIABLES
  at,        \* where the task stands
  attempt,   \* reconnects so far, never reset
  pending,   \* launches of the current transaction still to be sent
  channel,   \* messages sent and not yet received
  receiver,  \* the consumer still holds the ReceiverStream
  height,    \* environment: transactions on the chain
  cursor,    \* environment: the last transaction the subscription passed
  read,      \* history: the transactions read from a stream
  received   \* history: the launches the consumer took

taskVars == <<at, attempt, pending>>
vars == <<taskVars, channel, receiver, height, cursor, read, received>>

States == {"connecting", "streaming", "sending", "reporting", "sleeping", "panicked"}

Launch == [tx : DOMAIN Chain, nth : Nat]
Reconnecting == [attempt : 0 .. AttemptModulus - 1]
IsLaunch(m) == "tx" \in DOMAIN m

\* extract_launches: the outer instructions first, then the inner ones.
ExtractLaunches(i) == [n \in 1 .. Chain[i] |-> [tx |-> i, nth |-> n]]

TypeOK ==
  /\ at \in States
  /\ attempt \in 0 .. AttemptModulus - 1
  /\ pending \in Seq(Launch)
  /\ pending # <<>> <=> at = "sending"
  /\ channel \in Seq(Launch \cup Reconnecting)
  /\ Len(channel) <= ChannelCap
  /\ receiver \in BOOLEAN
  /\ height \in 0 .. Len(Chain)
  /\ cursor \in 0 .. height
  /\ read \subseteq 1 .. cursor
  /\ received \in Seq(Launch)

Init ==
  /\ at = "connecting"
  /\ attempt = 0
  /\ pending = <<>>
  /\ channel = <<>>
  /\ receiver = TRUE
  /\ height = 0
  /\ cursor = 0
  /\ read = {}
  /\ received = <<>>

-----------------------------------------------------------------------------
\* backoff_for, in milliseconds.
BackoffFor(n) == 250 * 2 ^ (IF n < 6 THEN n ELSE 6)

\* run_once has returned: count the attempt and sleep.  The addition wraps in a
\* release build and panics in a debug build.
Backoff ==
  \/ /\ attempt' = (attempt + 1) % AttemptModulus
     /\ at' = "sleeping"
  \/ /\ attempt + 1 = AttemptModulus
     /\ at' = "panicked"
     /\ UNCHANGED attempt

\* Mutant: the subscription replays the chain.
SubscribeFromStart ==
  /\ at = "connecting"
  /\ at' = "streaming"
  /\ cursor' = 0
  /\ UNCHANGED <<attempt, pending, channel, receiver, height, read, received>>

\* Connect, subscribe, and send the request: the stream starts at the tip.
Subscribe ==
  /\ at = "connecting"
  /\ at' = "streaming"
  /\ cursor' = height
  /\ UNCHANGED <<attempt, pending, channel, receiver, height, read, received>>

\* Any step of it fails, or an item of the stream is an error.
StreamFails ==
  /\ at \in {"connecting", "streaming"}
  /\ at' = "reporting"
  /\ UNCHANGED <<attempt, pending, channel, receiver, height, cursor, read, received>>

\* The server closes the stream: Ok(()), and nothing is reported.
StreamEnds ==
  /\ at = "streaming"
  /\ Backoff
  /\ UNCHANGED <<pending, channel, receiver, height, cursor, read, received>>

ReadTransaction ==
  /\ at = "streaming"
  /\ cursor < height
  /\ cursor' = cursor + 1
  /\ read' = read \cup {cursor'}
  /\ pending' = ExtractLaunches(cursor')
  /\ at' = IF pending' = <<>> THEN "streaming" ELSE "sending"
  /\ UNCHANGED <<attempt, channel, receiver, height, received>>

\* Mutant: try_send, which gives up on a full channel.
TrySendLaunch ==
  /\ at = "sending"
  /\ receiver
  /\ channel' = IF Len(channel) < ChannelCap THEN Append(channel, Head(pending)) ELSE channel
  /\ pending' = Tail(pending)
  /\ at' = IF pending' = <<>> THEN "streaming" ELSE "sending"
  /\ UNCHANGED <<attempt, receiver, height, cursor, read, received>>

\* Mutant: a send that filled the channel is tried again.
SendLaunchAgain ==
  /\ at = "sending"
  /\ receiver
  /\ Len(channel) < ChannelCap
  /\ channel' = Append(channel, Head(pending))
  /\ pending' = IF Len(channel') = ChannelCap THEN pending ELSE Tail(pending)
  /\ at' = IF pending' = <<>> THEN "streaming" ELSE "sending"
  /\ UNCHANGED <<attempt, receiver, height, cursor, read, received>>

\* send().await waits while the channel is full.
SendLaunch ==
  /\ at = "sending"
  /\ receiver
  /\ Len(channel) < ChannelCap
  /\ channel' = Append(channel, Head(pending))
  /\ pending' = Tail(pending)
  /\ at' = IF pending' = <<>> THEN "streaming" ELSE "sending"
  /\ UNCHANGED <<attempt, receiver, height, cursor, read, received>>

\* Mutant: what could not be sent is kept.
SendFailsKeeping ==
  /\ at = "sending"
  /\ ~receiver
  /\ Backoff
  /\ UNCHANGED <<pending, channel, receiver, height, cursor, read, received>>

\* Mutant: the loop goes on at once.
SendFailsAtOnce ==
  /\ at = "sending"
  /\ ~receiver
  /\ pending' = <<>>
  /\ at' = "connecting"
  /\ UNCHANGED <<attempt, channel, receiver, height, cursor, read, received>>

\* The receiver is gone: run_once returns Ok, and the loop goes on.
SendFails ==
  /\ at = "sending"
  /\ ~receiver
  /\ pending' = <<>>
  /\ Backoff
  /\ UNCHANGED <<channel, receiver, height, cursor, read, received>>

\* Mutant: the outcome of the send is not ignored but awaited for ever.
ReportInsisting ==
  /\ at = "reporting"
  /\ receiver
  /\ Len(channel) < ChannelCap
  /\ channel' = Append(channel, [attempt |-> attempt])
  /\ Backoff
  /\ UNCHANGED <<pending, receiver, height, cursor, read, received>>

\* run_once returned Err: the consumer is told, if there still is one.
Report ==
  /\ at = "reporting"
  /\ IF receiver
       THEN /\ Len(channel) < ChannelCap
            /\ channel' = Append(channel, [attempt |-> attempt])
       ELSE UNCHANGED channel
  /\ Backoff
  /\ UNCHANGED <<pending, receiver, height, cursor, read, received>>

Wake ==
  /\ at = "sleeping"
  /\ at' = "connecting"
  /\ UNCHANGED <<attempt, pending, channel, receiver, height, cursor, read, received>>

-----------------------------------------------------------------------------
\* The chain and the consumer.

Produce ==
  /\ height < Len(Chain)
  /\ height' = height + 1
  /\ UNCHANGED <<taskVars, channel, receiver, cursor, read, received>>

Consume ==
  /\ receiver
  /\ channel # <<>>
  /\ channel' = Tail(channel)
  /\ received' = IF IsLaunch(Head(channel)) THEN Append(received, Head(channel))
                 ELSE received
  /\ UNCHANGED <<taskVars, receiver, height, cursor, read>>

DropReceiver ==
  /\ receiver
  /\ receiver' = FALSE
  /\ channel' = <<>>
  /\ UNCHANGED <<taskVars, height, cursor, read, received>>

-----------------------------------------------------------------------------
TaskStep ==
  \/ Subscribe
  \/ StreamFails
  \/ StreamEnds
  \/ ReadTransaction
  \/ SendLaunch
  \/ SendFails
  \/ Report
  \/ Wake

Next == TaskStep \/ Produce \/ Consume \/ DropReceiver

Spec == Init /\ [][Next]_vars

\* The runtime polls the task, the sleep ends, connecting succeeds or fails, and
\* main's loop keeps taking messages.  A stream may stay silent for ever.
FairSpec ==
  /\ Spec
  /\ WF_vars(at # "streaming" /\ TaskStep)
  /\ WF_vars(Consume)

-----------------------------------------------------------------------------
\* What is on its way to the consumer, after the launches already there.
Delivered == received \o channel \o pending

Before(l, m) == l.tx < m.tx \/ (l.tx = m.tx /\ l.nth < m.nth)

\* Across reconnects no launch is sent twice and none overtakes another.
InChainOrder ==
  \A i, j \in DOMAIN Delivered :
    i < j /\ IsLaunch(Delivered[i]) /\ IsLaunch(Delivered[j]) =>
      Before(Delivered[i], Delivered[j])

\* While the consumer is there every launch of a transaction that was read gets
\* to it or is still on its way: backpressure and errors lose none.
ReadIsDelivered ==
  receiver => \A i \in read : ToSet(ExtractLaunches(i)) \subseteq ToSet(Delivered)

\* The delay after the next end of a stream, unless the counter wraps.
NextDelay == IF BackoffFor(attempt) < 8000 THEN 2 * BackoffFor(attempt) ELSE 16000

\* However run_once ends, with an error, with the server's or with a receiver that is
\* gone, the task sleeps before it connects again.  Each such end doubles the delay,
\* up to 16 s, and nothing in between resets it, a good stream no more than a
\* delivered launch: only the wrap of the counter does.
ReconnectsBackOff ==
  [][/\ at' = "connecting" => at \in {"connecting", "sleeping"}
     /\ IF at' = "sleeping" /\ at # "sleeping"
          THEN \/ BackoffFor(attempt') = NextDelay
               \/ attempt = AttemptModulus - 1 /\ attempt' = 0
          ELSE attempt' = attempt]_vars

\* However streams end, and whether or not anyone listens, the task comes back
\* to the server: it is never stuck on the channel.
KeepsReconnecting == []<>(at \in {"streaming", "connecting", "panicked"})

\* In a Feed every Reconnecting looks the same.
Notice == [tx |-> 0, nth |-> 0]
TheFeed ==
  INSTANCE Feed WITH
    Items <- UNION {ToSet(ExtractLaunches(i)) : i \in DOMAIN Chain}, Capacity <- ChannelCap,
    queue <- [i \in DOMAIN channel |-> IF IsLaunch(channel[i]) THEN channel[i] ELSE Notice],
    taken <- ToSet(received),
    open <- receiver /\ at # "panicked"

\* The listener keeps its promise to the event loop (module Feed): across
\* reconnects, backpressure and a receiver that goes away, no launch is put
\* into the channel a second time, and nothing after the task is gone.
FeedsTheLoop == TheFeed!Spec

\* "dropping it terminates the listener task" (the doc of Listener::start).
DropTerminates == ~receiver ~> at = "panicked"
=============================================================================
