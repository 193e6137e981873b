---------------------------- MODULE SniperProofs ----------------------------
(***************************************************************************)
(* Proofs about Sniper, for every finite set of launches and every size of *)
(* the channel, the semaphore and the wallet pool.                         *)
(***************************************************************************)
EXTENDS Sniper, FiniteSetTheorems, TLAPS

PoolStep(l) ==
  \/ Pool!PickRoundRobin(l)
  \/ Pool!PickRandom(l)
  \/ Pool!MarkBusy(l)
  \/ Pool!TakeFirstAvailable(l)
  \/ Pool!Deny(l)
  \/ Pool!Release(l)

\* The pool keeps its types whichever task calls it.
LEMMA PoolTypes ==
  ASSUME Pool!TypeOK, NEW l \in Launches, PoolStep(l)
  PROVE  Pool!TypeOK'
<1> USE SniperAssumption DEF Pool!TypeOK, Pool!Wallets, Pool!Phases, Pool!Move
<1>1. CASE Pool!PickRoundRobin(l)
  BY <1>1 DEF Pool!PickRoundRobin, Pool!NextCursor, Pool!Turn
<1>2. CASE Pool!PickRandom(l)
  BY <1>2 DEF Pool!PickRandom
<1>3. CASE Pool!MarkBusy(l)
  BY <1>3 DEF Pool!MarkBusy
<1>4. CASE Pool!TakeFirstAvailable(l)
  BY <1>4 DEF Pool!TakeFirstAvailable
<1>5. CASE Pool!Deny(l)
  BY <1>5 DEF Pool!Deny
<1>6. CASE Pool!Release(l)
  BY <1>6 DEF Pool!Release
<1>7. QED
  BY <1>1, <1>2, <1>3, <1>4, <1>5, <1>6 DEF PoolStep

LEMMA PoolKept == Pool!TypeOK /\ UNCHANGED poolVars => Pool!TypeOK'
BY DEF Pool!TypeOK, Pool!Wallets, poolVars

\* TypeOK but for the bound of permits, which only their conservation gives.
BaseType ==
  /\ limit \in Limits
  /\ mode \in {"Live", "DryRun"}
  /\ channel \in Seq(Launches \cup {Reconnecting}) /\ Len(channel) <= ChannelCap
  /\ listening \in BOOLEAN
  /\ shutdown \in BOOLEAN
  /\ main \in LoopStates
  /\ permits \in Nat
  /\ stage \in [Launches -> Stages]
  /\ outcome \in [Launches -> Outcomes]
  /\ late \in Nat
  /\ Pool!TypeOK

LEMMA PermitsType == limit \in Limits => Permits \in Nat \ {0}
BY SniperAssumption DEF Permits

\* The messages of the channel stay messages when one is appended or taken.
LEMMA ChannelType ==
  ASSUME BaseType
  PROVE  /\ \A m \in Launches \cup {Reconnecting} :
              Post(m) => /\ channel' \in Seq(Launches \cup {Reconnecting})
                         /\ Len(channel') <= ChannelCap
         /\ channel # <<>> =>
              /\ Tail(channel) \in Seq(Launches \cup {Reconnecting})
              /\ Len(Tail(channel)) <= ChannelCap
              /\ Head(channel) \in Launches \cup {Reconnecting}
<1> USE SniperAssumption
<1> DEFINE M == Launches \cup {Reconnecting}
<1>1. channel \in Seq(M) /\ Len(channel) <= ChannelCap
  BY DEF BaseType
<1> HIDE DEF M
<1>2. ASSUME NEW m \in M, Post(m)
      PROVE  channel' \in Seq(M) /\ Len(channel') <= ChannelCap
  BY <1>1, <1>2 DEF Post
<1>3. ASSUME channel # <<>>
      PROVE  /\ Tail(channel) \in Seq(M)
             /\ Len(Tail(channel)) <= ChannelCap
             /\ Head(channel) \in M
  BY <1>1, <1>3
<1>4. QED
  BY <1>2, <1>3 DEF M

LEMMA BaseTypeStep == BaseType /\ [Next]_vars => BaseType'
<1> SUFFICES ASSUME BaseType, [Next]_vars
             PROVE  BaseType'
  OBVIOUS
<1> USE SniperAssumption DEF LoopStates, Stages, Outcomes, config, loopVars
<1>1. ASSUME NEW l \in Launches, ListenerSend(l)
      PROVE  BaseType'
  BY <1>1, ChannelType, PoolKept DEF ListenerSend, BaseType
<1>2. CASE ListenerReconnecting
  BY <1>2, ChannelType, PoolKept DEF ListenerReconnecting, BaseType
<1>3. CASE ListenerStops \/ ShutdownSignal
  BY <1>3, PoolKept DEF ListenerStops, ShutdownSignal, BaseType
<1>4. CASE PollShutdown \/ Park \/ StreamEnd
  BY <1>4, PoolKept DEF PollShutdown, Park, StreamEnd, BaseType
<1>5. CASE Receive
  BY <1>5, ChannelType, PoolKept DEF Receive, BaseType
<1>6. ASSUME NEW l \in Launches, SpawnSnipe(l)
      PROVE  BaseType'
  BY <1>6, PoolKept DEF SpawnSnipe, TakePermit, BaseType
<1>7. ASSUME NEW l \in Launches, Prefilter(l) \/ Evaluate(l) \/ ReleasePermit(l)
      PROVE  BaseType'
  BY <1>7, PoolKept DEF Prefilter, Evaluate, ReleasePermit, Advance, BaseType
<1>8. ASSUME NEW l \in Launches, PickWallet(l) \/ StartBuy(l) \/ Skip(l) \/ FinishBuy(l)
      PROVE  BaseType'
  <2>1. Pool!TypeOK'
    BY <1>8, PoolTypes DEF PickWallet, StartBuy, Skip, FinishBuy, PoolStep, BaseType
  <2>2. QED
    BY <1>8, <2>1 DEF PickWallet, StartBuy, Skip, FinishBuy, Advance, BuyOutcomes, BaseType
<1>9. ASSUME NEW l \in Launches, Abort(l)
      PROVE  BaseType'
  <2>1. Pool!TypeOK'
    BY <1>9, PoolTypes, PoolKept DEF Abort, PoolStep, BaseType
  <2>2. QED
    BY <1>9, <2>1 DEF Abort, Advance, BaseType
<1>10. CASE UNCHANGED vars
  BY <1>10, PoolKept DEF vars, BaseType
<1>11. QED
  BY <1>1, <1>2, <1>3, <1>4, <1>5, <1>6, <1>7, <1>8, <1>9, <1>10
     DEF Next, LoopStep, TaskStep

-----------------------------------------------------------------------------
\* The channel holds exactly the launches that were sent and not yet taken, each
\* once, and the loop has one launch in hand exactly while it awaits a permit.
QueueInv ==
  /\ \A i \in 1 .. Len(channel) : channel[i] \in Launches => stage[channel[i]] = "queued"
  /\ \A i, j \in 1 .. Len(channel) :
       channel[i] \in Launches /\ channel[i] = channel[j] => i = j
  /\ \A l \in Launches : stage[l] = "queued" => \E i \in 1 .. Len(channel) : channel[i] = l
  /\ \A l \in Launches : stage[l] = "hand" => main = "awaiting"
  /\ \A k, l \in Launches : stage[k] = "hand" /\ stage[l] = "hand" => k = l

\* The stream ends for good: its sender is gone and cannot come back.
EndInv == main = "exited" /\ ~shutdown => ~listening /\ channel = <<>>

\* A step between two stages of which neither is "queued" or "hand".
LEMMA QueueKept ==
  ASSUME BaseType, QueueInv, NEW l \in Launches, NEW s \in Stages,
         stage' = [stage EXCEPT ![l] = s], UNCHANGED <<channel, main>>,
         {stage[l], s} \cap {"queued", "hand"} = {}
  PROVE  QueueInv'
BY DEF BaseType, QueueInv

LEMMA QueueStep == BaseType /\ QueueInv /\ [Next]_vars => QueueInv'
<1> SUFFICES ASSUME BaseType, QueueInv, [Next]_vars
             PROVE  QueueInv'
  OBVIOUS
<1> DEFINE M == Launches \cup {Reconnecting}
<1>0. channel \in Seq(M) /\ stage \in [Launches -> Stages]
  BY DEF BaseType
<1>1. ASSUME NEW l \in Launches, ListenerSend(l)
      PROVE  QueueInv'
  <2>1. /\ channel' = Append(channel, l)
        /\ stage' = [stage EXCEPT ![l] = "queued"]
        /\ stage[l] = "new"
        /\ main' = main
    BY <1>1 DEF ListenerSend, Post
  <2>2. /\ Len(channel') = Len(channel) + 1
        /\ channel'[Len(channel) + 1] = l
        /\ \A i \in 1 .. Len(channel) : channel'[i] = channel[i]
    BY <1>0, <2>1
  <2>3. \A i \in 1 .. Len(channel) : channel[i] # l
    BY <2>1 DEF QueueInv
  <2>4. QED
    BY <1>0, <2>1, <2>2, <2>3 DEF QueueInv
<1>2. CASE ListenerReconnecting
  <2>1. channel' = Append(channel, Reconnecting) /\ UNCHANGED <<stage, main>>
    BY <1>2 DEF ListenerReconnecting, Post
  <2>2. /\ Len(channel') = Len(channel) + 1
        /\ channel'[Len(channel) + 1] = Reconnecting
        /\ \A i \in 1 .. Len(channel) : channel'[i] = channel[i]
    BY <1>0, <2>1
  <2>3. QED
    BY <1>0, <2>1, <2>2, SniperAssumption DEF QueueInv
<1>3. CASE Receive
  <2>1. channel # <<>> /\ channel' = Tail(channel) /\ main = "polling"
    BY <1>3 DEF Receive
  <2>2. /\ Len(channel) \in Nat \ {0}
        /\ Len(channel') = Len(channel) - 1
        /\ Head(channel) = channel[1]
        /\ \A i \in 1 .. Len(channel') : channel'[i] = channel[i + 1]
    BY <1>0, <2>1
  <2>3. CASE Head(channel) = Reconnecting
    <3>1. UNCHANGED stage
      BY <1>3, <2>3 DEF Receive
    <3>2. \A l \in Launches, i \in 1 .. Len(channel) :
            channel[i] = l => i - 1 \in 1 .. Len(channel') /\ channel'[i - 1] = l
      BY <2>2, <2>3, SniperAssumption
    <3>3. ASSUME NEW i \in 1 .. Len(channel'), NEW j \in 1 .. Len(channel')
          PROVE  /\ channel'[i] \in Launches => stage'[channel'[i]] = "queued"
                 /\ channel'[i] \in Launches /\ channel'[i] = channel'[j] => i = j
      <4>1. /\ i + 1 \in 1 .. Len(channel) /\ channel'[i] = channel[i + 1]
            /\ j + 1 \in 1 .. Len(channel) /\ channel'[j] = channel[j + 1]
        BY <2>2
      <4>2. /\ channel[i + 1] \in Launches => stage[channel[i + 1]] = "queued"
            /\ channel[i + 1] \in Launches /\ channel[i + 1] = channel[j + 1] =>
                 i + 1 = j + 1
        BY <4>1 DEF QueueInv
      <4>3. QED
        BY <3>1, <4>1, <4>2
    <3>4. ASSUME NEW l \in Launches, stage'[l] = "queued"
          PROVE  \E i \in 1 .. Len(channel') : channel'[i] = l
      BY <3>1, <3>2, <3>4 DEF QueueInv
    <3>5. \A l \in Launches : stage'[l] # "hand"
      BY <2>1, <3>1 DEF QueueInv
    <3>6. QED
      BY <3>3, <3>4, <3>5 DEF QueueInv
  <2>4. CASE Head(channel) # Reconnecting
    <3>1. /\ channel[1] \in Launches
          /\ stage' = [stage EXCEPT ![channel[1]] = "hand"]
          /\ main' = "awaiting"
      BY <1>0, <1>3, <2>1, <2>2, <2>4 DEF Receive
    <3>2. \A i \in 1 .. Len(channel) : channel[i] = channel[1] => i = 1
      BY <2>2, <3>1 DEF QueueInv
    <3>3. \A l \in Launches \ {channel[1]}, i \in 1 .. Len(channel) :
            channel[i] = l => i - 1 \in 1 .. Len(channel') /\ channel'[i - 1] = l
      BY <2>2
    <3>4. ASSUME NEW i \in 1 .. Len(channel'), channel'[i] \in Launches
          PROVE  stage'[channel'[i]] = "queued"
      <4>1. i + 1 \in 1 .. Len(channel) /\ channel'[i] = channel[i + 1] /\ i + 1 # 1
        BY <2>2
      <4>2. channel[i + 1] # channel[1] /\ stage[channel[i + 1]] = "queued"
        BY <3>2, <3>4, <4>1 DEF QueueInv
      <4>3. QED
        BY <1>0, <3>1, <3>4, <4>1, <4>2
    <3>5. ASSUME NEW i \in 1 .. Len(channel'), NEW j \in 1 .. Len(channel'),
                 channel'[i] \in Launches, channel'[i] = channel'[j]
          PROVE  i = j
      <4>1. /\ i + 1 \in 1 .. Len(channel) /\ channel'[i] = channel[i + 1]
            /\ j + 1 \in 1 .. Len(channel) /\ channel'[j] = channel[j + 1]
        BY <2>2
      <4>2. channel[i + 1] \in Launches /\ channel[i + 1] = channel[j + 1]
        BY <3>5, <4>1
      <4>3. i + 1 = j + 1
        BY <4>1, <4>2 DEF QueueInv
      <4>4. QED
        BY <4>3
    <3>6. ASSUME NEW l \in Launches, stage'[l] = "queued"
          PROVE  \E i \in 1 .. Len(channel') : channel'[i] = l
      <4>1. l # channel[1] /\ stage[l] = "queued"
        BY <1>0, <3>1, <3>6
      <4>2. QED
        BY <3>3, <4>1 DEF QueueInv
    <3>7. \A l \in Launches : stage'[l] = "hand" => l = channel[1]
      BY <1>0, <2>1, <3>1 DEF QueueInv
    <3>8. QED
      BY <3>1, <3>4, <3>5, <3>6, <3>7 DEF QueueInv
  <2>5. QED
    BY <2>3, <2>4
<1>4. ASSUME NEW l \in Launches, SpawnSnipe(l)
      PROVE  QueueInv'
  <2>1. /\ stage' = [stage EXCEPT ![l] = "spawned"] /\ stage[l] = "hand"
        /\ UNCHANGED channel
    BY <1>4 DEF SpawnSnipe
  <2>2. QED
    BY <1>0, <2>1 DEF QueueInv
<1>5. ASSUME NEW l \in Launches, TaskStep(l) \/ Abort(l)
      PROVE  QueueInv'
  <2>1. UNCHANGED <<channel, main>>
    BY <1>5 DEF TaskStep, Prefilter, Evaluate, PickWallet, StartBuy, Skip, FinishBuy,
                ReleasePermit, Abort, loopVars
  <2>2. CASE UNCHANGED stage
    BY <2>1, <2>2 DEF QueueInv
  <2>3. CASE /\ stage[l] \in Running
             /\ \E s \in Running \cup {"done"} : stage' = [stage EXCEPT ![l] = s]
    <3>1. PICK s \in Running \cup {"done"} : stage' = [stage EXCEPT ![l] = s]
      BY <2>3
    <3>2. s \in Stages /\ {stage[l], s} \cap {"queued", "hand"} = {}
      BY <2>3 DEF Running, Stages
    <3>3. QED
      BY <2>1, <3>1, <3>2, QueueKept
  <2>4. CASE Prefilter(l) \/ Evaluate(l)
    <3>1. stage[l] \in {"spawned", "prefiltered"}
      BY <2>4 DEF Prefilter, Evaluate
    <3>2. \E s \in {"prefiltered", "acquiring", "returning"} :
            stage' = [stage EXCEPT ![l] = s]
      BY <2>4 DEF Prefilter, Evaluate, Advance
    <3>3. QED
      BY <2>3, <3>1, <3>2 DEF Running
  <2>5. CASE PickWallet(l)
    BY <2>2, <2>5 DEF PickWallet
  <2>6. CASE StartBuy(l) \/ Skip(l)
    BY <2>3, <2>6 DEF StartBuy, Skip, Advance, Running
  <2>7. CASE FinishBuy(l)
    BY <2>3, <2>7 DEF FinishBuy, Advance, Running
  <2>8. CASE ReleasePermit(l)
    BY <2>3, <2>8 DEF ReleasePermit, Advance, Running
  <2>9. CASE Abort(l)
    BY <2>3, <2>9 DEF Abort, Advance, Running
  <2>10. QED
    BY <1>5, <2>4, <2>5, <2>6, <2>7, <2>8, <2>9 DEF TaskStep
<1>6. CASE UNCHANGED <<channel, stage>> /\ main # "awaiting"
  BY <1>6 DEF QueueInv
<1>7. CASE UNCHANGED <<channel, stage, main>>
  BY <1>7 DEF QueueInv
<1>8. QED
  BY <1>1, <1>2, <1>3, <1>4, <1>5, <1>6, <1>7
     DEF Next, LoopStep, ListenerStops, ShutdownSignal, PollShutdown, Park, StreamEnd,
         vars, loopVars

\* Taking a message moves the launch at the head of the channel, if it is one.
LEMMA ReceiveEffect ==
  ASSUME BaseType, QueueInv, Receive
  PROVE  \/ UNCHANGED stage
         \/ \E l \in Launches :
              stage[l] = "queued" /\ stage' = [stage EXCEPT ![l] = "hand"]
<1>1. CASE Head(channel) = Reconnecting
  BY <1>1 DEF Receive
<1>2. CASE Head(channel) # Reconnecting
  <2>1. /\ channel \in Seq(Launches \cup {Reconnecting})
        /\ channel # <<>>
        /\ stage' = [stage EXCEPT ![Head(channel)] = "hand"]
    BY <1>2 DEF Receive, BaseType
  <2>2. 1 \in 1 .. Len(channel) /\ Head(channel) = channel[1]
    BY <2>1
  <2>3. Head(channel) \in Launches /\ stage[Head(channel)] = "queued"
    BY <1>2, <2>1, <2>2 DEF QueueInv
  <2>4. QED
    BY <2>1, <2>3
<1>3. QED
  BY <1>1, <1>2

-----------------------------------------------------------------------------
\* A step of a task changes who holds permits only where it begins and ends:
\* every other step moves between stages on the same side.
LEMMA HoldersKept ==
  ASSUME BaseType, NEW l \in Launches, NEW s \in Stages,
         stage' = [stage EXCEPT ![l] = s], stage[l] \in Running <=> s \in Running
  PROVE  Holders' = Holders
BY DEF BaseType, Holders

LEMMA PermitsStep ==
  BaseType /\ QueueInv /\ PermitsConserved /\ [Next]_vars => PermitsConserved'
<1> SUFFICES ASSUME BaseType, QueueInv, PermitsConserved, [Next]_vars
             PROVE  PermitsConserved'
  OBVIOUS
<1>0. /\ limit' = limit
      /\ Permits' = Permits
      /\ IsFiniteSet(Holders)
      /\ Cardinality(Holders) \in Nat
      /\ permits \in Nat
  <2>1. IsFiniteSet(Holders)
    BY SniperAssumption, FS_Subset DEF Holders
  <2>2. limit' = limit
    BY DEF vars, config, Next, LoopStep, TaskStep, ListenerSend, ListenerReconnecting,
           ListenerStops, ShutdownSignal, PollShutdown, Receive, Park, StreamEnd,
           SpawnSnipe, Prefilter, Evaluate, PickWallet, StartBuy, Skip, FinishBuy,
           ReleasePermit, Abort
  <2>3. QED
    BY <2>1, <2>2, FS_CardinalityType DEF BaseType, Permits
<1>1. ASSUME UNCHANGED permits, Holders' = Holders
      PROVE  PermitsConserved'
  BY <1>0, <1>1 DEF PermitsConserved
<1>2. ASSUME NEW l \in Launches, SpawnSnipe(l)
      PROVE  PermitsConserved'
  <2>1. l \notin Holders /\ Holders' = Holders \cup {l}
    BY <1>2 DEF SpawnSnipe, Holders, Running, BaseType
  <2>2. Cardinality(Holders') = Cardinality(Holders) + 1
    BY <1>0, <2>1, FS_AddElement
  <2>3. permits' = permits - 1
    BY <1>2 DEF SpawnSnipe, TakePermit
  <2>4. QED
    BY <1>0, <2>2, <2>3 DEF PermitsConserved
<1>3. ASSUME NEW l \in Launches, ReleasePermit(l)
      PROVE  PermitsConserved'
  <2>1. l \in Holders /\ Holders' = Holders \ {l}
    BY <1>3 DEF ReleasePermit, Advance, Holders, Running, BaseType
  <2>2. Cardinality(Holders') = Cardinality(Holders) - 1
    BY <1>0, <2>1, FS_RemoveElement
  <2>3. permits' = permits + 1
    BY <1>3 DEF ReleasePermit
  <2>4. QED
    BY <1>0, <2>2, <2>3 DEF PermitsConserved
<1>4. ASSUME NEW l \in Launches,
             Prefilter(l) \/ Evaluate(l) \/ StartBuy(l) \/ Skip(l) \/ FinishBuy(l) \/ Abort(l)
      PROVE  PermitsConserved'
  <2>1. /\ UNCHANGED permits
        /\ stage[l] \in Running
        /\ \E s \in Running : stage' = [stage EXCEPT ![l] = s]
    BY <1>4 DEF Prefilter, Evaluate, StartBuy, Skip, FinishBuy, Abort, Advance, Running
  <2>2. QED
    BY <1>1, <2>1, HoldersKept DEF Running, Stages
<1>5. ASSUME NEW l \in Launches, ListenerSend(l)
      PROVE  PermitsConserved'
  <2>1. stage[l] = "new" /\ stage' = [stage EXCEPT ![l] = "queued"] /\ UNCHANGED permits
    BY <1>5 DEF ListenerSend
  <2>2. QED
    BY <1>1, <2>1, HoldersKept DEF Running, Stages
<1>6. CASE Receive
  <2>1. UNCHANGED permits
    BY <1>6 DEF Receive
  <2>2. CASE UNCHANGED stage
    BY <1>1, <2>1, <2>2 DEF Holders
  <2>3. ASSUME NEW l \in Launches, stage[l] = "queued", stage' = [stage EXCEPT ![l] = "hand"]
        PROVE  PermitsConserved'
    BY <1>1, <2>1, <2>3, HoldersKept DEF Running, Stages
  <2>4. QED
    BY <1>6, <2>2, <2>3, ReceiveEffect
<1>7. CASE UNCHANGED <<permits, stage>>
  BY <1>1, <1>7 DEF Holders
<1>8. QED
  BY <1>2, <1>3, <1>4, <1>5, <1>6, <1>7
     DEF Next, LoopStep, TaskStep, ListenerReconnecting, ListenerStops, ShutdownSignal,
         PollShutdown, Park, StreamEnd, PickWallet, vars

-----------------------------------------------------------------------------
LEMMA EndStep == BaseType /\ EndInv /\ [Next]_vars => EndInv'
<1> SUFFICES ASSUME BaseType, EndInv, [Next]_vars, main' = "exited", ~shutdown'
             PROVE  ~listening' /\ channel' = <<>>
  BY DEF EndInv
<1>1. ~shutdown
  BY DEF Next, LoopStep, TaskStep, ListenerSend, ListenerReconnecting, ListenerStops,
         ShutdownSignal, PollShutdown, Receive, Park, StreamEnd, SpawnSnipe, Prefilter,
         Evaluate, PickWallet, StartBuy, Skip, FinishBuy, ReleasePermit, Abort,
         loopVars, vars
<1>2. CASE main = "exited"
  <2>1. ~listening /\ channel = <<>>
    BY <1>1, <1>2 DEF EndInv
  <2>2. QED
    BY <1>2, <2>1
       DEF Next, LoopStep, TaskStep, ListenerSend, ListenerReconnecting, Post,
           ListenerStops, ShutdownSignal, PollShutdown, Receive, Park, StreamEnd,
           SpawnSnipe, Prefilter, Evaluate, PickWallet, StartBuy, Skip, FinishBuy,
           ReleasePermit, Abort, loopVars, vars
<1>3. CASE main # "exited"
  <2>1. StreamEnd
    BY <1>1, <1>3
       DEF Next, LoopStep, TaskStep, ListenerSend, ListenerReconnecting, ListenerStops,
           ShutdownSignal, PollShutdown, Receive, Park, SpawnSnipe, Prefilter,
           Evaluate, PickWallet, StartBuy, Skip, FinishBuy, ReleasePermit, Abort,
           loopVars, vars
  <2>2. QED
    BY <2>1 DEF StreamEnd
<1>4. QED
  BY <1>2, <1>3

\* Once a late snipe was started the loop stands before a poll of the signal.
LateInv ==
  /\ late \in 0 .. 1
  /\ late = 1 => shutdown /\ main \in {"select", "exited"}

LEMMA LateStep == BaseType /\ LateInv /\ [Next]_vars => LateInv'
<1> SUFFICES ASSUME BaseType, LateInv, [Next]_vars
             PROVE  LateInv'
  OBVIOUS
<1>1. ASSUME NEW l \in Launches, SpawnSnipe(l)
      PROVE  LateInv'
  <2>1. late = 0 /\ main' = "select" /\ shutdown' = shutdown
    BY <1>1 DEF SpawnSnipe, LateInv
  <2>2. late' = IF shutdown THEN 1 ELSE 0
    BY <1>1, <2>1 DEF SpawnSnipe
  <2>3. QED
    BY <2>1, <2>2 DEF LateInv
<1>2. CASE PollShutdown
  <2>1. late' = late /\ shutdown' = shutdown /\ (shutdown => main' = "exited")
    BY <1>2 DEF PollShutdown
  <2>2. QED
    BY <2>1 DEF LateInv
<1>3. CASE Receive \/ Park \/ StreamEnd
  <2>1. late = 0 /\ late' = late
    BY <1>3 DEF Receive, Park, StreamEnd, LateInv
  <2>2. QED
    BY <2>1 DEF LateInv
<1>4. CASE UNCHANGED <<late, main>> /\ (shutdown => shutdown')
  BY <1>4 DEF LateInv
<1>5. QED
  BY <1>1, <1>2, <1>3, <1>4
     DEF Next, LoopStep, TaskStep, ListenerSend, ListenerReconnecting, ListenerStops,
         ShutdownSignal, Prefilter, Evaluate, PickWallet, StartBuy, Skip, FinishBuy,
         ReleasePermit, Abort, loopVars, vars

LEMMA LeaseStep ==
  BaseType /\ QueueInv /\ LeaseOnlyWhileBuying /\ [Next]_vars => LeaseOnlyWhileBuying'
<1> SUFFICES ASSUME BaseType, QueueInv, LeaseOnlyWhileBuying, [Next]_vars
             PROVE  LeaseOnlyWhileBuying'
  OBVIOUS
<1>0. stage \in [Launches -> Stages] /\ phase \in [Launches -> Pool!Phases]
  BY DEF BaseType, Pool!TypeOK
<1>1. ASSUME NEW l \in Launches, NEW s,
             stage' = [stage EXCEPT ![l] = s], UNCHANGED phase,
             stage[l] # "buying", s # "buying"
      PROVE  LeaseOnlyWhileBuying'
  BY <1>0, <1>1 DEF LeaseOnlyWhileBuying
<1>2. ASSUME NEW l \in Launches,
             PickWallet(l) \/ StartBuy(l) \/ Skip(l) \/ FinishBuy(l) \/ Abort(l)
      PROVE  LeaseOnlyWhileBuying'
  <2>1. CASE PickWallet(l)
    BY <1>0, <2>1
       DEF PickWallet, Pool!PickRoundRobin, Pool!PickRandom, Pool!Move, LeaseOnlyWhileBuying
  <2>2. CASE StartBuy(l)
    BY <1>0, <2>2
       DEF StartBuy, Advance, Pool!MarkBusy, Pool!TakeFirstAvailable, Pool!Move,
           LeaseOnlyWhileBuying
  <2>3. CASE Skip(l)
    BY <1>0, <2>3 DEF Skip, Advance, Pool!Deny, Pool!Move, LeaseOnlyWhileBuying
  <2>4. CASE FinishBuy(l)
    BY <1>0, <2>4 DEF FinishBuy, Advance, Pool!Release, Pool!Move, LeaseOnlyWhileBuying
  <2>5. CASE Abort(l)
    BY <1>0, <2>5 DEF Abort, Advance, Pool!Release, Pool!Move, poolVars,
                      LeaseOnlyWhileBuying
  <2>6. QED
    BY <1>2, <2>1, <2>2, <2>3, <2>4, <2>5
<1>3. ASSUME NEW l \in Launches,
             ListenerSend(l) \/ SpawnSnipe(l) \/ Prefilter(l) \/ Evaluate(l) \/ ReleasePermit(l)
      PROVE  LeaseOnlyWhileBuying'
  BY <1>1, <1>3
     DEF ListenerSend, SpawnSnipe, Prefilter, Evaluate, ReleasePermit, Advance, poolVars
<1>4. CASE Receive
  <2>1. UNCHANGED phase
    BY <1>4 DEF Receive, poolVars
  <2>2. CASE UNCHANGED stage
    BY <2>1, <2>2 DEF LeaseOnlyWhileBuying
  <2>3. ASSUME NEW l \in Launches, stage[l] = "queued", stage' = [stage EXCEPT ![l] = "hand"]
        PROVE  LeaseOnlyWhileBuying'
    BY <1>1, <2>1, <2>3
  <2>4. QED
    BY <1>4, <2>2, <2>3, ReceiveEffect
<1>5. CASE UNCHANGED <<stage, phase>>
  BY <1>5 DEF LeaseOnlyWhileBuying
<1>6. QED
  BY <1>2, <1>3, <1>4, <1>5
     DEF Next, LoopStep, TaskStep, ListenerReconnecting, ListenerStops, ShutdownSignal,
         PollShutdown, Park, StreamEnd, poolVars, vars

-----------------------------------------------------------------------------
\* The invariant the properties follow from.
SniperInv ==
  /\ BaseType
  /\ QueueInv
  /\ EndInv
  /\ PermitsConserved
  /\ LateInv
  /\ LeaseOnlyWhileBuying

LEMMA SniperInvariance == Spec => []SniperInv
<1>1. Init => SniperInv
  <2> SUFFICES ASSUME Init
               PROVE  SniperInv
    OBVIOUS
  <2>1. Pool!TypeOK
    BY SniperAssumption
       DEF Init, Pool!Init, Pool!TypeOK, Pool!Wallets, Pool!Phases, Pool!Strategies
  <2>2. BaseType
    <3>1. channel \in Seq(Launches \cup {Reconnecting}) /\ Len(channel) <= ChannelCap
      BY SniperAssumption DEF Init
    <3>2. permits \in Nat /\ limit \in Limits /\ late \in Nat
      BY PermitsType DEF Init
    <3>3. stage \in [Launches -> Stages] /\ outcome \in [Launches -> Outcomes]
      BY DEF Init, Stages, Outcomes
    <3>4. QED
      BY <2>1, <3>1, <3>2, <3>3 DEF Init, BaseType, LoopStates
  <2>3. QueueInv /\ EndInv /\ LateInv
    BY DEF Init, QueueInv, EndInv, LateInv
  <2>4. PermitsConserved
    <3>1. Holders = {}
      BY DEF Init, Holders, Running
    <3>2. Cardinality(Holders) = 0
      BY <3>1, FS_EmptySet
    <3>3. permits = Permits /\ Permits \in Nat
      BY PermitsType DEF Init
    <3>4. QED
      BY <3>2, <3>3 DEF PermitsConserved
  <2>5. LeaseOnlyWhileBuying
    BY DEF Init, Pool!Init, LeaseOnlyWhileBuying
  <2>6. QED
    BY <2>2, <2>3, <2>4, <2>5 DEF SniperInv
<1>2. SniperInv /\ [Next]_vars => SniperInv'
  BY BaseTypeStep, QueueStep, EndStep, PermitsStep, LateStep, LeaseStep DEF SniperInv
<1>3. QED
  BY <1>1, <1>2, PTL DEF Spec

\* Every permit is in the semaphore or with exactly one task, along every path
\* through handle_launch and every abort, for any limit and number of launches.
THEOREM PermitConservation == Spec => []PermitsConserved
<1>1. SniperInv => PermitsConserved
  BY DEF SniperInv
<1>2. QED
  BY <1>1, SniperInvariance, PTL

\* The types; the semaphore never holds more permits than it was made with.
THEOREM TypeCorrect == Spec => []TypeOK
<1>1. ASSUME SniperInv
      PROVE  TypeOK
  <2>1. IsFiniteSet(Holders)
    BY SniperAssumption, FS_Subset DEF Holders
  <2>2. Cardinality(Holders) \in Nat
    BY <2>1, FS_CardinalityType
  <2>3. Permits \in Nat /\ permits \in Nat /\ permits + Cardinality(Holders) = Permits
    BY <1>1, PermitsType DEF SniperInv, BaseType, PermitsConserved
  <2>4. permits \in 0 .. Permits
    BY <2>2, <2>3
  <2>5. QED
    BY <1>1, <2>4 DEF SniperInv, BaseType, TypeOK
<1>2. QED
  BY <1>1, SniperInvariance, PTL

\* No path through handle_launch, and no abort, ends with a wallet still leased.
THEOREM LeaseEndsWithTheBuy == Spec => []LeaseOnlyWhileBuying
<1>1. SniperInv => LeaseOnlyWhileBuying
  BY DEF SniperInv
<1>2. QED
  BY <1>1, SniperInvariance, PTL

\* However the signal falls between the polls, one more snipe starts at most.
THEOREM LateSnipes == Spec => []AtMostOneLateSnipe
<1>1. SniperInv => AtMostOneLateSnipe
  BY DEF SniperInv, LateInv, AtMostOneLateSnipe
<1>2. QED
  BY <1>1, SniperInvariance, PTL

\* The end of the stream never overtakes a launch that was sent.
THEOREM StreamIsDrained == Spec => []DrainedAtStreamEnd
<1>1. SniperInv => DrainedAtStreamEnd
  BY DEF SniperInv, QueueInv, EndInv, DrainedAtStreamEnd
<1>2. QED
  BY <1>1, SniperInvariance, PTL

-----------------------------------------------------------------------------
\* Every step of the bot is a step of the pool or leaves the pool alone.
LEMMA PoolOrNot ==
  ASSUME [Next]_vars
  PROVE  UNCHANGED poolVars \/ \E l \in Launches : PoolStep(l) /\ stage[l] \in Running
BY DEF PoolStep, poolVars, vars, Running, Next, LoopStep, TaskStep, ListenerSend,
       ListenerReconnecting, ListenerStops, ShutdownSignal, PollShutdown, Receive, Park,
       StreamEnd, SpawnSnipe, Prefilter, Evaluate, PickWallet, StartBuy, Skip, FinishBuy,
       ReleasePermit, Abort

\* The event loop and the snipe tasks use the pool as module WalletPool has it:
\* what is proved of the pool alone holds of it inside the bot.
THEOREM PoolIsImplemented == Spec => Pool!Spec
<1>1. Init => Pool!Init
  BY DEF Init
<1>2. [Next]_vars => [Pool!Next]_(Pool!vars)
  BY PoolOrNot DEF PoolStep, Pool!Next, Pool!vars, poolVars
<1>3. QED
  BY <1>1, <1>2, PTL DEF Spec, Pool!Spec

\* The theorems of the pool alone, with launches for its tasks.
Leases == INSTANCE WalletPoolProofs WITH Tasks <- Launches

LEMMA PoolIsLeased == Spec => Leases!Spec
<1>1. Pool!Init => Leases!Init
  BY Zenon DEF Pool!Init, Leases!Init, Pool!Wallets, Leases!Wallets, Pool!Strategies,
               Leases!Strategies
<1>2. [Pool!Next]_(Pool!vars) => [Leases!Next]_(Leases!vars)
  BY DEF Pool!vars, Leases!vars, Pool!Wallets, Leases!Wallets, Pool!NextCursor,
         Leases!NextCursor, Pool!Turn, Leases!Turn, Pool!Move, Leases!Move,
         Pool!MayAcquire, Leases!MayAcquire, Pool!Next, Leases!Next,
         Pool!PickRoundRobin, Leases!PickRoundRobin, Pool!PickRandom, Leases!PickRandom,
         Pool!MarkBusy, Leases!MarkBusy, Pool!TakeFirstAvailable,
         Leases!TakeFirstAvailable, Pool!Deny, Leases!Deny, Pool!Release, Leases!Release
<1>3. QED
  BY <1>1, <1>2, PoolIsImplemented, PTL DEF Pool!Spec, Leases!Spec

LEMMA LeakFreedom == Spec => []Pool!NoLeakedWallet
<1>1. Leases!PoolAssumption
  BY SniperAssumption DEF Leases!PoolAssumption
<1>2. Leases!Spec => []Leases!NoLeakedWallet
  BY <1>1, Leases!LeakFreedom
<1>3. Leases!NoLeakedWallet => Pool!NoLeakedWallet
  BY DEF Leases!NoLeakedWallet, Leases!Holds, Leases!Wallets,
         Pool!NoLeakedWallet, Pool!Holds, Pool!Wallets
<1>4. QED
  BY <1>2, <1>3, PoolIsLeased, PTL

OneBuyPerWallet ==
  strategy = "FirstAvailable" =>
    \A k, l \in Launches :
      stage[k] = "buying" /\ stage[l] = "buying" /\ idx[k] = idx[l] => k = l

\* With FirstAvailable no wallet pays for two launches at once, whatever the
\* tasks, the event loop and the end of the process do to each other: the
\* exclusive lease of the pool and the stages of handle_launch taken together.
THEOREM BuysAreExclusive == Spec => []OneBuyPerWallet
<1>1. Leases!PoolAssumption
  BY SniperAssumption DEF Leases!PoolAssumption
<1>2. Leases!Spec => []Leases!ExclusiveLease
  BY <1>1, Leases!Exclusion
<1>3. SniperInv /\ Leases!ExclusiveLease => OneBuyPerWallet
  <2> SUFFICES ASSUME SniperInv, Leases!ExclusiveLease, strategy = "FirstAvailable",
                      NEW k \in Launches, NEW l \in Launches,
                      stage[k] = "buying", stage[l] = "buying", idx[k] = idx[l]
               PROVE  k = l
    BY DEF OneBuyPerWallet
  <2>1. idx[k] \in Leases!Wallets
    BY DEF SniperInv, BaseType, Pool!TypeOK, Pool!Wallets, Leases!Wallets
  <2>2. phase[k] = "held" /\ phase[l] = "held"
    BY DEF SniperInv, LeaseOnlyWhileBuying
  <2>3. QED
    BY <2>1, <2>2 DEF Leases!ExclusiveLease, Leases!Holds
<1>4. QED
  BY <1>2, <1>3, PoolIsLeased, SniperInvariance, PTL

-----------------------------------------------------------------------------
\* A wallet that is marked names a buy: as many buys as wallets are in progress
\* when a launch is skipped.
LEMMA AllBuying ==
  ASSUME BaseType, Pool!NoLeakedWallet, LeaseOnlyWhileBuying, NEW l \in Launches, Skip(l)
  PROVE  LET buying == {k \in Launches \ {l} : stage[k] = "buying"}
         IN  IsFiniteSet(buying) /\ Cardinality(buying) >= NumWallets
<1> DEFINE buying == {k \in Launches \ {l} : stage[k] = "buying"}
           lease == [k \in buying |-> idx[k]]
<1>1. IsFiniteSet(buying)
  BY SniperAssumption, FS_Subset
<1>2. /\ stage[l] = "acquiring" /\ \A w \in Pool!Wallets : busy[w]
      /\ idx \in [Launches -> Pool!Wallets]
  BY DEF Skip, Pool!Deny, BaseType, Pool!TypeOK
<1>3. \A w \in Pool!Wallets : \E k \in buying : lease[k] = w
  BY <1>2 DEF Pool!NoLeakedWallet, Pool!Holds, LeaseOnlyWhileBuying
<1>4. lease \in Surjection(buying, Pool!Wallets)
  BY <1>2, <1>3 DEF Surjection
<1>5. Cardinality(Pool!Wallets) <= Cardinality(buying)
  BY <1>1, <1>4, FS_Surjection
<1>6. Cardinality(Pool!Wallets) = NumWallets
  <2>1. NumWallets - 1 \in Int /\ 0 <= NumWallets - 1 /\ (NumWallets - 1) - 0 + 1 = NumWallets
    BY SniperAssumption
  <2>2. QED
    BY <2>1, FS_Interval DEF Pool!Wallets
<1>7. Cardinality(buying) \in Nat /\ NumWallets \in Nat
  BY <1>1, FS_CardinalityType, SniperAssumption
<1>8. QED
  BY <1>1, <1>5, <1>6, <1>7

\* Only the step that was denied a wallet ends a launch as skipped.
LEMMA SkipIsDenial ==
  ASSUME BaseType, [Next]_vars, NEW l \in Launches,
         outcome'[l] = "skipped", outcome[l] # "skipped"
  PROVE  Skip(l)
<1>0. outcome \in [Launches -> Outcomes]
  BY DEF BaseType
<1>1. PICK k \in Launches : TaskStep(k) \/ Abort(k)
  BY DEF Next, LoopStep, ListenerSend, ListenerReconnecting, ListenerStops, ShutdownSignal,
         PollShutdown, Receive, Park, StreamEnd, SpawnSnipe, vars
<1>2. PICK s, o : Advance(k, s, o)
  BY <1>1 DEF TaskStep, Prefilter, Evaluate, PickWallet, StartBuy, Skip, FinishBuy,
              ReleasePermit, Abort
<1>3. k = l /\ outcome'[l] = o
  BY <1>0, <1>2 DEF Advance
<1>4. QED
  BY <1>0, <1>1, <1>3
     DEF TaskStep, Prefilter, Evaluate, PickWallet, StartBuy, FinishBuy, BuyOutcomes,
         ReleasePermit, Abort, Advance

\* A launch is skipped only while as many other buys as there are wallets are
\* under way: a flag that is set always stands for a buy in progress.
THEOREM SkipsAreHonest == Spec => SkipOnlyWhenAllBuying
<1>1. SniperInv /\ Pool!NoLeakedWallet /\ [Next]_vars =>
        [\A l \in Launches :
           outcome'[l] = "skipped" /\ outcome[l] # "skipped" =>
             Cardinality({k \in Launches \ {l} : stage[k] = "buying"}) >= NumWallets]_vars
  <2> SUFFICES ASSUME SniperInv, Pool!NoLeakedWallet, [Next]_vars, NEW l \in Launches,
                      outcome'[l] = "skipped", outcome[l] # "skipped"
               PROVE  Cardinality({k \in Launches \ {l} : stage[k] = "buying"}) >= NumWallets
    OBVIOUS
  <2>1. Skip(l)
    BY SkipIsDenial DEF SniperInv
  <2>2. QED
    BY <2>1, AllBuying DEF SniperInv
<1>2. QED
  BY <1>1, SniperInvariance, LeakFreedom, PTL DEF Spec, SkipOnlyWhenAllBuying

\* The permit of the skipped launch comes on top of those of the buys.
LEMMA NoSkipStep ==
  SniperInv /\ Pool!NoLeakedWallet /\ NoSkipWhenPoolCovers /\ [Next]_vars =>
    NoSkipWhenPoolCovers'
<1> SUFFICES ASSUME SniperInv, Pool!NoLeakedWallet, NoSkipWhenPoolCovers, [Next]_vars,
                    strategy' = "FirstAvailable", Permits' <= NumWallets,
                    NEW l \in Launches, outcome'[l] = "skipped"
             PROVE  FALSE
  BY DEF NoSkipWhenPoolCovers
<1>1. BaseType /\ PermitsConserved /\ LeaseOnlyWhileBuying
  BY DEF SniperInv
<1>2. strategy = "FirstAvailable" /\ Permits' = Permits
  <2>1. strategy' = strategy
    BY PoolOrNot DEF poolVars, PoolStep, Pool!PickRoundRobin, Pool!PickRandom, Pool!MarkBusy,
                     Pool!TakeFirstAvailable, Pool!Deny, Pool!Release, Pool!Move
  <2>2. limit' = limit
    BY DEF vars, config, Next, LoopStep, TaskStep, ListenerSend, ListenerReconnecting,
           ListenerStops, ShutdownSignal, PollShutdown, Receive, Park, StreamEnd,
           SpawnSnipe, Prefilter, Evaluate, PickWallet, StartBuy, Skip, FinishBuy,
           ReleasePermit, Abort
  <2>3. QED
    BY <2>1, <2>2 DEF Permits
<1>3. Skip(l)
  BY <1>1, <1>2, SkipIsDenial DEF NoSkipWhenPoolCovers
<1> DEFINE buying == {k \in Launches \ {l} : stage[k] = "buying"}
<1>4. IsFiniteSet(buying) /\ Cardinality(buying) >= NumWallets
  BY <1>1, <1>3, AllBuying
<1>5. /\ l \notin buying
      /\ buying \cup {l} \subseteq Holders
  BY <1>3 DEF Skip, Holders, Running
<1>6. IsFiniteSet(Holders)
  BY SniperAssumption, FS_Subset DEF Holders
<1> HIDE DEF buying
<1>7. Cardinality(buying \cup {l}) = Cardinality(buying) + 1
  BY <1>4, <1>5, FS_AddElement
<1>8. Cardinality(buying \cup {l}) <= Cardinality(Holders)
  BY <1>5, <1>6, FS_Subset
<1>9. /\ Cardinality(buying) \in Nat /\ Cardinality(Holders) \in Nat /\ permits \in Nat
      /\ permits + Cardinality(Holders) = Permits /\ NumWallets \in Nat
  BY <1>1, <1>4, <1>6, FS_CardinalityType, SniperAssumption DEF PermitsConserved, BaseType
<1>10. QED
  BY <1>2, <1>4, <1>7, <1>8, <1>9

\* With a wallet for every permit no launch is skipped for want of a wallet.
THEOREM PoolCovers == Spec => []NoSkipWhenPoolCovers
<1>1. Init => NoSkipWhenPoolCovers
  BY DEF Init, NoSkipWhenPoolCovers
<1>2. QED
  BY <1>1, NoSkipStep, SniperInvariance, LeakFreedom, PTL DEF Spec

-----------------------------------------------------------------------------
LEMMA OneHolder ==
  ASSUME BaseType, PermitsConserved, Permits = 1,
         NEW k \in Holders, NEW l \in Holders
  PROVE  k = l
<1>1. IsFiniteSet(Holders)
  BY SniperAssumption, FS_Subset DEF Holders
<1>2. /\ IsFiniteSet(Holders \ {k})
      /\ Cardinality(Holders \ {k}) = Cardinality(Holders) - 1
  BY <1>1, FS_RemoveElement
<1>3. /\ Cardinality(Holders) \in Nat /\ Cardinality(Holders \ {k}) \in Nat /\ permits \in Nat
      /\ permits + Cardinality(Holders) = 1
  BY <1>1, <1>2, FS_CardinalityType DEF BaseType, PermitsConserved
<1>4. Cardinality(Holders \ {k}) = 0
  BY <1>2, <1>3
<1>5. Holders \ {k} = {}
  BY <1>2, <1>4, FS_EmptySet
<1>6. QED
  BY <1>5

\* With one permit nobody else can clear the flag of a running buy.
MarkedInv == Permits = 1 => \A l \in Launches : phase[l] = "held" => busy[idx[l]]

LEMMA MarkedStep == SniperInv /\ MarkedInv /\ [Next]_vars => MarkedInv'
<1> SUFFICES ASSUME SniperInv, MarkedInv, [Next]_vars, Permits' = 1,
                    NEW k \in Launches, phase'[k] = "held"
             PROVE  busy'[idx'[k]]
  BY DEF MarkedInv
<1>1. BaseType /\ PermitsConserved /\ LeaseOnlyWhileBuying
  BY DEF SniperInv
<1>2. Permits = 1
  BY DEF Permits, vars, config, Next, LoopStep, TaskStep, ListenerSend, ListenerReconnecting,
         ListenerStops, ShutdownSignal, PollShutdown, Receive, Park, StreamEnd,
         SpawnSnipe, Prefilter, Evaluate, PickWallet, StartBuy, Skip, FinishBuy,
         ReleasePermit, Abort
<1>3. CASE UNCHANGED poolVars
  BY <1>2, <1>3 DEF MarkedInv, poolVars
<1>4. ASSUME NEW l \in Launches, PoolStep(l), stage[l] \in Running
      PROVE  busy'[idx'[k]]
  <2>0. /\ busy \in [Pool!Wallets -> BOOLEAN]
        /\ phase \in [Launches -> Pool!Phases]
        /\ idx \in [Launches -> Pool!Wallets]
    BY <1>1 DEF BaseType, Pool!TypeOK
  <2>1. phase[k] = "held" => k = l
    <3>1. phase[k] = "held" => k \in Holders
      BY <1>1 DEF LeaseOnlyWhileBuying, Holders, Running
    <3>2. l \in Holders
      BY <1>4 DEF Holders
    <3>3. QED
      BY <1>1, <1>2, <3>1, <3>2, OneHolder
  <2>2. k = l
    BY <1>4, <2>0, <2>1
       DEF PoolStep, Pool!PickRoundRobin, Pool!PickRandom, Pool!MarkBusy,
           Pool!TakeFirstAvailable, Pool!Deny, Pool!Release, Pool!Move
  <2>3. QED
    BY <1>4, <2>0, <2>2
       DEF PoolStep, Pool!PickRoundRobin, Pool!PickRandom, Pool!MarkBusy,
           Pool!TakeFirstAvailable, Pool!Deny, Pool!Release, Pool!Move
<1>5. QED
  BY <1>3, <1>4, PoolOrNot

\* With a single permit no wallet is leased twice and the flags are exact, under
\* every strategy, also those that mark a wallet without looking at its flag.
THEOREM SerialFlags == Spec => []SerialLease
<1>1. Init => MarkedInv
  BY DEF Init, Pool!Init, MarkedInv
<1>2. SniperInv /\ Pool!NoLeakedWallet /\ MarkedInv => SerialLease
  <2> SUFFICES ASSUME SniperInv, Pool!NoLeakedWallet, MarkedInv, Permits = 1,
                      NEW w \in Pool!Wallets
               PROVE  LET tasks == {l \in Launches : Pool!Holds(l, w)}
                      IN  /\ \A k, l \in tasks : k = l
                          /\ busy[w] <=> tasks # {}
    BY DEF SerialLease
  <2>1. \A k, l \in Launches : Pool!Holds(k, w) /\ Pool!Holds(l, w) => k = l
    <3> SUFFICES ASSUME NEW k \in Launches, NEW l \in Launches,
                        Pool!Holds(k, w), Pool!Holds(l, w)
                 PROVE  k = l
      OBVIOUS
    <3>1. k \in Holders /\ l \in Holders
      BY DEF SniperInv, LeaseOnlyWhileBuying, Pool!Holds, Holders, Running
    <3>2. QED
      BY <3>1, OneHolder DEF SniperInv
  <2>2. busy[w] <=> \E l \in Launches : Pool!Holds(l, w)
    BY DEF Pool!NoLeakedWallet, Pool!Holds, MarkedInv
  <2>3. QED
    BY <2>1, <2>2
<1>3. QED
  BY <1>1, <1>2, MarkedStep, SniperInvariance, LeakFreedom, PTL DEF Spec

-----------------------------------------------------------------------------
\* The loop implements the receiving side of Feed.
Taken == {l \in Launches : stage[l] \notin {"new", "queued"}}

\* A step of a task, or of the loop with a launch in hand, takes nothing.
LEMMA TakenKept ==
  ASSUME BaseType, NEW l \in Launches, SpawnSnipe(l) \/ TaskStep(l) \/ Abort(l)
  PROVE  Taken' = Taken
<1>0. stage \in [Launches -> Stages]
  BY DEF BaseType
<1>1. CASE PickWallet(l)
  BY <1>1 DEF PickWallet, Taken
<1>2. CASE ~PickWallet(l)
  <2>1. /\ stage[l] \notin {"new", "queued"}
        /\ \E s \in Running \cup {"done"} : stage' = [stage EXCEPT ![l] = s]
    BY <1>2
       DEF Running, TaskStep, SpawnSnipe, Prefilter, Evaluate, StartBuy, Skip, FinishBuy,
           ReleasePermit, Abort, Advance
  <2>2. PICK s \in Running \cup {"done"} : stage' = [stage EXCEPT ![l] = s]
    BY <2>1
  <2>3. \A k \in Launches : stage'[k] \in {"new", "queued"} <=> stage[k] \in {"new", "queued"}
    BY <1>0, <2>1, <2>2 DEF Running
  <2>4. QED
    BY <2>3 DEF Taken
<1>3. QED
  BY <1>1, <1>2

LEMMA FeedStep ==
  BaseType /\ QueueInv /\ [Next]_vars => [TheFeed!Next]_(TheFeed!vars)
<1> SUFFICES ASSUME BaseType, QueueInv, [Next]_vars
             PROVE  [TheFeed!Next]_(TheFeed!vars)
  OBVIOUS
<1>0. /\ stage \in [Launches -> Stages]
      /\ channel \in Seq(Launches \cup {Reconnecting})
      /\ DOMAIN channel = 1 .. Len(channel)
  BY DEF BaseType
<1>a. UNCHANGED <<channel, listening>> /\ Taken' = Taken => UNCHANGED TheFeed!vars
  BY DEF TheFeed!vars, Taken
<1>1. ASSUME NEW l \in Launches, ListenerSend(l)
      PROVE  TheFeed!Next
  <2>1. /\ stage[l] = "new" /\ stage' = [stage EXCEPT ![l] = "queued"]
        /\ UNCHANGED listening
    BY <1>1 DEF ListenerSend
  <2>2. l \notin Taken /\ Taken' = Taken
    BY <1>0, <2>1 DEF Taken
  <2>3. l \notin TheFeed!ToSet(channel)
    BY <1>0, <2>1 DEF QueueInv, TheFeed!ToSet
  <2>4. TheFeed!Put(l)
    BY <1>1 DEF ListenerSend, Post, TheFeed!Put
  <2>5. TheFeed!SendItem(l)
    BY <2>1, <2>2, <2>3, <2>4 DEF TheFeed!SendItem, Taken
  <2>6. QED
    BY <2>5 DEF TheFeed!Next
<1>2. CASE ListenerReconnecting
  BY <1>2 DEF ListenerReconnecting, Post, TheFeed!Next, TheFeed!SendNotice, TheFeed!Put
<1>3. CASE ListenerStops
  BY <1>3 DEF ListenerStops, TheFeed!Next, TheFeed!Close
<1>4. CASE Receive
  <2>1. channel # <<>> /\ channel' = Tail(channel) /\ UNCHANGED listening
    BY <1>4 DEF Receive
  <2>2. /\ Head(channel) \in Launches \cup {Reconnecting}
        /\ Head(channel) = channel[1] /\ 1 \in 1 .. Len(channel)
    BY <1>0, <2>1
  <2>3. CASE Head(channel) = Reconnecting
    <3>1. Taken' = Taken \cup ({Head(channel)} \ {Reconnecting})
      BY <1>4, <2>3 DEF Receive, Taken
    <3>2. QED
      BY <2>1, <3>1 DEF TheFeed!Next, TheFeed!Take, Taken
  <2>4. CASE Head(channel) # Reconnecting
    <3>1. /\ Head(channel) \in Launches
          /\ stage' = [stage EXCEPT ![Head(channel)] = "hand"]
      BY <1>4, <2>2, <2>4 DEF Receive
    <3>2. Taken' = Taken \cup ({Head(channel)} \ {Reconnecting})
      BY <1>0, <2>4, <3>1 DEF Taken
    <3>3. QED
      BY <2>1, <3>2 DEF TheFeed!Next, TheFeed!Take, Taken
  <2>5. QED
    BY <2>3, <2>4
<1>5. ASSUME NEW l \in Launches, SpawnSnipe(l) \/ TaskStep(l) \/ Abort(l)
      PROVE  UNCHANGED TheFeed!vars
  <2>1. UNCHANGED <<channel, listening>>
    BY <1>5 DEF SpawnSnipe, TaskStep, Prefilter, Evaluate, PickWallet, StartBuy, Skip,
                FinishBuy, ReleasePermit, Abort, loopVars
  <2>2. QED
    BY <1>5, <1>a, <2>1, TakenKept
<1>6. CASE UNCHANGED <<channel, listening, stage>>
  BY <1>6, <1>a DEF Taken
<1>7. QED
  BY <1>1, <1>2, <1>3, <1>4, <1>5, <1>6
     DEF Next, LoopStep, ShutdownSignal, PollShutdown, Park, StreamEnd, vars, loopVars

\* Oldest first, each launch once, none put back or passed over by a shutdown.
THEOREM Reading == Spec => ReadsTheFeed
<1>1. Init => TheFeed!Init
  BY DEF Init, TheFeed!Init
<1>2. SniperInv => BaseType /\ QueueInv
  BY DEF SniperInv
<1>3. QED
  BY <1>1, <1>2, FeedStep, SniperInvariance, PTL DEF Spec, ReadsTheFeed, TheFeed!Spec

-----------------------------------------------------------------------------
\* The safety of SnipeService: how many snipes run, and what begins when.
Works == [l \in Launches |-> Work(l)]

LEMMA WorkIs ==
  ASSUME NEW l \in Launches
  PROVE  Works[l] = IF stage[l] \in Running THEN "running"
                    ELSE IF stage[l] = "done" THEN "ended" ELSE "waiting"
BY DEF Works, Work, Running

LEMMA RunningIsHolding == Service!Cardinality(Service!Running) = Cardinality(Holders)
<1>1. Service!Running = Holders
  BY WorkIs DEF Service!Running, Works, Holders
<1>2. Service!Cardinality(Holders) = Cardinality(Holders)
  BY DEF Service!Cardinality, Cardinality
<1>3. QED
  BY <1>1, <1>2

\* The work of a launch changes with its stage and of no other launch.
LEMMA WorkStep ==
  ASSUME BaseType, NEW l \in Launches, NEW s, stage' = [stage EXCEPT ![l] = s]
  PROVE  Works' = [Works EXCEPT ![l] = IF s \in Running THEN "running"
                                      ELSE IF s = "done" THEN "ended" ELSE "waiting"]
<1>1. \A k \in Launches : stage'[k] = IF k = l THEN s ELSE stage[k]
  BY DEF BaseType
<1>2. \A k \in Launches :
        Works'[k] = IF stage'[k] \in Running THEN "running"
                    ELSE IF stage'[k] = "done" THEN "ended" ELSE "waiting"
  BY DEF Works, Work, Running
<1>3. QED
  BY <1>1, <1>2, WorkIs DEF Works

\* A step that keeps a launch on its side of running changes no work.
LEMMA WorkKept ==
  ASSUME BaseType, NEW l \in Launches, NEW s, stage' = [stage EXCEPT ![l] = s],
         \/ stage[l] \in Running /\ s \in Running
         \/ {stage[l], s} \cap (Running \cup {"done"}) = {}
  PROVE  Works' = Works
<1>1. stage[l] # "done" /\ s # "done" /\ (stage[l] \in Running <=> s \in Running)
  BY DEF Running
<1>2. Works' = [Works EXCEPT ![l] = Works[l]]
  BY <1>1, WorkStep, WorkIs
<1>3. QED
  BY <1>2 DEF Works

LEMMA ServiceStep == SniperInv /\ [Next]_vars => [Service!Next]_(Service!vars)
<1> SUFFICES ASSUME SniperInv, [Next]_vars
             PROVE  [Service!Next]_(Service!vars)
  OBVIOUS
<1>0. BaseType /\ QueueInv /\ PermitsConserved /\ LateInv
  BY DEF SniperInv
<1>p. Permits' = Permits
  BY DEF Permits, vars, config, Next, LoopStep, TaskStep, ListenerSend, ListenerReconnecting,
         ListenerStops, ShutdownSignal, PollShutdown, Receive, Park, StreamEnd,
         SpawnSnipe, Prefilter, Evaluate, PickWallet, StartBuy, Skip, FinishBuy,
         ReleasePermit, Abort
<1> DEFINE stopped == main = "exited"
<1>a. Works' = Works /\ UNCHANGED <<shutdown, late>> /\ stopped' = stopped =>
        UNCHANGED Service!vars
  BY <1>p DEF Service!vars, Works
<1>b. Works' = Works /\ UNCHANGED <<shutdown, late>> /\ stopped' => Service!Next
  BY <1>p DEF Service!Next, Service!Stop, Works
<1>1. ASSUME NEW l \in Launches, SpawnSnipe(l)
      PROVE  Service!Next
  <2>1. /\ main = "awaiting" /\ main' = "select" /\ stage[l] = "hand" /\ permits > 0
        /\ stage' = [stage EXCEPT ![l] = "spawned"]
        /\ late' = IF shutdown THEN late + 1 ELSE late
        /\ shutdown' = shutdown
    BY <1>1 DEF SpawnSnipe, TakePermit
  <2>2. Works[l] = "waiting" /\ Works' = [Works EXCEPT ![l] = "running"]
    BY <1>0, <2>1, WorkIs, WorkStep DEF Running
  <2>3. Service!Cardinality(Service!Running) < Permits
    <3>1. IsFiniteSet(Holders)
      BY SniperAssumption, FS_Subset DEF Holders
    <3>2. /\ Cardinality(Holders) \in Nat /\ permits \in Nat
          /\ permits + Cardinality(Holders) = Permits
      BY <1>0, <3>1, FS_CardinalityType DEF BaseType, PermitsConserved
    <3>3. QED
      BY <2>1, <3>2, RunningIsHolding
  <2>4. /\ late = 0
        /\ 1 - late' = IF shutdown THEN (1 - late) - 1 ELSE 1 - late
        /\ 1 - late' >= 0
    BY <1>0, <2>1 DEF LateInv
  <2>5. ~stopped /\ stopped' = stopped
    BY <2>1
  <2>6. Service!Begin(l)
    <3>1. /\ Works[l] = "waiting"
          /\ UNCHANGED <<Permits, shutdown, stopped>>
      BY <1>p, <2>1, <2>2, <2>5
    <3>2. /\ (1 - late)' = IF shutdown THEN (1 - late) - 1 ELSE 1 - late
          /\ (1 - late)' >= 0
      BY <2>4
    <3>3. [k \in Launches |-> Work(k)]' =
            [[k \in Launches |-> Work(k)] EXCEPT ![l] = "running"]
      BY <2>2 DEF Works
    <3>4. [k \in Launches |-> Work(k)][l] = "waiting"
      BY <2>2 DEF Works
    <3>5. QED
      BY <2>3, <2>5, <3>1, <3>2, <3>3, <3>4 DEF Service!Begin
  <2>7. QED
    BY <2>6 DEF Service!Next
<1>2. ASSUME NEW l \in Launches, ReleasePermit(l)
      PROVE  Service!Next
  <2>1. /\ stage[l] = "returning" /\ stage' = [stage EXCEPT ![l] = "done"]
        /\ UNCHANGED <<shutdown, late, main>>
    BY <1>2 DEF ReleasePermit, Advance, loopVars
  <2>2. Works[l] = "running" /\ Works' = [Works EXCEPT ![l] = "ended"]
    BY <1>0, <2>1, WorkIs, WorkStep DEF Running
  <2>3. Service!End(l)
    BY <1>p, <2>1, <2>2 DEF Service!End, Works
  <2>4. QED
    BY <2>3 DEF Service!Next
<1>3. ASSUME NEW l \in Launches,
             Prefilter(l) \/ Evaluate(l) \/ StartBuy(l) \/ Skip(l) \/ FinishBuy(l) \/ Abort(l)
      PROVE  UNCHANGED Service!vars
  <2>1. /\ UNCHANGED <<shutdown, late, main>>
        /\ stage[l] \in Running
        /\ \E s \in Running : stage' = [stage EXCEPT ![l] = s]
    BY <1>3 DEF Prefilter, Evaluate, StartBuy, Skip, FinishBuy, Abort, Advance, Running, loopVars
  <2>2. Works' = Works
    BY <1>0, <2>1, WorkKept
  <2>3. QED
    BY <1>a, <2>1, <2>2
<1>4. ASSUME NEW l \in Launches, ListenerSend(l)
      PROVE  UNCHANGED Service!vars
  <2>1. /\ stage[l] = "new" /\ stage' = [stage EXCEPT ![l] = "queued"]
        /\ UNCHANGED <<shutdown, late, main>>
    BY <1>4 DEF ListenerSend
  <2>2. Works' = Works
    BY <1>0, <2>1, WorkKept DEF Running
  <2>3. QED
    BY <1>a, <2>1, <2>2
<1>5. CASE Receive
  <2>1. UNCHANGED <<shutdown, late>> /\ ~stopped /\ ~stopped'
    BY <1>5 DEF Receive
  <2>2. Works' = Works
    <3>1. CASE UNCHANGED stage
      BY <3>1 DEF Works, Work
    <3>2. ASSUME NEW l \in Launches, stage[l] = "queued",
                 stage' = [stage EXCEPT ![l] = "hand"]
          PROVE  Works' = Works
      BY <1>0, <3>2, WorkKept DEF Running
    <3>3. QED
      BY <1>0, <1>5, <3>1, <3>2, ReceiveEffect
  <2>3. QED
    BY <1>a, <2>1, <2>2
<1>6. CASE ShutdownSignal
  <2>1. shutdown' = TRUE /\ UNCHANGED <<stage, late, main>>
    BY <1>6 DEF ShutdownSignal
  <2>2. Works' = Works
    BY <2>1 DEF Works, Work
  <2>3. QED
    BY <1>p, <2>1, <2>2 DEF Service!Next, Service!Tell, Works
<1>7. CASE PollShutdown \/ Park \/ StreamEnd
  <2>1. UNCHANGED <<stage, shutdown, late>> /\ ~stopped
    BY <1>7 DEF PollShutdown, Park, StreamEnd
  <2>2. Works' = Works
    BY <2>1 DEF Works, Work
  <2>3. QED
    BY <1>a, <1>b, <2>1, <2>2
<1>8. CASE UNCHANGED <<stage, shutdown, late, main>>
  <2>1. Works' = Works
    BY <1>8 DEF Works, Work
  <2>2. QED
    BY <1>a, <1>8, <2>1
<1>9. QED
  BY <1>1, <1>2, <1>3, <1>4, <1>5, <1>6, <1>7, <1>8
     DEF Next, LoopStep, TaskStep, ListenerReconnecting, ListenerStops, PickWallet,
         vars, loopVars

\* The safety of the service: never more snipes at once than the configured
\* number, each begun once and ended once, one begun at most after the signal,
\* none after the exit.
THEOREM ServiceIsSafe == Spec => Service!Safety
<1>1. ASSUME Init
      PROVE  Service!Init
  <2>1. Permits \in Nat \ {0} /\ shutdown = FALSE /\ 1 - late = 1 /\ main # "exited"
    BY <1>1, PermitsType DEF Init
  <2>2. \A l \in Launches : Work(l) = "waiting"
    BY <1>1 DEF Init, Work, Running
  <2>3. QED
    BY <2>1, <2>2 DEF Service!Init
<1>2. QED
  BY <1>1, ServiceStep, SniperInvariance, PTL DEF Spec, Service!Safety
=============================================================================
