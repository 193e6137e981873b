---------------------------- MODULE SnipeService ----------------------------
(***************************************************************************)
(* What the bot promises its operator about the launches it has received,  *)
(* without channel, semaphore or wallets: each is sniped at most once, no  *)
(* more than slots at a time, one at most is begun after the bot was told  *)
(* to stop, whatever was begun ends, and so does the bot.                  *)
(***************************************************************************)
EXTENDS Integers, FiniteSets

CONSTANT Jobs  \* the launches

VARIABLES
  slots,   \* runtime.max_concurrent_snipes, at least one
  work,    \* each launch is "waiting", "running" or "ended"
  told,    \* the bot was told to stop
  grace,   \* the snipes it may still begin after that
  stopped  \* it begins no more

vars == <<slots, work, told, grace, stopped>>

Running == {j \in Jobs : work[j] = "running"}

Init ==
  /\ slots \in Nat \ {0}
  /\ work = [j \in Jobs |-> "waiting"]
  /\ told = FALSE
  /\ grace = 1
  /\ stopped = FALSE

Begin(j) ==
  /\ ~stopped
  /\ work[j] = "waiting"
  /\ Cardinality(Running) < slots
  /\ grace' = IF told THEN grace - 1 ELSE grace
  /\ grace' >= 0
  /\ work' = [work EXCEPT ![j] = "running"]
  /\ UNCHANGED <<slots, told, stopped>>

End(j) ==
  /\ work[j] = "running"
  /\ work' = [work EXCEPT ![j] = "ended"]
  /\ UNCHANGED <<slots, told, grace, stopped>>

Tell == told' = TRUE /\ UNCHANGED <<slots, work, grace, stopped>>

Stop == stopped' = TRUE /\ UNCHANGED <<slots, work, told, grace>>

Next == (\E j \in Jobs : Begin(j) \/ End(j)) \/ Tell \/ Stop

Safety == Init /\ [][Next]_vars

Spec ==
  /\ Safety
  /\ \A j \in Jobs : work[j] = "running" ~> work[j] = "ended"
  /\ told ~> stopped
=============================================================================
