------------------------------ MODULE Screening ------------------------------
(***************************************************************************)
(* From the chain to a verdict: the server's filter decides whether a      *)
(* transaction is delivered (src/listener.rs), the detector turns it into  *)
(* launches (module Detector), and each launch is prefiltered, enriched    *)
(* and evaluated by handle_launch of src/main.rs (module Filters).  One    *)
(* transaction is followed; what it shares with other launches - channel,  *)
(* permits, wallets - is in modules Listener and Sniper.                   *)
(*                                                                         *)
(* The environment picks the transaction.  Each instruction records the    *)
(* launch that it makes, so that the properties can compare it with what   *)
(* the bot made of it.                                                     *)
(***************************************************************************)
EXTENDS Integers, Sequences, FiniteSets

CONSTANTS
  None, Program,  \* see Detector
  Accounts,       \* the public keys
  Texts,          \* the names and symbols
  Transactions,   \* the transactions the chain may contain
  RuleSets,       \* the [filters] sections the bot may be configured with
  Enrichment      \* what fetch_launch_facts may return; the stub only None

VARIABLES
  targets,   \* the enabled venues
  rules,     \* the ruleset
  tx,        \* the transaction
  status,    \* "landed", then "withheld" by the server or "read" by the listener
  launches,  \* the launch events extracted from it
  stage,     \* where the handling of each stands
  facts      \* what was fetched about each

vars == <<targets, rules, tx, status, launches, stage, facts>>

D == INSTANCE Detector
F == INSTANCE Filters

Stages == {"new", "prefiltered", "enriched", "accepted", "rejected"}

-----------------------------------------------------------------------------
\* The chain, which is the environment.

\* A launch; readable is how many of its texts, from the first on, can be read.
Launches ==
  [venue : D!Venues, mint : Accounts, creator : Accounts, pool : Accounts,
   name : Texts \cup {None}, symbol : Texts \cup {None}, readable : 0 .. 2]

\* A launch event of the detector.
Events ==
  [venue : D!Venues, mint : Accounts, creator : Accounts, pool : Accounts \cup {None},
   name : Texts \cup {None}, symbol : Texts \cup {None}]

Instructions ==
  [program : Accounts, create : BOOLEAN, accounts : Seq(Accounts),
   fields : Seq([text : Texts \cup {None}, ok : BOOLEAN]), makes : Launches \cup {None}]

\* The instructions in the order in which they are walked.
Walk(t) == t.outer \o t.inner

\* Where the venue's program expects the parts of the launch c that ix makes.  The
\* layout of LaunchLab varies by pool type: of it no more is known than that the
\* pool, the mint and the creator are among the accounts, somewhere.
LaidOut(ix, c) ==
  /\ ix.create /\ ix.program = Program[c.venue]
  /\ c.venue = "PumpFun" =>
       /\ Len(ix.accounts) >= 8
       /\ c.mint = ix.accounts[1] /\ c.pool = ix.accounts[3] /\ c.creator = ix.accounts[8]
       /\ Len(ix.fields) >= 2
       /\ {c.name, c.symbol} \subseteq Texts
       /\ c.name = ix.fields[1].text /\ c.symbol = ix.fields[2].text
       /\ ix.fields[1].ok <=> c.readable >= 1
       /\ ix.fields[1].ok => (ix.fields[2].ok <=> c.readable = 2)
  /\ c.venue = "RaydiumLaunchLab" =>
       /\ Len(ix.accounts) >= 2
       /\ {c.pool, c.mint, c.creator} \subseteq
            {ix.accounts[i] : i \in DOMAIN ix.accounts}

\* A transaction lists or loads every account its instructions name, a launch
\* is made by the instruction that says so, and the mint of a Pump.fun launch,
\* which signs, is never loaded through a table.
OnChain(t, ix) ==
  /\ {ix.program} \cup {ix.accounts[i] : i \in DOMAIN ix.accounts}
       \subseteq t.static \cup t.loaded
  /\ ix.makes # None => LaidOut(ix, ix.makes)
  /\ \A v \in D!Venues :
       ix.create /\ ix.program = Program[v] => ix.makes # None
  /\ ix.makes # None /\ ix.makes.venue = "PumpFun" => ix.makes.mint \in t.static

ASSUME ScreeningAssumption ==
  /\ Program \in [D!Venues -> Accounts]
  /\ Program["PumpFun"] # Program["RaydiumLaunchLab"]
  /\ None \notin Accounts \cup Texts \cup Launches \cup Events
  /\ \A r \in RuleSets : r.minLiquidity \in Int /\ r.minLpLocked \in Int

ASSUME ChainAssumption ==
  \A t \in Transactions :
    /\ t.outer \in Seq(Instructions) /\ t.inner \in Seq(Instructions)
    /\ t.failed \in BOOLEAN
    /\ \A i \in DOMAIN Walk(t) : OnChain(t, Walk(t)[i])

-----------------------------------------------------------------------------
TypeOK ==
  /\ targets \subseteq D!Venues
  /\ rules \in RuleSets
  /\ tx \in Transactions
  /\ status \in {"landed", "withheld", "read"}
  /\ launches \in Seq(Events)
  /\ stage \in [DOMAIN launches -> Stages]
  /\ facts \in [DOMAIN launches -> Enrichment \cup {None}]

Init ==
  /\ targets \in SUBSET D!Venues
  /\ rules \in RuleSets
  /\ tx \in Transactions
  /\ status = "landed"
  /\ launches = <<>>
  /\ stage = <<>>
  /\ facts = <<>>

\* The server does not match the transaction to the subscription.
Withhold ==
  /\ status = "landed"
  /\ ~D!Matches(D!Watched(targets), tx)
  /\ status' = "withheld"
  /\ UNCHANGED <<targets, rules, tx, launches, stage, facts>>

\* The update arrives and its launches are sent on, each to a task of its own.
Read ==
  /\ status = "landed"
  /\ D!Matches(D!Watched(targets), tx)
  /\ status' = "read"
  /\ launches' = D!Extract(targets, tx)
  /\ stage' = [i \in DOMAIN launches' |-> "new"]
  /\ facts' = [i \in DOMAIN launches' |-> None]
  /\ UNCHANGED <<targets, rules, tx>>

\* The handling of launch i moves from stage s on to t if it passes.
Judge(i, s, t, passes) ==
  /\ stage[i] = s
  /\ stage' = [stage EXCEPT ![i] = IF passes THEN t ELSE "rejected"]
  /\ UNCHANGED <<targets, rules, tx, status, launches>>

Prefilter(i) ==
  /\ Judge(i, "new", "prefiltered", F!Prefilter(rules, launches[i]))
  /\ UNCHANGED facts

FetchFacts(i) ==
  /\ Judge(i, "prefiltered", "enriched", TRUE)
  /\ \E f \in Enrichment : facts' = [facts EXCEPT ![i] = f]

Evaluate(i) ==
  /\ Judge(i, "enriched", "accepted",
           F!Evaluate(rules, launches[i], F!FactsOrDefault(facts[i])))
  /\ UNCHANGED facts

Next ==
  \/ Withhold
  \/ Read
  \/ \E i \in DOMAIN launches : Prefilter(i) \/ FetchFacts(i) \/ Evaluate(i)

Spec == Init /\ [][Next]_vars

-----------------------------------------------------------------------------
\* The launches that the transaction made, and the ones of the enabled venues
\* among them in the order in which the instructions are walked.
Creates == {Walk(tx)[k].makes : k \in DOMAIN Walk(tx)} \ {None}

Made ==
  D!SelectAt([k \in DOMAIN Walk(tx) |-> Walk(tx)[k].makes],
             {k \in DOMAIN Walk(tx) :
                Walk(tx)[k].makes # None /\ Walk(tx)[k].makes.venue \in targets})

\* No account of the transaction comes from a lookup table.
Legacy == tx.loaded = {}

Readable(c, n) == c.venue = "PumpFun" /\ c.readable >= n

\* Event ev is about launch c, and if that is one of Pump.fun it says what the
\* chain says.  Which accounts of a LaunchLab instruction are the mint, the creator
\* and the pool depends on the pool type, which the decoder does not look at.
Describes(ev, c) ==
  /\ ev.venue = c.venue
  /\ c.venue = "PumpFun" =>
       ev.mint = c.mint /\ ev.creator = c.creator /\ ev.pool = c.pool

\* Of a transaction without lookup tables the bot reports every launch, at
\* whatever depth, once and in its place, one of Pump.fun with its own mint,
\* creator and pool, and nothing else: no trade, no launch of a disabled venue,
\* none of a failed transaction.
ReportsTheLaunchesMade ==
  status = "read" /\ Legacy =>
    /\ ~tx.failed
    /\ Len(launches) = Len(Made)
    /\ \A i \in DOMAIN launches : Describes(launches[i], Made[i])

\* However its data is cut or garbled, and whatever accounts are loaded, a
\* Pump.fun launch is never given another field's text: a name or a symbol is
\* the launch's own or absent.
MetadataIsOwn ==
  \A i \in DOMAIN launches :
    launches[i].venue = "PumpFun" =>
      \E c \in Creates :
        /\ c.mint = launches[i].mint
        /\ launches[i].name = IF Readable(c, 1) THEN c.name ELSE None
        /\ launches[i].symbol = IF Readable(c, 2) THEN c.symbol ELSE None

\* A launch the bot goes on to buy satisfies the lists and the patterns as the
\* chain tells it, except for metadata that cannot be read, and for the creator of
\* a LaunchLab launch, which is the account the detector took for it.
AcceptedIsAllowed ==
  \A i \in DOMAIN launches :
    stage[i] = "accepted" /\ Legacy =>
      LET c == Made[i]
          dev == IF c.venue = "PumpFun" THEN c.creator ELSE launches[i].creator
      IN  /\ dev \notin rules.block
          /\ rules.allow = {} \/ dev \in rules.allow
          /\ Readable(c, 1) => \A re \in rules.nameDeny : c.name \notin re
          /\ Readable(c, 1) /\ rules.nameAllow # {} =>
               \E re \in rules.nameAllow : c.name \in re
          /\ Readable(c, 2) /\ rules.symbolAllow # {} =>
               \E re \in rules.symbolAllow : c.symbol \in re

\* A launch about which nothing could be fetched is bought only under rules
\* without a lower bound and without a rug check.  The bound on the supply is
\* left out: the default supply of zero passes it.
UnenrichedNeedsNoCheck ==
  \A i \in DOMAIN launches :
    stage[i] = "accepted" /\ facts[i] = None =>
      /\ rules.minLiquidity <= 0 /\ rules.minLpLocked <= 0
      /\ ~rules.needMintRenounced /\ ~rules.needFreezeNull /\ ~rules.needSocials

\* "Accounts (observed order): ... user (creator/payer)" and "`accounts` the
\* ordered account pubkeys for the instruction" (detector.rs): the creator the
\* detector reports for a Pump.fun launch is the account at that place of the
\* instruction.
CreatorIsTheUser ==
  \A i \in DOMAIN launches :
    launches[i].venue = "PumpFun" =>
      \E c \in Creates : c.mint = launches[i].mint /\ c.creator = launches[i].creator

\* "all program ids this detector watches - used to narrow the Geyser
\* subscription filter" (detector.rs): the filter leaves out only what the
\* detector does not watch.
WithheldHasNoLaunch == status = "withheld" => tx.failed \/ Made = <<>>
=============================================================================
