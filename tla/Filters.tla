------------------------------- MODULE Filters -------------------------------
(***************************************************************************)
(* The filter engine of src/filters.rs as predicates on a launch event, a  *)
(* ruleset and the facts fetched about the launch.  A verdict is whether   *)
(* the launch is accepted; the reason, which is only logged, is left out.  *)
(* A regex is the set of texts it matches, an amount a natural number.     *)
(***************************************************************************)
EXTENDS Integers

CONSTANT None  \* Option::None

MatchesAny(patterns, text) == \E re \in patterns : text \in re

CreatorPasses(rules, ev) ==
  /\ rules.allow # {} => ev.creator \in rules.allow
  /\ ev.creator \notin rules.block

\* Mutant: a launch that matches an allow pattern skips the deny patterns.
NamePassesIfAllowed(rules, ev) ==
  ev.name # None =>
    \/ MatchesAny(rules.nameAllow, ev.name)
    \/ rules.nameAllow = {} /\ ~MatchesAny(rules.nameDeny, ev.name)

\* A launch without a name skips the patterns for names.
NamePasses(rules, ev) ==
  ev.name # None =>
    /\ ~MatchesAny(rules.nameDeny, ev.name)
    /\ rules.nameAllow # {} => MatchesAny(rules.nameAllow, ev.name)

SymbolPasses(rules, ev) ==
  ev.symbol # None /\ rules.symbolAllow # {} => MatchesAny(rules.symbolAllow, ev.symbol)

\* prefilter()
Prefilter(rules, ev) ==
  CreatorPasses(rules, ev) /\ NamePasses(rules, ev) /\ SymbolPasses(rules, ev)

\* LaunchFacts::default()
DefaultFacts ==
  [liquidity |-> 0, supply |-> 0, mintRenounced |-> FALSE, freezeNull |-> FALSE,
   lpLocked |-> 0, socials |-> FALSE]

\* Mutant: the neutral facts are those of a launch nothing is wrong with.
OptimisticFacts(facts) ==
  IF facts = None
    THEN [DefaultFacts EXCEPT !.mintRenounced = TRUE, !.freezeNull = TRUE]
    ELSE facts

\* unwrap_or_default()
FactsOrDefault(facts) == IF facts = None THEN DefaultFacts ELSE facts

\* evaluate(): the prefilter once more, then the thresholds that are set.
Evaluate(rules, ev, facts) ==
  /\ Prefilter(rules, ev)
  /\ rules.minLiquidity > 0 => facts.liquidity >= rules.minLiquidity
  /\ rules.maxSupply > 0 => facts.supply <= rules.maxSupply
  /\ rules.needMintRenounced => facts.mintRenounced
  /\ rules.needFreezeNull => facts.freezeNull
  /\ rules.minLpLocked > 0 => facts.lpLocked >= rules.minLpLocked
  /\ rules.needSocials => facts.socials
=============================================================================
