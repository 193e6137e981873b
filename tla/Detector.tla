------------------------------ MODULE Detector ------------------------------
(***************************************************************************)
(* How a transaction becomes launch events: the decoders of                *)
(* src/detector.rs and the walk over the instructions in extract_launches  *)
(* of src/listener.rs, as operators on records.                            *)
(*                                                                         *)
(* A transaction lists some of its accounts in the message ("static") and  *)
(* may load others through address lookup tables.  An instruction names    *)
(* accounts by index into both lists; the code resolves an index against   *)
(* the static ones only.  An index is modelled by the account it stands    *)
(* for, so resolving it is a test of membership in tx.static.              *)
(*                                                                         *)
(* Instruction data is its discriminator and a sequence of Borsh fields;   *)
(* a field that is cut short or is not UTF-8 is there with ok = FALSE.     *)
(***************************************************************************)
EXTENDS Integers, Sequences, FiniteSets, SequencesExt

CONSTANTS
  None,     \* Option::None
  Program   \* the configured program id of each venue

Venues == {"PumpFun", "RaydiumLaunchLab"}

\* slice.get(i), which counts from 0.
Get(s, i) == IF i < Len(s) THEN s[i + 1] ELSE None

-----------------------------------------------------------------------------
\* The decoders.

\* Mutant: the cursor stays where it is after a field was read.
SkipNothing(fields) == fields

\* read_borsh_string: a field that does not read as a string is None and the
\* cursor stays in front of it.
ReadString(fields) ==
  IF fields # <<>> /\ Head(fields).ok THEN Head(fields).text ELSE None

SkipString(fields) ==
  IF fields # <<>> /\ Head(fields).ok THEN Tail(fields) ELSE fields

Event(venue, mint, creator, pool, name, symbol) ==
  [venue |-> venue, mint |-> mint, creator |-> creator, pool |-> pool,
   name |-> name, symbol |-> symbol]

\* Mutant: a missing account is taken as it comes.
DecodePumpfunUnchecked(fields, accounts) ==
  Event("PumpFun", Get(accounts, 0), Get(accounts, 7), Get(accounts, 2),
        ReadString(fields), ReadString(SkipString(fields)))

\* The ? operator on the mint and the creator; the pool stays an Option.  The
\* uri, which nothing reads, is left out.
DecodePumpfun(fields, accounts) ==
  IF None \in {Get(accounts, 0), Get(accounts, 7)} THEN None
  ELSE Event("PumpFun", Get(accounts, 0), Get(accounts, 7), Get(accounts, 2),
             ReadString(fields), ReadString(SkipString(fields)))

DecodeRaydium(accounts) ==
  IF Len(accounts) < 2 THEN None
  ELSE Event("RaydiumLaunchLab", Get(accounts, 1), Last(accounts), Get(accounts, 0),
             None, None)

\* matcher_for and the comparison of the discriminator; ix.create says that the
\* data starts with the one configured for the program.
Recognises(targets, venue, ix) ==
  venue \in targets /\ ix.program = Program[venue] /\ ix.create

Decode(targets, ix, accounts) ==
  CASE Recognises(targets, "PumpFun", ix) -> DecodePumpfun(ix.fields, accounts)
    [] Recognises(targets, "RaydiumLaunchLab", ix) -> DecodeRaydium(accounts)
    [] OTHER -> None

-----------------------------------------------------------------------------
\* extract_launches.

\* The k-th smallest of the positions K.
Position(K, k) == CHOOSE i \in K : Cardinality({j \in K : j <= i}) = k

\* What stands in s at the positions K, in order: what filter_map collects.
SelectAt(s, K) == [k \in 1 .. Cardinality(K) |-> s[Position(K, k)]]

\* filter_map over the account indices: what does not resolve is dropped and
\* the accounts after it move up.
Resolve(tx, ix) ==
  SelectAt(ix.accounts, {i \in DOMAIN ix.accounts : ix.accounts[i] \in tx.static})

\* One instruction; a program that does not resolve is skipped.
DecodeInstruction(targets, tx, ix) ==
  IF ix.program \in tx.static THEN Decode(targets, ix, Resolve(tx, ix)) ELSE None

\* The events of the instructions that are walked, in their order.
Collect(targets, tx, walk) ==
  LET events == [i \in DOMAIN walk |-> DecodeInstruction(targets, tx, walk[i])]
  IN  SelectAt(events, {i \in DOMAIN walk : events[i] # None})

\* Mutant: the instructions that other programs invoke are not walked.
ExtractOuter(targets, tx) == Collect(targets, tx, tx.outer)

\* The instructions of the message, then the ones they invoke.
Extract(targets, tx) == Collect(targets, tx, tx.outer \o tx.inner)

-----------------------------------------------------------------------------
\* The subscription.

\* watched_program_ids, sent to the server as account_required.
Watched(targets) == {Program[v] : v \in targets}

\* The server's filter: failed transactions are left out, and a transaction
\* must name every required account.
Matches(required, tx) == ~tx.failed /\ required \subseteq tx.static \cup tx.loaded
=============================================================================
