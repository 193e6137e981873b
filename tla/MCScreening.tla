---------------------------- MODULE MCScreening ----------------------------
(* Screening with small sets of transactions and rulesets, for TLC.        *)
EXTENDS Screening, SequencesExt, FiniteSetsExt

ProgramIds == [PumpFun |-> "pump", RaydiumLaunchLab |-> "launchlab"]

\* The launches: the first two by another dev each, the second with a name that
\* does not read, the third with a symbol that does not.
Doge == [venue |-> "PumpFun", mint |-> "doge", creator |-> "alice", pool |-> "doge curve",
         name |-> "Doge", symbol |-> "DG", readable |-> 2]
Scam == [Doge EXCEPT !.mint = "scam", !.creator = "mallory", !.pool = "scam curve",
                     !.name = "Scam", !.symbol = "SC"]
Garbled == [Scam EXCEPT !.readable = 0]
Cut == [Scam EXCEPT !.readable = 1]
Lab == [venue |-> "RaydiumLaunchLab", mint |-> "lab", creator |-> "mallory",
        pool |-> "lab pool", name |-> None, symbol |-> None, readable |-> 0]
OtherLab == [Lab EXCEPT !.mint = "other lab", !.creator = "alice", !.pool = "other pool"]

\* The instruction that makes launch c, laid out as the venue's program wants it,
\* LaunchLab's in two ways: one the decoder expects, and one it does not.
Fields(c) == <<[text |-> c.name, ok |-> c.readable >= 1],
               [text |-> c.symbol, ok |-> c.readable >= 2]>>

Layout(c) ==
  CASE c.venue = "PumpFun" ->
         <<c.mint, "mint authority", c.pool, "curve account", "global", "mpl",
           "metadata", c.creator, "system", "token">>
    [] c = Lab -> <<c.pool, c.mint, "vault", c.creator>>
    [] c = OtherLab -> <<c.creator, "config", c.pool, c.mint, "vault">>

\* An instruction says which launch it makes, or None.
Create(c) == [program |-> ProgramIds[c.venue], create |-> TRUE, fields |-> Fields(c),
              accounts |-> Layout(c), makes |-> c]
Trade == [Create(Doge) EXCEPT !.create = FALSE, !.makes = None]
Wrapper == [program |-> "wrapper", create |-> FALSE, fields |-> <<>>,
            accounts |-> <<"alice", "pump">>, makes |-> None]

Named(ixs) == UNION {{ixs[i].program} \cup Range(ixs[i].accounts) : i \in DOMAIN ixs}

Tx(outer, inner, loaded, failed) ==
  LET walk == outer \o inner
  IN  [outer |-> outer, inner |-> inner, loaded |-> loaded \cap Named(walk),
       static |-> Named(walk) \ loaded, failed |-> failed]

\* What a transaction does: in its message, and below a wrapper.
Shapes ==
  {<<<<Create(c)>>, <<>>>> : c \in {Doge, Scam, Garbled, Cut, Lab, OtherLab}}
  \cup {<<<<Wrapper>>, <<Create(c), Trade>>>> : c \in {Doge, Cut, Lab, OtherLab}}
  \cup {<<<<Trade>>, <<>>>>,
        <<<<Create(Doge), Trade>>, <<>>>>,
        <<<<Create(Lab), Create(Doge)>>, <<>>>>,
        <<<<Wrapper, Create(Scam)>>, <<Create(Doge)>>>>,
        <<<<Wrapper, Create(Lab)>>, <<Create(Scam)>>>>}

\* Accounts loaded through a table: never a signer, nor a program of the
\* message; the third table leaves too few for the creator to be found.
Tables ==
  {{}, {"mint authority"}, {"mint authority", "global", "mpl", "system", "token"},
   {"lab pool"}, {"pump"}}

ChainTransactions ==
  {t \in {Tx(s[1], s[2], l, f) : s \in Shapes, l \in Tables, f \in BOOLEAN} :
     \A i \in DOMAIN t.outer : t.outer[i].program \notin t.loaded}

Pubkeys == UNION {t.static \cup t.loaded : t \in ChainTransactions} \cup Range(ProgramIds)

Metadata == {"Doge", "DG", "Scam", "SC"}

Open == [allow |-> {}, block |-> {}, nameAllow |-> {}, nameDeny |-> {}, symbolAllow |-> {},
         minLiquidity |-> 0, maxSupply |-> 0, needMintRenounced |-> FALSE,
         needFreezeNull |-> FALSE, minLpLocked |-> 0, needSocials |-> FALSE]

\* Each rule alone, deny against allow, and the shipped [filters] section.
Rulesets ==
  {Open,
   [Open EXCEPT !.allow = {"alice"}],
   [Open EXCEPT !.block = {"mallory"}],
   [Open EXCEPT !.nameDeny = {{"Scam"}}, !.nameAllow = {{"Doge", "Scam"}}],
   [Open EXCEPT !.nameAllow = {{"Doge"}}, !.symbolAllow = {{"SC"}}],
   [Open EXCEPT !.minLiquidity = 2],
   [Open EXCEPT !.maxSupply = 10],
   [Open EXCEPT !.needMintRenounced = TRUE],
   [Open EXCEPT !.needFreezeNull = TRUE],
   [Open EXCEPT !.minLpLocked = 90],
   [Open EXCEPT !.needSocials = TRUE],
   [Open EXCEPT !.minLiquidity = 2, !.maxSupply = 10, !.needMintRenounced = TRUE,
                !.needFreezeNull = TRUE, !.minLpLocked = 90, !.nameDeny = {{"Scam"}}]}

Clean == [liquidity |-> 5, supply |-> 10, mintRenounced |-> TRUE, freezeNull |-> TRUE,
          lpLocked |-> 90, socials |-> TRUE]

\* Nothing, a clean launch at the bounds, and one that just fails each of them.
FetchedFacts ==
  {None, Clean, [Clean EXCEPT !.liquidity = 1], [Clean EXCEPT !.supply = 11],
   [Clean EXCEPT !.freezeNull = FALSE], [Clean EXCEPT !.lpLocked = 89]}
=============================================================================
