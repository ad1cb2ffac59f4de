------------------------ MODULE MCZcashTransactions ------------------------
EXTENDS ZcashTransactions, TLC

CONSTANTS c1, c2, d

\* NU6.1 and NU6.2 are active; NU6.3, with its new format, and NU7 are to come.
MCUpgrade == <<0, 1, 2, 3, 5>>

MCValue == (c1 :> 4) @@ (c2 :> 3)

Pay(to, value) == [to |-> to, value |-> value]

\* Of these one pays the user, with gas 2 or 3, two are change only, one is
\* for a shielded payment and one pays the user twice.
MCVout == { <<>>,
            <<Pay("bridge", 2)>>,
            <<Pay("user", 3), Pay("bridge", 2)>>,
            <<Pay("user", 2), Pay("bridge", 2)>>,
            <<Pay("bridge", 5)>> }

Shield(to, value, balance) == [to |-> to, amount |-> value, value_balance |-> balance]

\* Two that pay a withdrawal, one that pays the refund, and three wrong ones.
MCOrchard == { Shield("user", 2, -2), Shield("user", 3, -3),
               Shield("other", 2, -2), Shield("user", 2, -1) }

MCReceivers == {{"transparent", "orchard"}, {"orchard"}}

\* The instance is one for which the proof of NeverStranded holds.
ASSUME UpgradesApart /\ CancellationPossible /\ "transparent" \in RefundReceivers
=============================================================================
