---------------------------- MODULE MCVaultSpend ----------------------------
EXTENDS VaultSpend

Loan(debt, scale, strike, max, oracles, m) ==
    [debt |-> debt, principal |-> 3, collateral |-> 6, strike |-> strike,
     not_before |-> 1, maturity |-> 1, recover_after |-> 2, expiry |-> 1,
     bonus_num |-> 3, bonus_den |-> 2, price_scale |-> scale,
     max_price |-> max, oracles |-> oracles, oracle_threshold |-> m]

(* The last two can not be built: their arithmetic could overflow. *)
MCCandidates ==
    {Loan(3, 2, 5, 0, {"a"}, 0), Loan(3, 2, 13, 6, {"a", "b", "c"}, 2),
     Loan(8, 2, 5, 6, {"a"}, 0), Loan(8, 2, 5, 0, {"a", "b", "c"}, 2),
     Loan(8, 2, 13, 6, {"a"}, 0), Loan(8, 3, 5, 0, {"a"}, 0)}

Att(p, ts, signed, scale) ==
    [price |-> p, timestamp |-> ts, signed |-> signed, scale |-> scale]

MCAttestations ==
    {Att(p, 1, TRUE, 2) : p \in {1, 2, 4, 12}}
      \cup {Att(2, 0, TRUE, 2), Att(2, 1, FALSE, 2)}

Coin(id, a, n, plain) == [id |-> id, asset |-> a, amount |-> n, plain |-> plain]

MCWallets ==
    {{Coin(1, D, 16, TRUE), Coin(2, C, 12, TRUE), Coin(3, F, 9, TRUE)},
     {Coin(1, D, 12, FALSE), Coin(4, D, 5, FALSE), Coin(5, D, 2, TRUE),
      Coin(2, C, 17, FALSE), Coin(3, F, 12, TRUE)},
     {Coin(1, D, 2, FALSE)}, {}}

MCRate == (C :> 2) @@ (D :> 2) @@ (F :> 4)
=============================================================================
