-------------------------- MODULE MCConnectorSync --------------------------
EXTENDS ConnectorSync, TLC

CONSTANTS i1, i2

MCSymmetry == Permutations(Callers) \cup Permutations(Requests)
                \cup Permutations(States) \cup Permutations(Shops)

Plain == [provider |-> "MERCADOLIVRE", env |-> FALSE, kinds |-> {"market", "worker"},
          items |-> {}, tokens |-> 3, mishaps |-> 1, keys |-> 0, toggles |-> FALSE]

Market(account) == [account EXCEPT !.kinds = {"market"}]
Engines(account) == [account EXCEPT !.kinds = {"market", "framework"}]
Shopee == [Plain EXCEPT !.provider = "SHOPEE", !.tokens = 2]
Pago == [Plain EXCEPT !.provider = "MERCADOPAGO"]

(* Credentials: OAuth states with three pairs, with a failure, with another *)
(* encryption key; sessions; pasted keys.  Imports: syncs over two items,   *)
(* one malformed; syncs against the switch.                                 *)
MCScenarios ==
  {Market([Plain EXCEPT !.mishaps = 0]),
   Market([Plain EXCEPT !.tokens = 2]),
   Market([Plain EXCEPT !.mishaps = 0, !.keys = 1, !.tokens = 2]),
   [Plain EXCEPT !.mishaps = 0, !.keys = 1, !.tokens = 1],
   Market(Shopee),
   [Shopee EXCEPT !.kinds = {"worker"}],
   [Pago EXCEPT !.env = TRUE, !.keys = 1, !.tokens = 2],
   Engines([Pago EXCEPT !.tokens = 1, !.items = {i1, i2}]),
   Engines([Pago EXCEPT !.tokens = 1, !.mishaps = 0, !.toggles = TRUE, !.items = {i1}])}
=============================================================================
