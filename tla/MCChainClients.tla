--------------------------- MODULE MCChainClients ---------------------------
(***************************************************************************)
(* A chain of five heights for TLC: pages that end within a height and at  *)
(* its end, heights without items, a Solana slot that was skipped, an      *)
(* address with more signatures than a page holds.                         *)
(***************************************************************************)
EXTENDS ChainClients

Item(at, id, involves) == [at |-> at, id |-> id, involves |-> involves]
Plain(at, id) == Item(at, id, {})
None(at) == Plain(at, 0)

OneChain == [
    blocks       |-> [n \in 1 .. 5 |-> Plain(n, n)],
    transactions |-> <<Plain(2, 1), Plain(2, 2), Plain(2, 3), Plain(3, 4), Plain(5, 5)>>,
    events       |-> <<None(1), Plain(2, 1), Plain(3, 2), Plain(3, 3), None(4), None(4)>>,
    slots        |-> <<Plain(1, 1), Plain(2, 2), Plain(4, 4), Plain(5, 5)>>,
    signatures   |-> <<Item(1, 1, {"a"}), Item(2, 2, {"a", "b"}), Item(2, 3, {"a"}),
                       Item(4, 4, {"a"}), Item(5, 5, {"b"})>>]

Ranges == {<<2, {}>>, <<2, {3}>>, <<2, {5}>>, <<3, {5}>>, <<3, {2}>>}
Methods == {<<"EVM", "blocks">>, <<"Midnight", "blocks">>, <<"Midnight", "events">>,
            <<"Stellar", "blocks">>, <<"Stellar", "transactions">>, <<"Stellar", "events">>,
            <<"Solana", "blocks">>}
Watched == {{{}}, {{"a"}, {"b"}}, {{"a"}, {}}}

AllCalls == {[chain |-> m[1], method |-> m[2], from |-> r[1], to |-> r[2], monitors |-> w] :
                 m \in Methods, r \in Ranges, w \in {{{}}}}
            \cup {[chain |-> "Solana", method |-> "blocks", from |-> r[1], to |-> r[2],
                   monitors |-> w] : r \in Ranges, w \in Watched}
=============================================================================
