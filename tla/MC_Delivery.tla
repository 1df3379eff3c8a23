------------------------------ MODULE MC_Delivery ------------------------------
(* A small Delivery for TLC. *)
EXTENDS Delivery, TLC

CONSTANTS a, b

NodeSymmetry == Permutations({a, b})

Transfer == Op("transfer", <<<<>>, <<>>, <<>>>>, NoneValue, TRUE)
Custom(payload) == Op("custom_json", <<<<>>, <<"alice">>, <<"alice">>>>, payload, TRUE)

MCBatches ==
    { <<Custom(<<"dict", [flag |-> <<"bool", TRUE>>]>>)>>,
      <<Custom(<<"str", "text">>), Transfer>> }

Key(k, w) == [of |-> k, weight |-> w]
Single(k) == [threshold |-> 1, account_auths |-> {}, key_auths |-> {Key(k, 1)}]

ByKey(k) == [alice |-> Single(k), bob |-> Single("k1")]
ByBob ==
    [alice |-> [threshold |-> 2, account_auths |-> {Key("bob", 1)}, key_auths |-> {Key("k1", 1)}],
     bob   |-> Single("k1")]

Setup(skew_, expiration, width, authority_) ==
    [skew |-> skew_, expiration |-> expiration, width |-> width, authority |-> authority_]

(* Signed by a key and through an account, from a clock that is behind, and *)
(* raced; by a key, from a clock that is ahead; for too long; by a key that *)
(* has no authority.                                                        *)
MCSetups ==
    { Setup(-1, 2, 2, ByBob), Setup(1, 2, 1, ByKey("k1")),
      Setup(0, 3, 1, ByKey("k1")), Setup(0, 1, 1, ByKey("k3")) }
MCWalletKeys == {<<"k1", "k2", "k1">>}
=============================================================================
