------------------------------- MODULE MC_Local -------------------------------
(***************************************************************************)
(* What a client keeps beside its connections, on a small instance: the    *)
(* block that it refers to, between two refreshers and a signer, or its    *)
(* wallet, between two processes.  The two share nothing, so a behaviour   *)
(* is of the one kind or of the other.                                     *)
(***************************************************************************)
EXTENDS TaposCache, WalletStore, TLC

CONSTANTS a, b, k1, k2

LocalSymmetry == Permutations({a, b}) \cup Permutations({k1, k2})

VARIABLE part

LocalInit ==
    /\ part \in {"cache", "wallet"} /\ TaposInit /\ WalletInit
    /\ part = "wallet" => since_block = 0
LocalNext ==
    /\ UNCHANGED part
    /\ \/ part = "cache" /\ TaposNext /\ UNCHANGED wallet_vars
       \/ part = "wallet" /\ WalletNext /\ UNCHANGED tapos_vars
LocalSpec == LocalInit /\ [][LocalNext]_<<part, tapos_vars, wallet_vars>>
=============================================================================
