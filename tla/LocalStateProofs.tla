--------------------------- MODULE LocalStateProofs ---------------------------
(***************************************************************************)
(* Proofs about what a client keeps between its calls: the block that it   *)
(* refers to (TaposCache), its place in a stream of blocks (BlockStream),  *)
(* the mana bar that it extrapolates (Manabar), and its wallet's file      *)
(* (WalletStore).  The four have nothing in common but this module; each   *)
(* has a section of its own.                                               *)
(***************************************************************************)
EXTENDS TaposCache, WalletStore, BlockStream, Manabar, TLAPS

-----------------------------------------------------------------------------
(* TaposCache: how old a cached reference can be on its way from the node  *)
(* to the transaction, and that the chain still resolves it. *)

B == block_interval

(* Ticks since block 0. *)
Position == chain_head * B + since_block

(* How long before position `pos' block `num' was a head a node served, at *)
(* the earliest. *)
Drift(num, pos) == pos - num * B - MaxLag * B - (B - 1)

(* Block `num' was served at most d ticks ago. *)
Recent(num, d) == num \in 0 .. chain_head /\ Drift(num, Position) <= d

RefreshRecord ==
    [pc : {"idle", "asked", "served"}, id : Nat, number : Nat, since : Nat]

SignerRecord ==
    [pc : {"idle", "holding", "signed"}, block_num : Nat, since : Nat, expires : Nat]

RefreshInv(f) ==
    /\ f \in RefreshRecord
    /\ f.pc # "idle" => f.since <= now /\ now <= f.since + FetchBudget
    /\ f.pc = "served" => Recent(f.number, now - f.since)

EntryInv(e) ==
    /\ e \in [block_num : Nat, fetched_at : Nat]
    /\ e # NoEntry =>
           /\ e.fetched_at <= now
           /\ Recent(e.block_num, FetchBudget + (now - e.fetched_at))

SignerInv(g) ==
    /\ g \in SignerRecord
    /\ g.pc = "holding" =>
           /\ g.since <= now /\ now <= g.since + HoldBudget
           /\ Recent(g.block_num, FetchBudget + max_age + (now - g.since))
    /\ g.pc = "signed" =>
           /\ g.since <= now
           /\ g.expires \in g.since + 1 .. g.since + MaxExpiration
           /\ Recent(g.block_num, FetchBudget + max_age + HoldBudget + (now - g.since))

ChainInv ==
    now \in Nat /\ chain_head \in Nat /\ MaxLag < chain_head /\ since_block \in 0 .. B - 1

(* The inductive invariant: what is on its way, cached, held or signed was *)
(* served no longer ago than the stages it went through may take.          *)
TaposInv ==
    /\ ChainInv
    /\ EntryInv(entry)
    /\ refresh = [r \in Refreshers |-> refresh[r]]
    /\ \A r \in Refreshers : RefreshInv(refresh[r])
    /\ signer = [s \in Signers |-> signer[s]]
    /\ \A s \in Signers : SignerInv(signer[s])

-----------------------------------------------------------------------------
LEMMA Constants ==
    /\ B \in Nat /\ B > 0
    /\ max_age \in Nat /\ MaxExpiration \in Nat /\ Expirations \subseteq Nat
    /\ FetchBudget \in Nat /\ HoldBudget \in Nat /\ MaxLag \in Nat
    /\ Window \in Nat \ {0} /\ GenesisHead \in Nat /\ MaxLag < GenesisHead
  BY TaposAssumption DEF TaposAssumption, B

LEMMA NextMultiple ==
    ASSUME NEW x \in Int, NEW z \in Int PROVE (x + 1) * z = x * z + z
  OBVIOUS

LEMMA ProductInt ==
    ASSUME NEW x \in Int, NEW y \in Int PROVE x * y \in Int
  OBVIOUS

LEMMA ProductMonotone ==
    ASSUME NEW x \in Nat, NEW y \in Nat, x <= y, NEW z \in Nat
    PROVE  x * z <= y * z
  OBVIOUS

LEMMA Distribute ==
    ASSUME NEW x \in Int, NEW y \in Int, NEW z \in Int
    PROVE  (x - y) * z = x * z - y * z
  OBVIOUS

LEMMA PositionInt == ChainInv => Position \in Int
  BY Constants, ProductInt DEF ChainInv, Position

LEMMA DriftInt ==
    ASSUME NEW num \in Nat, NEW pos \in Int PROVE Drift(num, pos) \in Int
  BY Constants, ProductInt DEF Drift

(* Drift is time: it grows by one with every tick. *)
LEMMA DriftGrows ==
    ASSUME NEW num \in Nat, NEW pos \in Int
    PROVE  Drift(num, pos + 1) = Drift(num, pos) + 1
  <1>1. num * B \in Int /\ MaxLag * B \in Int /\ B \in Int
    BY Constants, ProductInt
  <1> QED BY <1>1 DEF Drift

(* What a node serves now has no drift yet. *)
LEMMA ServedIsRecent ==
    ASSUME ChainInv, NEW lag \in 0 .. MaxLag
    PROVE  chain_head - lag \in Nat /\ Recent(chain_head - lag, 0)
  <1>1. /\ chain_head \in Nat /\ lag \in Nat /\ MaxLag \in Nat /\ lag <= MaxLag
        /\ B \in Nat /\ B > 0
    BY Constants DEF ChainInv
  <1>2. chain_head - lag \in 0 .. chain_head
    BY <1>1 DEF ChainInv
  <1>3. (chain_head - lag) * B = chain_head * B - lag * B
    BY <1>1, Distribute
  <1>4. lag * B <= MaxLag * B
    BY <1>1, ProductMonotone
  <1>5. chain_head * B \in Int /\ lag * B \in Int /\ MaxLag * B \in Int
    BY <1>1, ProductInt
  <1>6. since_block \in 0 .. B - 1
    BY DEF ChainInv
  <1>7. Drift(chain_head - lag, Position) <= 0
    BY <1>1, <1>3, <1>4, <1>5, <1>6 DEF Drift, Position
  <1> QED BY <1>2, <1>7 DEF Recent

(* Recent is monotone in its bound. *)
LEMMA RecentWeakens ==
    ASSUME ChainInv, NEW num, NEW d \in Int, NEW e \in Int, d <= e, Recent(num, d)
    PROVE  Recent(num, e)
  <1>1. num \in Nat
    BY DEF Recent, ChainInv
  <1>2. Drift(num, Position) \in Int
    BY <1>1, PositionInt, DriftInt
  <1> QED BY <1>2 DEF Recent

-----------------------------------------------------------------------------
LEMMA TaposInvInit == TaposInit => TaposInv
  <1> SUFFICES ASSUME TaposInit PROVE TaposInv
    OBVIOUS
  <1>1. ChainInv
    BY Constants DEF TaposInit, ChainInv, B
  <1>2. EntryInv(entry)
    BY DEF TaposInit, EntryInv, NoEntry
  <1>3. \A r \in Refreshers : RefreshInv(refresh[r])
    BY DEF TaposInit, RefreshInv, IdleRefresh, RefreshRecord
  <1>4. \A s \in Signers : SignerInv(signer[s])
    BY DEF TaposInit, SignerInv, IdleSigner, SignerRecord
  <1> QED BY <1>1, <1>2, <1>3, <1>4 DEF TaposInv, TaposInit

(* The steps that let no time pass change one local, or the entry.         *)
Frozen == UNCHANGED <<now, chain_head, since_block>>

LEMMA RefreshStep ==
    ASSUME TaposInv, Frozen, NEW r \in Refreshers, NEW f, RefreshInv(f),
           refresh' = [refresh EXCEPT ![r] = f],
           signer' = signer, EntryInv(entry')
    PROVE  TaposInv'
  <1>1. ChainInv'
    BY DEF TaposInv, ChainInv, Frozen
  <1>2. EntryInv(entry)'
    BY DEF EntryInv, Recent, Position, Frozen
  <1>3. \A q \in Refreshers : RefreshInv(refresh'[q])
    BY DEF TaposInv
  <1>4. \A q \in Refreshers : RefreshInv(refresh[q])'
    BY <1>3 DEF RefreshInv, Recent, Position, Frozen
  <1>5. \A s \in Signers : SignerInv(signer[s])'
    BY DEF TaposInv, SignerInv, Recent, Position, Frozen
  <1> QED BY <1>1, <1>2, <1>4, <1>5 DEF TaposInv

LEMMA SignerStep ==
    ASSUME TaposInv, Frozen, NEW s \in Signers, NEW g, SignerInv(g),
           signer' = [signer EXCEPT ![s] = g], UNCHANGED <<refresh, entry>>
    PROVE  TaposInv'
  <1>1. ChainInv'
    BY DEF TaposInv, ChainInv, Frozen
  <1>2. EntryInv(entry)'
    BY DEF TaposInv, EntryInv, Recent, Position, Frozen
  <1>3. \A q \in Refreshers : RefreshInv(refresh[q])'
    BY DEF TaposInv, RefreshInv, Recent, Position, Frozen
  <1>4. \A q \in Signers : SignerInv(signer'[q])
    BY DEF TaposInv
  <1>5. \A q \in Signers : SignerInv(signer[q])'
    BY <1>4 DEF SignerInv, Recent, Position, Frozen
  <1> QED BY <1>1, <1>2, <1>3, <1>5 DEF TaposInv

-----------------------------------------------------------------------------
(* A tick ages what is on its way by one, and everything that was served   *)
(* with it. *)
LEMMA TickInv ==
    ASSUME TaposInv, TaposTick PROVE TaposInv'
  <1>1. ChainInv /\ now' = now + 1 /\ now \in Nat /\ now' \in Nat
    BY DEF TaposInv, TaposTick, ChainInv
  <1>2. ChainInv' /\ chain_head <= chain_head'
    <2>1. CASE since_block + 1 = B
      BY <1>1, <2>1, Constants DEF TaposTick, ChainInv, B
    <2>2. CASE since_block + 1 # B
      BY <1>1, <2>2, Constants DEF TaposTick, ChainInv, B
    <2> QED BY <2>1, <2>2
  <1>3. Position \in Int /\ Position' = Position + 1
    <2>1. chain_head \in Int /\ since_block \in Int /\ B \in Int
      BY <1>1, Constants DEF ChainInv
    <2>2. chain_head * B \in Int /\ (chain_head + 1) * B = chain_head * B + B
      BY <2>1, ProductInt, NextMultiple
    <2>3. CASE since_block + 1 = B
      BY <2>1, <2>2, <2>3 DEF TaposTick, Position, B
    <2>4. CASE since_block + 1 # B
      BY <2>1, <2>2, <2>4 DEF TaposTick, Position, B
    <2> QED BY <2>1, <2>2, <2>3, <2>4 DEF Position
  <1>4. ASSUME NEW num, NEW d \in Int, Recent(num, d)
        PROVE  num \in 0 .. chain_head' /\ Drift(num, Position') <= d + 1
    <2>1. num \in Nat /\ num \in 0 .. chain_head'
      BY <1>1, <1>2, <1>4 DEF Recent, ChainInv
    <2>2. Drift(num, Position + 1) = Drift(num, Position) + 1
      BY <1>3, <2>1, DriftGrows
    <2>3. Drift(num, Position) \in Int
      BY <1>3, <2>1, DriftInt
    <2> QED BY <1>3, <1>4, <2>1, <2>2, <2>3 DEF Recent
  <1>5. EntryInv(entry)'
    <2>1. EntryInv(entry) /\ entry' = entry
      BY DEF TaposInv, TaposTick
    <2>2. CASE entry = NoEntry
      BY <2>1, <2>2 DEF EntryInv, NoEntry
    <2>3. CASE entry # NoEntry
      <3>1. entry.fetched_at \in Nat /\ entry.fetched_at <= now
        BY <2>1, <2>3 DEF EntryInv
      <3>2. Recent(entry.block_num, FetchBudget + (now - entry.fetched_at))
        BY <2>1, <2>3 DEF EntryInv
      <3>3. FetchBudget + (now - entry.fetched_at) + 1
                = FetchBudget + (now' - entry.fetched_at)
        BY <1>1, <3>1, Constants
      <3>4. /\ entry.block_num \in 0 .. chain_head'
            /\ Drift(entry.block_num, Position') <= FetchBudget + (now' - entry.fetched_at)
        BY <1>1, <1>4, <3>1, <3>2, <3>3, Constants
      <3> QED BY <1>1, <2>1, <3>1, <3>4 DEF EntryInv, Recent, Drift
    <2> QED BY <2>2, <2>3
  <1>6. \A r \in Refreshers : RefreshInv(refresh[r])'
    <2> SUFFICES ASSUME NEW r \in Refreshers PROVE RefreshInv(refresh[r])'
      OBVIOUS
    <2> DEFINE f == refresh[r]
    <2>1. RefreshInv(f) /\ f' = f
      BY DEF TaposInv, TaposTick
    <2>2. f \in RefreshRecord /\ f.since \in Nat
      BY <2>1 DEF RefreshInv, RefreshRecord
    <2>3. f.pc # "idle" => f.since <= now' /\ now' <= f.since + FetchBudget
      <3> SUFFICES ASSUME f.pc # "idle" PROVE f.since <= now' /\ now' <= f.since + FetchBudget
        OBVIOUS
      <3>1. f.since <= now /\ now < f.since + FetchBudget
        BY <2>1 DEF RefreshInv, TaposTick
      <3> HIDE DEF f
      <3> QED BY <1>1, <2>2, <3>1, Constants
    <2>4. f.pc = "served" => /\ f.number \in 0 .. chain_head'
                             /\ Drift(f.number, Position') <= now' - f.since
      <3> SUFFICES ASSUME f.pc = "served"
                   PROVE  /\ f.number \in 0 .. chain_head'
                          /\ Drift(f.number, Position') <= now' - f.since
        OBVIOUS
      <3>1. Recent(f.number, now - f.since)
        BY <2>1 DEF RefreshInv
      <3> HIDE DEF f
      <3>2. now - f.since \in Int /\ now - f.since + 1 = now' - f.since
        BY <1>1, <2>2
      <3> QED BY <1>4, <3>1, <3>2
    <2> HIDE DEF f
    <2>5. RefreshInv(f)'
      BY <2>1, <2>2, <2>3, <2>4 DEF RefreshInv, Recent, Drift
    <2> QED BY <2>5 DEF f
  <1>7. \A s \in Signers : SignerInv(signer[s])'
    <2> SUFFICES ASSUME NEW s \in Signers PROVE SignerInv(signer[s])'
      OBVIOUS
    <2> DEFINE g == signer[s]
    <2>1. SignerInv(g) /\ g' = g
      BY DEF TaposInv, TaposTick
    <2>2. g \in SignerRecord /\ g.since \in Nat
      BY <2>1 DEF SignerInv, SignerRecord
    <2>3. g.pc = "holding" =>
            /\ g.since <= now' /\ now' <= g.since + HoldBudget
            /\ g.block_num \in 0 .. chain_head'
            /\ Drift(g.block_num, Position') <= FetchBudget + max_age + (now' - g.since)
      <3> SUFFICES ASSUME g.pc = "holding"
                   PROVE  /\ g.since <= now' /\ now' <= g.since + HoldBudget
                          /\ g.block_num \in 0 .. chain_head'
                          /\ Drift(g.block_num, Position')
                                 <= FetchBudget + max_age + (now' - g.since)
        OBVIOUS
      <3>1. g.since <= now /\ now < g.since + HoldBudget
        BY <2>1 DEF SignerInv, TaposTick
      <3>2. Recent(g.block_num, FetchBudget + max_age + (now - g.since))
        BY <2>1 DEF SignerInv
      <3> HIDE DEF g
      <3>3. /\ FetchBudget + max_age + (now - g.since) \in Int
            /\ FetchBudget + max_age + (now - g.since) + 1
                   = FetchBudget + max_age + (now' - g.since)
        BY <1>1, <2>2, Constants
      <3>4. g.since <= now' /\ now' <= g.since + HoldBudget
        BY <1>1, <2>2, <3>1, Constants
      <3> QED BY <1>4, <3>2, <3>3, <3>4
    <2>4. g.pc = "signed" =>
            /\ g.since <= now'
            /\ g.block_num \in 0 .. chain_head'
            /\ Drift(g.block_num, Position')
                   <= FetchBudget + max_age + HoldBudget + (now' - g.since)
      <3> SUFFICES ASSUME g.pc = "signed"
                   PROVE  /\ g.since <= now'
                          /\ g.block_num \in 0 .. chain_head'
                          /\ Drift(g.block_num, Position')
                                 <= FetchBudget + max_age + HoldBudget + (now' - g.since)
        OBVIOUS
      <3>1. g.since <= now
        BY <2>1 DEF SignerInv
      <3>2. Recent(g.block_num, FetchBudget + max_age + HoldBudget + (now - g.since))
        BY <2>1 DEF SignerInv
      <3> HIDE DEF g
      <3>3. /\ FetchBudget + max_age + HoldBudget + (now - g.since) \in Int
            /\ FetchBudget + max_age + HoldBudget + (now - g.since) + 1
                   = FetchBudget + max_age + HoldBudget + (now' - g.since)
        BY <1>1, <2>2, Constants
      <3>4. g.since <= now'
        BY <1>1, <2>2, <3>1
      <3> QED BY <1>4, <3>2, <3>3, <3>4
    <2>5. g.pc = "signed" => g.expires \in g.since + 1 .. g.since + MaxExpiration
      BY <2>1 DEF SignerInv
    <2> HIDE DEF g
    <2>6. SignerInv(g)'
      BY <2>1, <2>2, <2>3, <2>4, <2>5 DEF SignerInv, Recent, Drift
    <2> QED BY <2>6 DEF g
  <1> QED BY <1>2, <1>5, <1>6, <1>7 DEF TaposInv, TaposTick

LEMMA AskInv ==
    ASSUME TaposInv, NEW r \in Refreshers, Ask(r) PROVE TaposInv'
  <1> DEFINE f == [IdleRefresh EXCEPT !.pc = "asked", !.since = now]
  <1>1. RefreshInv(f)
    <2>1. now \in Nat
      BY DEF TaposInv, ChainInv
    <2>2. f \in RefreshRecord /\ f.pc = "asked" /\ f.since = now
      BY <2>1 DEF RefreshRecord, IdleRefresh
    <2>3. now <= now + FetchBudget
      BY <2>1, Constants
    <2> HIDE DEF f
    <2> QED BY <2>1, <2>2, <2>3 DEF RefreshInv
  <1>2. refresh' = [refresh EXCEPT ![r] = f] /\ UNCHANGED <<signer, entry>> /\ Frozen
    BY DEF Ask, Frozen
  <1>3. EntryInv(entry')
    BY <1>2 DEF TaposInv
  <1> HIDE DEF f
  <1> QED BY <1>1, <1>2, <1>3, RefreshStep

LEMMA ServeInv ==
    ASSUME TaposInv, NEW r \in Refreshers, Serve(r) PROVE TaposInv'
  <1> DEFINE f == refresh[r]
  <1>0. PICK lag \in 0 .. MaxLag :
          \E other \in {chain_head - lag, 1} :
            refresh' = [refresh EXCEPT ![r] =
                [f EXCEPT !.pc = "served", !.number = chain_head - lag, !.id = other]]
    BY DEF Serve
  <1>1. PICK other \in {chain_head - lag, 1} :
          refresh' = [refresh EXCEPT ![r] =
              [f EXCEPT !.pc = "served", !.number = chain_head - lag, !.id = other]]
    BY <1>0
  <1> DEFINE g == [f EXCEPT !.pc = "served", !.number = chain_head - lag, !.id = other]
  <1>2. f.pc = "asked" /\ RefreshInv(f) /\ ChainInv
    BY DEF Serve, TaposInv
  <1>3. f \in RefreshRecord /\ f.since \in Nat /\ f.since <= now /\ now <= f.since + FetchBudget
    BY <1>2 DEF RefreshInv, RefreshRecord
  <1>4. chain_head - lag \in Nat /\ Recent(chain_head - lag, 0) /\ other \in Nat
    BY <1>2, ServedIsRecent
  <1>5. Recent(chain_head - lag, now - f.since)
    <2> HIDE DEF f
    <2>1. now - f.since \in Int /\ 0 <= now - f.since
      BY <1>2, <1>3 DEF ChainInv
    <2> QED BY <1>2, <1>4, <2>1, RecentWeakens
  <1>6. RefreshInv(g)
    <2> HIDE DEF f
    <2>1. /\ g \in RefreshRecord /\ g.pc = "served" /\ g.number = chain_head - lag
          /\ g.since = f.since
      BY <1>3, <1>4 DEF RefreshRecord
    <2> HIDE DEF g
    <2> QED BY <1>3, <1>5, <2>1 DEF RefreshInv
  <1>7. refresh' = [refresh EXCEPT ![r] = g] /\ UNCHANGED <<signer, entry>> /\ Frozen
    BY <1>1 DEF Serve, Frozen
  <1>8. EntryInv(entry')
    BY <1>7 DEF TaposInv
  <1> HIDE DEF f, g
  <1> QED BY <1>6, <1>7, <1>8, RefreshStep

LEMMA IdleRefreshInv == RefreshInv(IdleRefresh)
  BY DEF RefreshInv, RefreshRecord, IdleRefresh

(* Store: the answer's age becomes the part of the entry's age that the    *)
(* cache does not see. *)
LEMMA StoreInv ==
    ASSUME TaposInv, NEW r \in Refreshers, Store(r) PROVE TaposInv'
  <1> DEFINE f == refresh[r]
             e == [block_num |-> f.id, fetched_at |-> now]
  <1>1. /\ RefreshInv(f) /\ ChainInv
        /\ f.pc = "served" /\ f.id = f.number
    BY DEF Store, agrees, TaposInv
  <1>2. /\ f.id \in Nat /\ f.since \in Nat /\ f.since <= now /\ now <= f.since + FetchBudget
        /\ Recent(f.id, now - f.since)
    BY <1>1 DEF RefreshInv, RefreshRecord
  <1>3. Recent(f.id, FetchBudget + (now - now))
    <2> HIDE DEF f
    <2>1. now \in Nat
      BY <1>1 DEF ChainInv
    <2>2. /\ now - f.since \in Int /\ FetchBudget + (now - now) \in Int
          /\ now - f.since <= FetchBudget + (now - now)
      BY <1>2, <2>1, Constants
    <2> QED BY <1>1, <1>2, <2>2, RecentWeakens
  <1>4. EntryInv(e)
    <2> HIDE DEF f
    <2>1. now \in Nat /\ e.block_num = f.id /\ e.fetched_at = now
      BY <1>1 DEF ChainInv
    <2>2. e \in [block_num : Nat, fetched_at : Nat]
      BY <1>2, <2>1
    <2> HIDE DEF e
    <2> QED BY <1>3, <2>1, <2>2 DEF EntryInv
  <1>5. /\ refresh' = [refresh EXCEPT ![r] = IdleRefresh]
        /\ entry' = e /\ signer' = signer /\ Frozen
    BY DEF Store, Frozen
  <1> HIDE DEF f, e
  <1> QED BY <1>4, <1>5, IdleRefreshInv, RefreshStep

LEMMA DropInv ==
    ASSUME TaposInv, NEW r \in Refreshers, RefreshFails(r) \/ Refuse(r) PROVE TaposInv'
  <1>1. refresh' = [refresh EXCEPT ![r] = IdleRefresh] /\ UNCHANGED <<signer, entry>> /\ Frozen
    BY DEF RefreshFails, Refuse, Frozen
  <1>2. EntryInv(entry')
    BY <1>1 DEF TaposInv
  <1> QED BY <1>1, <1>2, IdleRefreshInv, RefreshStep

LEMMA InvalidateInv ==
    ASSUME TaposInv, Invalidate PROVE TaposInv'
  <1>1. entry' = NoEntry /\ Frozen /\ UNCHANGED <<refresh, signer>>
    BY DEF Invalidate, Frozen
  <1>2. EntryInv(entry)'
    BY <1>1 DEF EntryInv, NoEntry
  <1>3. ChainInv'
    BY <1>1 DEF TaposInv, ChainInv, Frozen
  <1>4. \A r \in Refreshers : RefreshInv(refresh[r])'
    BY <1>1 DEF TaposInv, RefreshInv, Recent, Position, Frozen
  <1>5. \A s \in Signers : SignerInv(signer[s])'
    BY <1>1 DEF TaposInv, SignerInv, Recent, Position, Frozen
  <1> QED BY <1>1, <1>2, <1>3, <1>4, <1>5 DEF TaposInv

(* What the cache serves is younger than max_age, and than the fetch that  *)
(* brought it. *)
LEMMA TakeRefInv ==
    ASSUME TaposInv, NEW s \in Signers, TakeRef(s) PROVE TaposInv'
  <1> DEFINE g == [signer[s] EXCEPT !.pc = "holding", !.since = now,
                                    !.block_num = entry.block_num]
  <1>1. /\ ChainInv /\ now \in Nat /\ entry # NoEntry /\ now - entry.fetched_at <= max_age
        /\ EntryInv(entry) /\ SignerInv(signer[s])
    BY DEF TakeRef, is_fresh, TaposInv, ChainInv
  <1>2. /\ entry.block_num \in Nat /\ entry.fetched_at \in Nat
        /\ Recent(entry.block_num, FetchBudget + (now - entry.fetched_at))
    BY <1>1 DEF EntryInv
  <1>3. Recent(entry.block_num, FetchBudget + max_age + (now - now))
    <2>1. /\ FetchBudget + (now - entry.fetched_at) \in Int
          /\ FetchBudget + max_age + (now - now) \in Int
          /\ FetchBudget + (now - entry.fetched_at) <= FetchBudget + max_age + (now - now)
      BY <1>1, <1>2, Constants
    <2> QED BY <1>1, <1>2, <2>1, RecentWeakens
  <1>4. SignerInv(g)
    <2>1. signer[s] \in SignerRecord
      BY <1>1 DEF SignerInv
    <2>2. /\ g \in SignerRecord /\ g.pc = "holding" /\ g.since = now
          /\ g.block_num = entry.block_num
      BY <1>1, <1>2, <2>1 DEF SignerRecord
    <2>3. now <= now + HoldBudget
      BY <1>1, Constants
    <2> HIDE DEF g
    <2> QED BY <1>1, <1>3, <2>2, <2>3 DEF SignerInv
  <1>5. signer' = [signer EXCEPT ![s] = g] /\ UNCHANGED <<refresh, entry>> /\ Frozen
    BY DEF TakeRef, Frozen
  <1> HIDE DEF g
  <1> QED BY <1>4, <1>5, SignerStep

Signed(g, t, x) == [g EXCEPT !.pc = "signed", !.since = t, !.expires = x]

LEMMA SignedRecord ==
    ASSUME NEW g \in SignerRecord, NEW t \in Nat, NEW x \in Nat
    PROVE  /\ Signed(g, t, x) \in SignerRecord /\ Signed(g, t, x).pc = "signed"
           /\ Signed(g, t, x).since = t /\ Signed(g, t, x).expires = x
           /\ Signed(g, t, x).block_num = g.block_num
  BY DEF SignerRecord, Signed

LEMMA SignInv ==
    ASSUME TaposInv, NEW s \in Signers, Sign(s) PROVE TaposInv'
  <1> DEFINE g == signer[s]
  <1>1. PICK secs \in Expirations :
          /\ expiration_allowed(secs)
          /\ signer' = [signer EXCEPT ![s] =
                 Signed(g, now, now + secs)]
    BY DEF Sign, Signed
  <1> DEFINE x == now + secs
             h == Signed(g, now, x)
  <1>2. SignerInv(g) /\ g.pc = "holding" /\ ChainInv /\ now \in Nat
    BY DEF Sign, TaposInv, ChainInv
  <1>3. /\ g \in SignerRecord /\ g.since \in Nat /\ g.since <= now
        /\ now <= g.since + HoldBudget
        /\ Recent(g.block_num, FetchBudget + max_age + (now - g.since))
    BY <1>2 DEF SignerInv, SignerRecord
  <1> HIDE DEF g
  <1>4. Recent(g.block_num, FetchBudget + max_age + HoldBudget + (now - now))
    <2>1. /\ FetchBudget + max_age + (now - g.since) \in Int
          /\ FetchBudget + max_age + HoldBudget + (now - now) \in Int
          /\ FetchBudget + max_age + (now - g.since)
                 <= FetchBudget + max_age + HoldBudget + (now - now)
      BY <1>2, <1>3, Constants
    <2> QED BY <1>2, <1>3, <2>1, RecentWeakens
  <1>5. SignerInv(h)
    <2>1. secs \in Nat /\ secs # 0 /\ secs <= MaxExpiration
      BY <1>1, Constants DEF expiration_allowed
    <2>2. /\ h \in SignerRecord /\ h.pc = "signed" /\ h.since = now
          /\ h.block_num = g.block_num /\ h.expires = x
      <3>1. now \in Nat /\ g \in SignerRecord /\ x \in Nat
        BY <1>2, <1>3, <2>1
      <3> HIDE DEF x
      <3> QED BY <3>1, SignedRecord
    <2>3. x \in now + 1 .. now + MaxExpiration
      BY <1>2, <2>1, Constants
    <2> HIDE DEF h
    <2> QED BY <1>2, <1>4, <2>2, <2>3 DEF SignerInv
  <1>6. signer' = [signer EXCEPT ![s] = h] /\ UNCHANGED <<refresh, entry>> /\ Frozen
    BY <1>1 DEF Sign, Frozen
  <1> HIDE DEF h
  <1> QED BY <1>5, <1>6, SignerStep

LEMMA DoneInv ==
    ASSUME TaposInv, NEW s \in Signers, Done(s) PROVE TaposInv'
  <1>1. SignerInv(IdleSigner)
    BY DEF SignerInv, SignerRecord, IdleSigner
  <1>2. signer' = [signer EXCEPT ![s] = IdleSigner] /\ UNCHANGED <<refresh, entry>> /\ Frozen
    BY DEF Done, Frozen
  <1> QED BY <1>1, <1>2, SignerStep

LEMMA TaposInvStep ==
    ASSUME TaposInv, [TaposNext]_tapos_vars PROVE TaposInv'
  <1>1. CASE TaposTick
    BY <1>1, TickInv
  <1>2. CASE Invalidate
    BY <1>2, InvalidateInv
  <1>3. ASSUME NEW r \in Refreshers,
               Ask(r) \/ Serve(r) \/ RefreshFails(r) \/ Store(r) \/ Refuse(r)
        PROVE  TaposInv'
    BY <1>3, AskInv, ServeInv, StoreInv, DropInv
  <1>4. ASSUME NEW s \in Signers, TakeRef(s) \/ Sign(s) \/ Done(s) PROVE TaposInv'
    BY <1>4, TakeRefInv, SignInv, DoneInv
  <1>5. CASE UNCHANGED tapos_vars
    BY <1>5 DEF tapos_vars, TaposInv, ChainInv, EntryInv, RefreshInv, SignerInv,
                Recent, Position
  <1> QED BY <1>1, <1>2, <1>3, <1>4, <1>5 DEF TaposNext

(* TaposInv holds in every state of every behaviour. *)
THEOREM TaposInvariant == TaposSpec => []TaposInv
  <1>1. TaposInv /\ [TaposNext]_tapos_vars => TaposInv'
    BY TaposInvStep
  <1> QED BY <1>1, TaposInvInit, PTL DEF TaposSpec

-----------------------------------------------------------------------------
(* Every local keeps its type, and no signed transaction outlives hived's  *)
(* expiration window (TaposTypeOK). *)
THEOREM TaposTypeCorrect == TaposSpec => []TaposTypeOK
  <1>1. TaposInv => TaposTypeOK
    <2> SUFFICES ASSUME TaposInv PROVE TaposTypeOK
      OBVIOUS
    <2>1. /\ now \in Nat /\ chain_head \in Nat /\ since_block \in 0 .. block_interval - 1
          /\ entry \in [block_num : Nat, fetched_at : Nat]
      BY DEF TaposInv, ChainInv, EntryInv, B
    <2>2. refresh \in [Refreshers -> RefreshRecord]
      BY DEF TaposInv, RefreshInv
    <2>3. signer \in [Signers -> SignerRecord]
      BY DEF TaposInv, SignerInv
    <2>4. \A s \in Signers : signer[s].pc = "signed" =>
              signer[s].expires \in signer[s].since + 1 .. signer[s].since + MaxExpiration
      BY DEF TaposInv, SignerInv
    <2> QED BY <2>1, <2>2, <2>3, <2>4 DEF TaposTypeOK, RefreshRecord, SignerRecord
  <1> QED BY <1>1, TaposInvariant, PTL

LEMMA DivLower ==
    ASSUME NEW x \in Nat, NEW k \in Nat, NEW z \in Nat \ {0}, k * z <= x
    PROVE  k <= x \div z
  OBVIOUS

LEMMA ProducedNat ==
    ASSUME NEW d \in Nat PROVE Produced(d) \in Nat
  BY Constants DEF Produced, B

(* In blocks: a block served at most d ticks ago is at most MaxLag and     *)
(* what d ticks produce behind the head. *)
LEMMA RecentInBlocks ==
    ASSUME ChainInv, NEW num, NEW d \in Nat, Recent(num, d)
    PROVE  num \in Nat /\ chain_head <= num + MaxLag + Produced(d)
  <1>1. num \in Nat /\ chain_head \in Nat /\ MaxLag \in Nat /\ B \in Nat \ {0}
    BY Constants DEF Recent, ChainInv
  <1>2. CASE chain_head <= num + MaxLag
    BY <1>1, <1>2, ProducedNat
  <1>3. CASE ~(chain_head <= num + MaxLag)
    <2> DEFINE k == chain_head - num - MaxLag
    <2>1. k \in Nat
      BY <1>1, <1>3
    <2>2. k * B = chain_head * B - num * B - MaxLag * B
      <3>1. k * B = (chain_head - num) * B - MaxLag * B
        BY <1>1, Distribute
      <3>2. (chain_head - num) * B = chain_head * B - num * B
        BY <1>1, Distribute
      <3> QED BY <3>1, <3>2
    <2>3. k * B <= d + B - 1
      <3>1. /\ chain_head * B \in Int /\ num * B \in Int /\ MaxLag * B \in Int
            /\ k * B \in Int /\ since_block \in Nat
        BY <1>1, <2>1, ProductInt DEF ChainInv
      <3>2. (chain_head * B + since_block) - num * B - MaxLag * B - (B - 1) <= d
        BY DEF Recent, Drift, Position
      <3> HIDE DEF k
      <3> QED BY <1>1, <2>2, <3>1, <3>2
    <2>4. d + B - 1 \in Nat
      BY <1>1
    <2> HIDE DEF k
    <2>5. k <= (d + B - 1) \div B
      BY <1>1, <2>1, <2>3, <2>4, DivLower
    <2> USE DEF k
    <2>6. Produced(d) \in Nat /\ Produced(d) = (d + B - 1) \div B
      BY ProducedNat DEF Produced, B
    <2> QED BY <1>1, <2>5, <2>6
  <1> QED BY <1>1, <1>2, <1>3

LEMMA DivMod ==
    ASSUME NEW x \in Nat, NEW z \in Nat \ {0}
    PROVE  x \div z \in Nat /\ x % z \in Nat /\ x = (x \div z) * z + (x % z)
  <1>1. x \div z \in Nat
    OBVIOUS
  <1>2. x % z \in Nat
    OBVIOUS
  <1>3. x = z * (x \div z) + (x % z)
    OBVIOUS
  <1> QED BY <1>1, <1>2, <1>3

(* Two numbers less than w apart share their remainder only if equal.      *)
LEMMA DistinctInWindow ==
    ASSUME NEW w \in Nat \ {0}, NEW n \in Nat, NEW k \in Nat, n < k, k < n + w
    PROVE  k % w # n % w
  <1> SUFFICES ASSUME k % w = n % w PROVE FALSE
    OBVIOUS
  <1> DEFINE q == k \div w
             p == n \div w
  <1>1. q \in Nat /\ p \in Nat /\ k = q * w + (k % w) /\ n = p * w + (n % w)
    BY DivMod
  <1>2. k % w \in Nat /\ q * w \in Int /\ p * w \in Int
    BY <1>1, ProductInt
  <1> HIDE DEF q, p
  <1>3. (q - p) * w = q * w - p * w
    BY <1>1, Distribute
  <1>4. 0 < (q - p) * w /\ (q - p) * w < w
    BY <1>1, <1>2, <1>3
  <1>5. CASE q <= p
    BY <1>1, <1>2, <1>3, <1>4, <1>5, ProductMonotone
  <1>6. CASE 1 <= q - p
    <2>1. q - p \in Nat /\ 1 * w <= (q - p) * w
      BY <1>1, <1>6, ProductMonotone
    <2> QED BY <1>4, <2>1
  <1> QED BY <1>1, <1>5, <1>6

(* As long as a signed transaction has not expired, the chain resolves its *)
(* reference (ReferenceOutlivesTransaction), for any ages whose sum is     *)
(* within the window. *)
THEOREM ReferencesResolve == TaposSpec => []ReferenceOutlivesTransaction
  <1>1. TaposInv => ReferenceOutlivesTransaction
    <2> SUFFICES ASSUME TaposInv, MaxLag + Produced(Lifetime) < Window,
                        NEW s \in Signers, signer[s].pc = "signed",
                        now <= signer[s].expires,
                        NEW k \in signer[s].block_num + 1 .. chain_head
                 PROVE  k % Window # signer[s].block_num % Window
      BY DEF ReferenceOutlivesTransaction, Resolves
    <2> DEFINE g == signer[s]
    <2>1. /\ ChainInv /\ now \in Nat /\ SignerInv(g)
      BY DEF TaposInv, ChainInv
    <2>2. /\ g.since \in Nat /\ g.since <= now /\ g.expires \in g.since + 1 .. g.since + MaxExpiration
          /\ Recent(g.block_num, FetchBudget + max_age + HoldBudget + (now - g.since))
      BY <2>1 DEF SignerInv, SignerRecord
    <2>3. now <= g.expires
      OBVIOUS
    <2>4. k \in g.block_num + 1 .. chain_head
      OBVIOUS
    <2> HIDE DEF g
    <2>5. now - g.since <= MaxExpiration
      BY <2>1, <2>2, <2>3, Constants
    <2>6. Lifetime \in Nat /\ Recent(g.block_num, Lifetime)
      <3>1. /\ Lifetime \in Nat
            /\ FetchBudget + max_age + HoldBudget + (now - g.since) \in Int
            /\ FetchBudget + max_age + HoldBudget + (now - g.since) <= Lifetime
        BY <2>1, <2>2, <2>5, Constants DEF Lifetime
      <3> QED BY <2>1, <2>2, <3>1, RecentWeakens
    <2>7. g.block_num \in Nat /\ chain_head <= g.block_num + MaxLag + Produced(Lifetime)
      BY <2>1, <2>6, RecentInBlocks
    <2>8. k \in Nat /\ g.block_num < k /\ k < g.block_num + Window
      BY <2>1, <2>4, <2>6, <2>7, ProducedNat, Constants DEF ChainInv
    <2>9. k % Window # g.block_num % Window
      BY <2>7, <2>8, Constants, DistinctInWindow
    <2> QED BY <2>9 DEF g
  <1> QED BY <1>1, TaposInvariant, PTL

(* A store never sets the cache back by more than a fetch and a node's lag *)
(* (RegressIsBounded). *)
THEOREM RegressBound == TaposSpec => RegressIsBounded
  <1> DEFINE Bounded ==
               entry # NoEntry /\ entry' # NoEntry =>
                   entry'.block_num + MaxLag + Produced(FetchBudget) >= entry.block_num
  <1>1. ASSUME TaposInv, TaposInv', [TaposNext]_tapos_vars PROVE Bounded
    <2> SUFFICES ASSUME entry # NoEntry, entry' # NoEntry
                 PROVE  entry'.block_num + MaxLag + Produced(FetchBudget) >= entry.block_num
      OBVIOUS
    <2>1. /\ ChainInv /\ entry.block_num \in 0 .. chain_head /\ entry.block_num \in Nat
      BY <1>1 DEF TaposInv, EntryInv, Recent
    <2>2. Produced(FetchBudget) \in Nat /\ MaxLag \in Nat
      BY Constants, ProducedNat
    <2>3. CASE entry' = entry
      BY <2>1, <2>2, <2>3
    <2>4. ASSUME NEW r \in Refreshers, Store(r)
          PROVE  entry'.block_num + MaxLag + Produced(FetchBudget) >= entry.block_num
      <3> DEFINE f == refresh[r]
      <3>1. /\ f.pc = "served" /\ f.id = f.number /\ entry'.block_num = f.number
            /\ RefreshInv(f)
        BY <1>1, <2>4 DEF Store, agrees, TaposInv
      <3>2. /\ f.since \in Nat /\ now <= f.since + FetchBudget
            /\ Recent(f.number, now - f.since)
        BY <3>1 DEF RefreshInv, RefreshRecord
      <3> HIDE DEF f
      <3>3. /\ now - f.since \in Int /\ now - f.since <= FetchBudget /\ FetchBudget \in Nat
        BY <2>1, <3>2, Constants DEF ChainInv
      <3>4. Recent(f.number, FetchBudget)
        BY <2>1, <3>2, <3>3, RecentWeakens
      <3>5. f.number \in Nat /\ chain_head <= f.number + MaxLag + Produced(FetchBudget)
        BY <2>1, <3>3, <3>4, RecentInBlocks
      <3>6. chain_head \in Nat /\ entry.block_num <= chain_head
        BY <2>1 DEF ChainInv
      <3> QED BY <2>1, <2>2, <3>1, <3>5, <3>6
    <2> QED BY <1>1, <2>3, <2>4
            DEF TaposNext, tapos_vars, TaposTick, Invalidate, Ask, Serve, RefreshFails,
                Refuse, TakeRef, Sign, Done
  <1>2. TaposInv /\ TaposInv' /\ [TaposNext]_tapos_vars => [Bounded]_tapos_vars
    BY <1>1
  <1>3. TaposSpec => [][Bounded]_tapos_vars
    BY <1>2, TaposInvariant, PTL DEF TaposSpec
  <1> QED BY <1>3 DEF RegressIsBounded

-----------------------------------------------------------------------------
(* BlockStream, for every number of nodes, every start, stop and mode, and *)
(* any number of outages and forks. *)

(* The stream's next block is the one after the last it handed out, and is *)
(* the one that is being fetched. *)
Linked ==
    /\ items # <<>> => next = items[Len(items)].number + 1
    /\ pc = "bounded" => next \in {FollowHead, wanted}

(* The head a stream of irreversible blocks heard of was final then.       *)
HeardFinal == mode = "Irreversible" => Final(head)

(* The inductive invariant. *)
StreamInv == TypeOK /\ Consecutive /\ WaitsForFinality /\ Linked /\ HeardFinal

-----------------------------------------------------------------------------
(* An item that is appended to others. *)
LEMMA Appended ==
    ASSUME NEW s \in Seq(Item), NEW x \in Item
    PROVE  /\ Append(s, x) \in Seq(Item)
           /\ Len(Append(s, x)) = Len(s) + 1
           /\ Append(s, x)[Len(s) + 1] = x
           /\ \A i \in 1 .. Len(s) : Append(s, x)[i] = s[i]
  OBVIOUS

(* Every item has a number, the last one too. *)
LEMMA ItemNumbers ==
    ASSUME NEW s \in Seq(Item)
    PROVE  /\ \A i \in 1 .. Len(s) : s[i].number \in Nat
           /\ s # <<>> => s[Len(s)].number \in Nat
  <1>1. ASSUME NEW i \in 1 .. Len(s) PROVE s[i].number \in Nat
    <2>1. s[i] \in Item
      OBVIOUS
    <2> QED BY <2>1 DEF Item
  <1>2. s # <<>> => Len(s) \in 1 .. Len(s)
    OBVIOUS
  <1> QED BY <1>1, <1>2

(* What is final stays so: a node never takes back a block it called       *)
(* irreversible. *)
LEMMA FinalStays ==
    ASSUME TypeOK, node' \in [Nodes -> NodeView], NEW k \in Nat, Final(k),
           \A n \in Nodes : node[n].irreversible <= node'[n].irreversible
    PROVE  Final(k)'
  <1>1. PICK n \in Nodes : k <= node[n].irreversible
    BY DEF Final
  <1>2. /\ node[n].irreversible \in Nat /\ node'[n].irreversible \in Nat
        /\ node[n].irreversible <= node'[n].irreversible
    BY DEF TypeOK, NodeView
  <1>3. k <= node'[n].irreversible
    BY <1>1, <1>2
  <1> QED BY <1>3 DEF Final

(* Steps of the chain and the nodes. *)
LEMMA OthersMove ==
    ASSUME StreamInv, UNCHANGED <<outages, stream_vars>>,
           chain' \in FirstHead .. LastHead, forks' \in 0 .. Forks, chain <= chain',
           node' \in [Nodes -> NodeView],
           \A n \in Nodes : /\ node[n].irreversible <= node'[n].irreversible
                            /\ node'[n].irreversible <= node'[n].height
                            /\ node'[n].height <= chain'
    PROVE  StreamInv'
  <1>1. TypeOK'
    BY StreamAssumption DEF StreamInv, TypeOK, stream_vars, StreamAssumption
  <1>2. ASSUME mode = "Irreversible" PROVE Final(head)'
    <2>1. Final(head) /\ head \in Nat /\ TypeOK /\ head' = head
      BY <1>2 DEF StreamInv, HeardFinal, TypeOK, stream_vars
    <2>2. \A k \in Nat : Final(k) => Final(k)'
      BY <2>1, FinalStays
    <2> QED BY <2>1, <2>2 DEF Final
  <1>3. ASSUME mode = "Irreversible", NEW i \in 1 .. Len(items)
        PROVE  \E n \in Nodes : items[i].number <= node'[n].irreversible
    <2>1. items[i].number \in Nat /\ TypeOK
      BY <1>3, ItemNumbers DEF StreamInv, TypeOK
    <2>2. Final(items[i].number)
      BY <1>3 DEF StreamInv, WaitsForFinality
    <2> DEFINE k == items[i].number
    <2>3. PICK n \in Nodes : k <= node[n].irreversible
      BY <2>2 DEF Final
    <2>4. /\ node[n].irreversible \in Nat /\ node'[n].irreversible \in Nat
          /\ node[n].irreversible <= node'[n].irreversible
      BY <2>1 DEF TypeOK, NodeView
    <2>5. k <= node'[n].irreversible
      BY <2>1, <2>3, <2>4
    <2> QED BY <2>5
  <1>4. mode' = mode /\ items' = items /\ next' = next /\ pc' = pc /\ wanted' = wanted
    BY DEF stream_vars
  <1>5. WaitsForFinality' /\ HeardFinal'
    BY <1>2, <1>3, <1>4 DEF WaitsForFinality, HeardFinal, Final
  <1> QED BY <1>1, <1>4, <1>5 DEF StreamInv, Consecutive, Linked

(* Steps of the stream that hand nothing out.  Where they change the head, *)
(* some node reported it. *)
LEMMA StreamMoves ==
    ASSUME StreamInv, UNCHANGED <<chain, node, forks, mode, items>>,
           outages' \in 0 .. Outages,
           pc' \in {"ready", "loop", "bounded", "ended"},
           head' = head \/ \E n \in Nodes : head' = reported_head(n),
           next' \in Nat, wanted' \in Nat,
           items # <<>> => next' = next,
           pc' = "bounded" => next' \in {FollowHead, wanted'}
    PROVE  StreamInv'
  <1>1. head' \in 0 .. chain
    <2>1. ASSUME NEW n \in Nodes PROVE reported_head(n) \in 0 .. chain
      BY StreamAssumption DEF StreamInv, TypeOK, NodeView, reported_head, StreamAssumption
    <2> QED BY <2>1 DEF StreamInv, TypeOK
  <1>2. TypeOK'
    BY <1>1 DEF StreamInv, TypeOK
  <1>3. ASSUME mode = "Irreversible" PROVE Final(head')
    <2>1. CASE head' = head
      BY <1>3, <2>1 DEF StreamInv, HeardFinal
    <2>2. CASE \E n \in Nodes : head' = reported_head(n)
      <3>1. PICK n \in Nodes : head' = node[n].irreversible
        BY <1>3, <2>2 DEF reported_head
      <3>2. node[n].irreversible \in Nat
        BY DEF StreamInv, TypeOK, NodeView
      <3> QED BY <3>1, <3>2 DEF Final
    <2> QED BY <2>1, <2>2
  <1>4. WaitsForFinality' /\ HeardFinal' /\ Consecutive' /\ Linked'
    BY <1>3 DEF StreamInv, WaitsForFinality, HeardFinal, Consecutive, Linked, Final
  <1> QED BY <1>2, <1>4 DEF StreamInv

(* Steps that hand out the block that is wanted, or the error in its place.*)
LEMMA StreamYields ==
    ASSUME StreamInv, Known, NEW x \in Item, x.number = wanted,
           items' = Append(items, x), next' = wanted + 1, pc' = "ready",
           UNCHANGED <<chain, node, forks, mode, head, wanted>>, outages' \in 0 .. Outages
    PROVE  StreamInv'
  <1>1. /\ items \in Seq(Item) /\ Len(items) \in Nat
        /\ wanted \in Nat /\ head \in Nat /\ next \in Nat
    BY DEF StreamInv, TypeOK
  <1>2. wanted <= head /\ pc = "bounded"
    BY <1>1 DEF Known, Unknown
  <1>3. /\ items' \in Seq(Item) /\ Len(items') = Len(items) + 1
        /\ items'[Len(items) + 1] = x
        /\ \A i \in 1 .. Len(items) : items'[i] = items[i]
    BY <1>1, Appended
  <1>4. TypeOK'
    BY <1>1, <1>3 DEF StreamInv, TypeOK
  <1>5. items # <<>> => items[Len(items)].number + 1 = wanted
    <2>1. SUFFICES ASSUME items # <<>> PROVE items[Len(items)].number + 1 = wanted
      OBVIOUS
    <2>2. items[Len(items)].number \in Nat
      BY <1>1, <2>1, ItemNumbers
    <2>3. next = items[Len(items)].number + 1 /\ next \in {FollowHead, wanted}
      BY <1>2, <2>1 DEF StreamInv, Linked
    <2> QED BY <2>2, <2>3 DEF FollowHead
  <1>6. Consecutive'
    <2> SUFFICES ASSUME NEW i \in 1 .. Len(items') - 1
                 PROVE  items'[i + 1].number = items'[i].number + 1
      BY DEF Consecutive
    <2>1. CASE i = Len(items)
      <3>1. items # <<>> /\ items'[i] = items[i] /\ items'[i + 1] = x
        BY <1>1, <1>3, <2>1
      <3> QED BY <1>5, <2>1, <3>1
    <2>2. CASE i # Len(items)
      <3>1. i \in 1 .. Len(items) - 1 /\ i + 1 \in 1 .. Len(items)
        BY <1>1, <1>3, <2>2
      <3>2. items'[i] = items[i] /\ items'[i + 1] = items[i + 1]
        BY <1>1, <1>3, <3>1
      <3> QED BY <3>1, <3>2 DEF StreamInv, Consecutive
    <2> QED BY <2>1, <2>2
  <1>7. Linked'
    BY <1>1, <1>3 DEF Linked
  <1>8. ASSUME mode = "Irreversible" PROVE Final(head) /\ Final(wanted)
    <2>1. PICK n \in Nodes : head <= node[n].irreversible
      BY <1>8 DEF StreamInv, HeardFinal, Final
    <2>2. node[n].irreversible \in Nat
      BY DEF StreamInv, TypeOK, NodeView
    <2>3. wanted <= node[n].irreversible
      BY <1>1, <1>2, <2>1, <2>2
    <2> QED BY <2>1, <2>3 DEF Final
  <1>9. HeardFinal'
    BY <1>8 DEF HeardFinal, Final
  <1>10. WaitsForFinality'
    <2> SUFFICES ASSUME mode = "Irreversible", NEW i \in 1 .. Len(items')
                 PROVE  Final(items'[i].number)
      BY DEF WaitsForFinality, Final
    <2>1. CASE i = Len(items) + 1
      BY <1>3, <1>8, <2>1
    <2>2. CASE i # Len(items) + 1
      <3>1. i \in 1 .. Len(items) /\ items'[i] = items[i]
        BY <1>1, <1>3, <2>2
      <3> QED BY <3>1 DEF StreamInv, WaitsForFinality
    <2> QED BY <2>1, <2>2
  <1> QED BY <1>4, <1>6, <1>7, <1>9, <1>10 DEF StreamInv

-----------------------------------------------------------------------------
(* Every step keeps the invariant. *)
LEMMA StreamInvStep ==
    ASSUME StreamInv, [Next]_vars
    PROVE  StreamInv'
  <1>t. TypeOK
    BY DEF StreamInv
  <1>n. /\ node \in [Nodes -> NodeView] /\ chain \in Nat /\ forks \in Nat
        /\ \A n \in Nodes : /\ node[n].height \in Nat /\ node[n].irreversible \in Nat
                            /\ node[n].irreversible <= node[n].height /\ node[n].height <= chain
    BY <1>t, StreamAssumption DEF TypeOK, NodeView, StreamAssumption
  <1>s. /\ outages \in 0 .. Outages /\ outages \in Nat /\ next \in Nat /\ wanted \in Nat
        /\ items # <<>> => next # FollowHead
    <2>1. items # <<>> => items[Len(items)].number \in Nat
      BY <1>t, ItemNumbers DEF TypeOK
    <2> QED BY <1>t, <2>1 DEF TypeOK, StreamInv, Linked, FollowHead
  <1>1. CASE ChainGrows
    <2>1. chain' \in FirstHead .. LastHead /\ chain <= chain'
      BY <1>1, <1>t, StreamAssumption DEF ChainGrows, TypeOK, StreamAssumption
    <2>2. UNCHANGED <<node, forks, outages, stream_vars>>
      BY <1>1 DEF ChainGrows
    <2>3. \A n \in Nodes : node[n].height <= chain'
      BY <1>n, <2>1, StreamAssumption DEF StreamAssumption
    <2> QED BY <1>n, <1>t, <2>1, <2>2, <2>3, OthersMove DEF TypeOK
  <1>2. ASSUME NEW n \in Nodes, NodeStep(n) \/ NodeForks(n)
        PROVE  StreamInv'
    <2>1. PICK v \in NodeView :
             /\ node' = [node EXCEPT ![n] = v]
             /\ node[n].irreversible <= v.irreversible
             /\ v.irreversible <= v.height /\ v.height <= chain
      <3>1. CASE NodeAdvances(n)
        <4> DEFINE v == [node[n] EXCEPT !.height = @ + 1]
        <4>1. node' = [node EXCEPT ![n] = v] /\ node[n].height < chain
          BY <3>1 DEF NodeAdvances
        <4>2. v \in NodeView /\ v.height = node[n].height + 1 /\ v.irreversible = node[n].irreversible
          BY <1>n DEF NodeView
        <4> HIDE DEF v
        <4>3. v.irreversible <= v.height /\ v.height <= chain /\ node[n].irreversible <= v.irreversible
          BY <1>n, <4>1, <4>2
        <4> QED BY <4>1, <4>2, <4>3
      <3>2. CASE NodeConfirms(n)
        <4> DEFINE v == [node[n] EXCEPT !.irreversible = @ + 1]
        <4>1. node' = [node EXCEPT ![n] = v] /\ node[n].irreversible + Confirmations < node[n].height
          BY <3>2 DEF NodeConfirms
        <4>2. v \in NodeView /\ v.height = node[n].height /\ v.irreversible = node[n].irreversible + 1
          BY <1>n DEF NodeView
        <4> HIDE DEF v
        <4>3. v.irreversible <= v.height /\ v.height <= chain /\ node[n].irreversible <= v.irreversible
          BY <1>n, <4>1, <4>2, StreamAssumption DEF StreamAssumption
        <4> QED BY <4>1, <4>2, <4>3
      <3>3. CASE NodeSwitches(n) \/ NodeForks(n)
        <4>1. PICK b \in BOOLEAN : node' = [node EXCEPT ![n].forked = b]
          BY <3>3 DEF NodeSwitches, NodeForks
        <4> DEFINE v == [node[n] EXCEPT !.forked = b]
        <4>2. node' = [node EXCEPT ![n] = v]
          BY <4>1
        <4>3. v \in NodeView /\ v.height = node[n].height /\ v.irreversible = node[n].irreversible
          BY <1>n DEF NodeView
        <4> HIDE DEF v
        <4>4. v.irreversible <= v.height /\ v.height <= chain /\ node[n].irreversible <= v.irreversible
          BY <1>n, <4>3
        <4> QED BY <4>2, <4>3, <4>4
      <3> QED BY <1>2, <3>1, <3>2, <3>3 DEF NodeStep
    <2>2. UNCHANGED <<chain, outages, stream_vars>>
      BY <1>2 DEF NodeStep, NodeForks, NodeAdvances, NodeConfirms, NodeSwitches
    <2>3. forks' \in 0 .. Forks
      BY <1>2, <1>t, StreamAssumption
         DEF NodeStep, NodeForks, NodeAdvances, NodeConfirms, NodeSwitches, TypeOK, StreamAssumption
    <2>4. node' \in [Nodes -> NodeView]
      BY <1>n, <2>1
    <2>5. ASSUME NEW k \in Nodes
          PROVE  /\ node[k].irreversible <= node'[k].irreversible
                 /\ node'[k].irreversible <= node'[k].height
                 /\ node'[k].height <= chain'
      BY <1>n, <2>1, <2>2
    <2>6. chain' \in FirstHead .. LastHead /\ chain <= chain'
      BY <1>n, <1>t, <2>2 DEF TypeOK
    <2> QED BY <2>2, <2>3, <2>4, <2>5, <2>6, OthersMove
  <1>3. CASE AskNext
    BY <1>3, <1>s, StreamMoves DEF AskNext
  <1>4. CASE Take
    BY <1>4, <1>s, StreamMoves DEF Take
  <1>5. CASE TakeHead
    <2>1. PICK n \in Nodes : head' = reported_head(n) /\ wanted' = reported_head(n)
      BY <1>5 DEF TakeHead
    <2>2. wanted' \in Nat
      BY <1>n, <2>1 DEF reported_head
    <2> QED BY <1>5, <1>s, <2>1, <2>2, StreamMoves DEF TakeHead
  <1>6. CASE TakeHeadFails \/ PollFails
    <2>1. outages' \in 0 .. Outages
      BY <1>6, <1>s, StreamAssumption DEF TakeHeadFails, PollFails, CallFails, StreamAssumption
    <2> QED BY <1>6, <1>s, <2>1, StreamMoves DEF TakeHeadFails, PollFails, CallFails
  <1>7. CASE End
    BY <1>7, <1>s, StreamMoves DEF End
  <1>8. CASE Poll
    <2>1. pc = "bounded" => next \in {FollowHead, wanted}
      BY DEF StreamInv, Linked
    <2> QED BY <1>8, <1>s, <2>1, StreamMoves DEF Poll, Unknown
  <1>9. CASE Fetch
    <2>1. PICK n \in Nodes : items' = Append(items, Served(n, wanted))
      BY <1>9 DEF Fetch
    <2>2. Served(n, wanted) \in Item /\ Served(n, wanted).number = wanted
      BY <1>s DEF Served, Item
    <2> QED BY <1>9, <1>s, <2>1, <2>2, StreamYields DEF Fetch
  <1>10. CASE FetchMissing
    <2>1. pc = "bounded" => next \in {FollowHead, wanted}
      BY DEF StreamInv, Linked
    <2>2. items # <<>> => next' = next
      BY <1>10, <1>s, <2>1 DEF FetchMissing, Known
    <2> QED BY <1>10, <1>s, <2>2, StreamMoves DEF FetchMissing
  <1>11. CASE FetchFails
    <2> DEFINE x == [number |-> wanted, kind |-> "error"]
    <2>1. x \in Item /\ x.number = wanted
      BY <1>s DEF Item
    <2>2. outages' \in 0 .. Outages
      BY <1>11, <1>s, StreamAssumption DEF FetchFails, CallFails, StreamAssumption
    <2> QED BY <1>11, <2>1, <2>2, StreamYields DEF FetchFails, CallFails
  <1>12. CASE UNCHANGED vars
    BY <1>12 DEF vars, stream_vars, StreamInv, TypeOK, Consecutive, WaitsForFinality,
                 Linked, HeardFinal, Final
  <1> QED BY <1>1, <1>2, <1>3, <1>4, <1>5, <1>6, <1>7, <1>8, <1>9, <1>10, <1>11, <1>12
          DEF Next, StreamStep

(* StreamInv holds in every state of every behaviour. *)
THEOREM StreamInvariant == Safety => []StreamInv
  <1>1. Init => StreamInv
    <2> SUFFICES ASSUME Init PROVE StreamInv
      OBVIOUS
    <2>1. \A n \in Nodes : /\ node[n] \in NodeView /\ node[n].irreversible + Confirmations = node[n].height
                           /\ node[n].height \in 1 .. FirstHead /\ node[n].irreversible \in 1 .. FirstHead
      <3>1. ASSUME NEW n \in Nodes
            PROVE  node[n] \in {v \in [height : 1 .. FirstHead, irreversible : 1 .. FirstHead,
                                       forked : {FALSE}] : v.irreversible + Confirmations = v.height}
        BY DEF Init
      <3>2. \A v \in [height : 1 .. FirstHead, irreversible : 1 .. FirstHead, forked : {FALSE}] :
                v \in NodeView /\ v.height \in 1 .. FirstHead /\ v.irreversible \in 1 .. FirstHead
        <4> SUFFICES ASSUME NEW v \in [height : 1 .. FirstHead, irreversible : 1 .. FirstHead,
                                      forked : {FALSE}]
                     PROVE  v \in NodeView /\ v.height \in 1 .. FirstHead
                               /\ v.irreversible \in 1 .. FirstHead
          OBVIOUS
        <4>1. 1 .. FirstHead \subseteq Nat /\ {FALSE} \subseteq BOOLEAN
          OBVIOUS
        <4>2. v.height \in 1 .. FirstHead /\ v.irreversible \in 1 .. FirstHead /\ v.forked \in {FALSE}
          OBVIOUS
        <4>3. v = [height |-> v.height, irreversible |-> v.irreversible, forked |-> v.forked]
          OBVIOUS
        <4> QED BY <4>1, <4>2, <4>3 DEF NodeView
      <3> QED BY <3>1, <3>2
    <2>2. TypeOK
      BY <2>1, StreamAssumption DEF Init, TypeOK, StreamAssumption
    <2>3. Final(0)
      <3>1. PICK n \in Nodes : TRUE
        BY StreamAssumption DEF StreamAssumption
      <3> QED BY <2>1, <3>1 DEF Final
    <2> QED BY <2>2, <2>3 DEF Init, StreamInv, Consecutive, WaitsForFinality, Linked, HeardFinal
  <1>2. StreamInv /\ [Next]_vars => StreamInv'
    BY StreamInvStep
  <1> QED BY <1>1, <1>2, PTL DEF Safety

(* Every field keeps its type, and no node is ahead of the chain. *)
THEOREM StreamTypeCorrect == Safety => []TypeOK
  <1>1. StreamInv => TypeOK
    BY DEF StreamInv
  <1> QED BY <1>1, StreamInvariant, PTL

(* No block twice, none left out silently, whichever nodes answer.         *)
THEOREM StreamIsConsecutive == Safety => []Consecutive
  <1>1. StreamInv => Consecutive
    BY DEF StreamInv
  <1> QED BY <1>1, StreamInvariant, PTL

(* An irreversible stream never runs ahead of what is final. *)
THEOREM StreamWaits == Safety => []WaitsForFinality
  <1>1. StreamInv => WaitsForFinality
    BY DEF StreamInv
  <1> QED BY <1>1, StreamInvariant, PTL

-----------------------------------------------------------------------------
(* Manabar: the bar that is extrapolated is the one the chain has. *)

(* Fractions to a whole unit of mana. *)
Rate == REGENERATION_SECONDS

(* What a bar that held mana at its last update has had added to it by     *)
(* then, in fractions and without a maximum.                               *)
Grown(b, max, moment) == Rate * b.current_mana + max * (moment - b.last_update_time)

(* The bar is of its maximum, and was last updated in the past. *)
BarInv ==
    /\ max_rc \in Nat /\ max_rc <= I64Max
    /\ bar = Bar(bar.current_mana, bar.last_update_time)
    /\ bar.current_mana \in 0 .. max_rc
    /\ bar.last_update_time \in 0 .. time

(* The inductive invariant: the chain's own count is what the stored bar    *)
(* has grown to, up to the maximum, and the client's copy is of that bar   *)
(* until mana is spent.                                                    *)
ManaInv ==
    /\ time \in Nat /\ BarInv
    /\ exact = min(Grown(bar, max_rc, time), max_rc * Rate)
    /\ ~spent =>
         /\ as_integer(copy.current_mana) = bar.current_mana
         /\ as_integer(copy.max_rc) = max_rc
         /\ copy.last_update_time = bar.last_update_time

-----------------------------------------------------------------------------
(* Naturals multiply to naturals. *)
LEMMA ProductNat ==
    ASSUME NEW x \in Nat, NEW y \in Nat PROVE x * y \in Nat
  OBVIOUS

(* A quotient and what it leaves. *)
LEMMA DivNat ==
    ASSUME NEW x \in Nat, NEW z \in Nat \ {0} 
    PROVE x \div z \in Nat /\ (x \div z) * z <= x /\ x < (x \div z) * z + z
  OBVIOUS

(* A larger dividend, no smaller quotient. *)
LEMMA DivMonotone ==
    ASSUME NEW x \in Nat, NEW y \in Nat, x <= y, NEW z \in Nat \ {0}
    PROVE  x \div z <= y \div z
  OBVIOUS

(* A multiple divides without a rest. *)
LEMMA DivWhole ==
    ASSUME NEW k \in Nat, NEW z \in Nat \ {0}
    PROVE  (k * z) \div z = k
  OBVIOUS

(* A whole part comes out of a quotient. *)
LEMMA DivAdd ==
    ASSUME NEW x \in Nat, NEW k \in Nat, NEW z \in Nat \ {0}
    PROVE  (z * k + x) \div z = k + (x \div z)
  OBVIOUS

(* Multiplication distributes over a sum. *)
LEMMA Growth ==
    ASSUME NEW a \in Nat, NEW x \in Nat, NEW y \in Nat
    PROVE  a * (x + y) = a * x + a * y
  OBVIOUS

(* A second adds the maximum, in fractions. *)
LEMMA GrownNext ==
    ASSUME NEW b, b.current_mana \in Nat, b.last_update_time \in Nat, NEW max \in Nat,
           NEW moment \in Nat, b.last_update_time <= moment
    PROVE  Grown(b, max, moment + 1) = Grown(b, max, moment) + max
  <1> DEFINE d == moment - b.last_update_time
  <1>1. d \in Nat /\ moment + 1 - b.last_update_time = d + 1
    OBVIOUS
  <1>2. /\ Grown(b, max, moment) = Rate * b.current_mana + max * d
        /\ Grown(b, max, moment + 1) = Rate * b.current_mana + max * (d + 1)
    BY <1>1 DEF Grown
  <1>3. Rate \in Nat
    BY ManaAssumption DEF Rate
  <1> HIDE DEF d
  <1>4. max * (d + 1) = max * d + max
    BY <1>1
  <1>5. Rate * b.current_mana \in Nat /\ max * d \in Nat
    BY <1>1, <1>3, ProductNat
  <1> QED BY <1>2, <1>4, <1>5

(* The value a client extrapolates, for every moment from the last update  *)
(* on: the fractions, of the maximum at most, rounded down.                *)
LEMMA CurrentIs ==
    ASSUME NEW b, b.current_mana \in Nat, b.last_update_time \in Nat,
           NEW max \in Nat, b.current_mana <= max, max <= I64Max,
           NEW moment \in Nat, b.last_update_time <= moment
    PROVE  /\ Grown(b, max, moment) \in Nat /\ max * Rate \in Nat
           /\ current(b, max, moment) = min(Grown(b, max, moment), max * Rate) \div Rate
           /\ current(b, max, moment) \in 0 .. max
  <1> DEFINE m == b.current_mana
             d == moment - b.last_update_time
             G == Grown(b, max, moment)
             q == regenerated(max, d)
  <1>1. Rate \in Nat \ {0} /\ I64Max \in Nat
    BY ManaAssumption DEF Rate
  <1>2. m \in Nat /\ d \in Nat /\ m <= max
    OBVIOUS
  <1>3. saturating_sub(moment, b.last_update_time) = d
    BY DEF saturating_sub
  <1>4. G = Rate * m + max * d
    BY DEF Grown
  <1>5. Rate * m \in Nat /\ max * d \in Nat /\ max * Rate \in Nat /\ Rate * max = max * Rate
    BY <1>1, <1>2, ProductNat
  <1>6. current(b, max, moment) = IF max <= 0 THEN 0 ELSE clamp(min(m + q, I64Max), max)
    BY <1>3 DEF current, saturating_add
  <1>7. q = (min(d, Rate) * max) \div Rate
    BY DEF regenerated, Rate
  <1> HIDE DEF m, d, G, q
  <1>8. G \in Nat
    BY <1>4, <1>5
  <1>9. CASE max = 0
    <2>1. m = 0 /\ max * d = 0 /\ max * Rate = 0 /\ Rate * m = 0
      BY <1>1, <1>2, <1>9
    <2>2. min(G, max * Rate) = 0
      BY <1>4, <2>1 DEF min
    <2>3. 0 \div Rate = 0
      BY <1>1
    <2>4. current(b, max, moment) = 0
      BY <1>6, <1>9
    <2> QED BY <1>5, <1>8, <1>9, <2>2, <2>3, <2>4 DEF G
  <1>10. CASE max > 0
    <2>1. q \in Nat /\ min(m + q, max) = min(G, max * Rate) \div Rate
      <3>1. CASE d <= Rate
        <4>1. min(d, Rate) * max = max * d
          BY <1>1, <1>2, <3>1 DEF min
        <4>2. q = (max * d) \div Rate
          BY <1>7, <4>1
        <4>3. q \in Nat
          BY <4>2, <1>1, <1>5, DivNat
        <4>4. G \div Rate = m + q
          BY <4>2, <1>4, <1>1, <1>2, <1>5, DivAdd, SMTT(60), ZenonT(60)
        <4>5. (max * Rate) \div Rate = max
          BY <1>1, DivWhole
        <4>6. CASE G <= max * Rate
          <5>1. G \div Rate <= (max * Rate) \div Rate
            BY <4>6, <1>1, <1>5, <1>8, DivMonotone
          <5> QED BY <4>3, <4>4, <4>5, <4>6, <5>1, <1>2 DEF min
        <4>7. CASE ~(G <= max * Rate)
          <5>1. (max * Rate) \div Rate <= G \div Rate
            BY <4>7, <1>1, <1>5, <1>8, DivMonotone
          <5> QED BY <4>3, <4>4, <4>5, <4>7, <5>1, <1>2 DEF min
        <4> QED BY <4>6, <4>7
      <3>2. CASE Rate < d
        <4>1. min(d, Rate) * max = max * Rate
          BY <1>1, <1>2, <1>5, <3>2 DEF min
        <4>2. q = max
          BY <4>1, <1>7, <1>1, DivWhole
        <4>3. Rate * max <= d * max /\ d * max = max * d
          BY <1>1, <1>2, <3>2, ProductMonotone
        <4>4. max * Rate <= G
          BY <4>3, <1>4, <1>5
        <4>5. (max * Rate) \div Rate = max
          BY <1>1, DivWhole
        <4>6. min(G, max * Rate) = max * Rate
          BY <4>4, <1>5, <1>8 DEF min
        <4> QED BY <4>2, <4>5, <4>6, <1>2 DEF min
      <3> QED BY <1>1, <1>2, <3>1, <3>2
    <2>2. clamp(min(m + q, I64Max), max) = min(m + q, max)
      BY <2>1, <1>1, <1>2 DEF clamp, min
    <2>3. min(m + q, max) \in 0 .. max
      BY <2>1, <1>2 DEF min
    <2> QED BY <1>5, <1>6, <1>8, <1>10, <2>1, <2>2, <2>3 DEF G
  <1> QED BY <1>9, <1>10

(* Time that passes only adds to it, and a clock that is behind the last   *)
(* update is taken for one that shows it.                                  *)
LEMMA CurrentGrows ==
    ASSUME NEW b, b.current_mana \in Nat, b.last_update_time \in Nat,
           NEW max \in Nat, b.current_mana <= max, max <= I64Max,
           NEW x \in Nat, NEW y \in Nat, x <= y, b.last_update_time <= y
    PROVE  current(b, max, x) <= current(b, max, y)
  <1> DEFINE last == b.last_update_time
  <1>1. Rate \in Nat \ {0}
    BY ManaAssumption DEF Rate
  <1>2. ASSUME NEW z \in Nat, last <= z, z <= y
        PROVE  current(b, max, z) <= current(b, max, y)
    <2>1. current(b, max, z) = min(Grown(b, max, z), max * Rate) \div Rate
      BY <1>2, CurrentIs
    <2>2. current(b, max, y) = min(Grown(b, max, y), max * Rate) \div Rate
      BY CurrentIs
    <2>3. Grown(b, max, z) \in Nat /\ Grown(b, max, y) \in Nat /\ max * Rate \in Nat
      BY <1>2, CurrentIs
    <2>4. Grown(b, max, z) <= Grown(b, max, y)
      <3>1. (z - last) * max <= (y - last) * max
        BY <1>2, ProductMonotone
      <3>2. (z - last) * max = max * (z - last) /\ (y - last) * max = max * (y - last)
        BY <1>2
      <3>3. Rate * b.current_mana \in Nat /\ max * (z - last) \in Nat /\ max * (y - last) \in Nat
        BY <1>1, <1>2, ProductNat
      <3> QED BY <3>1, <3>2, <3>3 DEF Grown
    <2>5. /\ min(Grown(b, max, z), max * Rate) \in Nat
          /\ min(Grown(b, max, y), max * Rate) \in Nat
          /\ min(Grown(b, max, z), max * Rate) <= min(Grown(b, max, y), max * Rate)
      BY <2>3, <2>4 DEF min
    <2> QED BY <1>1, <2>1, <2>2, <2>5, DivMonotone
  <1>3. CASE last <= x
    BY <1>2, <1>3
  <1>4. CASE x < last
    <2>1. saturating_sub(x, last) = 0 /\ saturating_sub(last, last) = 0
      BY <1>4 DEF saturating_sub
    <2>2. current(b, max, x) = current(b, max, last)
      BY <2>1 DEF current
    <2> QED BY <1>2, <2>2
  <1> QED BY <1>3, <1>4

(* One second after the bar was said to be full, it is. *)
LEMMA FullIsReached ==
    ASSUME NEW b, b.current_mana \in Nat, b.last_update_time \in Nat,
           NEW max \in Nat, b.current_mana <= max, max <= I64Max,
           NEW moment \in Nat, b.last_update_time <= moment,
           NEW s \in seconds_until_full(b, max, moment)
    PROVE  current(b, max, moment + s + 1) = max
  <1> DEFINE c == current(b, max, moment)
             later == moment + s + 1
             G == Grown(b, max, moment)
             H == Grown(b, max, later)
             M == max * Rate
             missing == (max - c) * Rate
  <1>1. Rate \in Nat \ {0}
    BY ManaAssumption DEF Rate
  <1>2. c \in 0 .. max /\ G \in Nat /\ M \in Nat /\ c = min(G, M) \div Rate
    BY CurrentIs
  <1>3. max > 0 /\ c < max /\ s = missing \div max
    BY <1>2 DEF seconds_until_full, Rate
  <1>4. max - c \in Nat /\ missing \in Nat
    <2>1. max - c \in Nat
      BY <1>2, <1>3
    <2> HIDE DEF c
    <2> QED BY <2>1, <1>1, ProductNat
  <1>5. s \in Nat /\ missing < s * max + max
    <2> HIDE DEF missing, c
    <2> QED BY <1>3, <1>4, DivNat
  <1>6. later \in Nat /\ b.last_update_time <= later
    BY <1>5
  <1>7. /\ H \in Nat /\ current(b, max, later) = min(H, M) \div Rate
        /\ current(b, max, later) \in 0 .. max
    BY <1>6, CurrentIs
  <1>8. H = G + (s * max + max)
    <2> DEFINE d == moment - b.last_update_time
    <2>1. d \in Nat /\ s + 1 \in Nat /\ later - b.last_update_time = d + (s + 1)
      BY <1>5
    <2>2. H = Rate * b.current_mana + max * (d + (s + 1)) /\ G = Rate * b.current_mana + max * d
      BY <2>1 DEF Grown
    <2> HIDE DEF d, H, G, later
    <2>3. max * (d + (s + 1)) = max * d + max * (s + 1)
      BY <2>1, Growth
    <2>4. max * (s + 1) = s * max + max
      BY <1>5
    <2>5. Rate * b.current_mana \in Nat /\ max * d \in Nat /\ s * max \in Nat
      BY <1>1, <1>5, <2>1, ProductNat
    <2> QED BY <2>2, <2>3, <2>4, <2>5
  <1> HIDE DEF G, H, M, later, c
  <1>9. c * Rate <= G
    <2>1. min(G, M) \in Nat /\ min(G, M) <= G
      BY <1>2 DEF min
    <2>2. (min(G, M) \div Rate) * Rate <= min(G, M)
      BY <2>1, <1>1, DivNat
    <2>3. c * Rate <= min(G, M)
      BY <1>2, <2>2
    <2>4. c * Rate \in Nat
      BY <1>1, <1>2, ProductNat
    <2> QED BY <2>1, <2>3, <2>4, <1>2
  <1>10. max * Rate = c * Rate + missing
    BY <1>1, <1>2, <1>3
  <1> HIDE DEF missing
  <1>11. max * Rate <= H
    <2>1. c * Rate \in Nat /\ s * max \in Nat
      BY <1>1, <1>2, <1>5, ProductNat
    <2> QED BY <2>1, <1>2, <1>4, <1>5, <1>8, <1>9, <1>10
  <1>12. max * Rate <= M
    BY <1>1 DEF M
  <1>13. min(H, M) \in Nat /\ max * Rate <= min(H, M)
    BY <1>2, <1>7, <1>11, <1>12 DEF min
  <1>14. max <= min(H, M) \div Rate
    BY <1>1, <1>13, DivLower
  <1> QED BY <1>1, <1>5, <1>7, <1>14 DEF later

-----------------------------------------------------------------------------
(* ManaInv holds in the beginning. *)
LEMMA ManaInvInit == ManaInit => ManaInv
  <1> SUFFICES ASSUME ManaInit PROVE ManaInv
    OBVIOUS
  <1> DEFINE mana == bar.current_mana
  <1>1. time = 0 /\ spent = TRUE /\ max_rc \in Nat /\ max_rc <= I64Max
    BY ManaAssumption DEF ManaInit
  <1>2. PICK m \in 0 .. max_rc : bar = Bar(m, 0) /\ exact = Rate * m
    BY DEF ManaInit, Rate
  <1>3. bar.current_mana = m /\ bar.last_update_time = 0
    BY <1>2 DEF Bar
  <1>4. Rate \in Nat /\ m \in Nat /\ m <= max_rc
    BY <1>1, <1>2, ManaAssumption DEF Rate
  <1>5. exact = min(Grown(bar, max_rc, time), max_rc * Rate)
    <2>1. Grown(bar, max_rc, time) = Rate * m + max_rc * (0 - 0)
      BY <1>1, <1>3 DEF Grown
    <2>2. max_rc * (0 - 0) = 0
      BY <1>1
    <2>3. Rate * m \in Nat /\ Rate * m = m * Rate /\ m * Rate <= max_rc * Rate /\ max_rc * Rate \in Nat
      BY <1>1, <1>4, ProductMonotone, ProductNat
    <2> QED BY <1>2, <2>1, <2>2, <2>3 DEF min
  <1> QED BY <1>1, <1>2, <1>3, <1>4, <1>5 DEF ManaInv, BarInv

(* Every step keeps ManaInv. *)
LEMMA ManaInvStep == ManaInv /\ [ManaNext]_mana_vars => ManaInv'
  <1> SUFFICES ASSUME ManaInv, [ManaNext]_mana_vars PROVE ManaInv'
    OBVIOUS
  <1>1. Rate \in Nat \ {0} /\ Costs \subseteq Nat
    BY ManaAssumption DEF Rate
  <1>2. /\ time \in Nat /\ max_rc \in Nat /\ max_rc <= I64Max
        /\ bar.current_mana \in Nat /\ bar.current_mana <= max_rc
        /\ bar.last_update_time \in Nat /\ bar.last_update_time <= time
    BY DEF ManaInv, BarInv
  <1>3. ASSUME NEW cost \in Costs, Spend(cost) PROVE ManaInv'
    <2> DEFINE left == current(bar, max_rc, time) - cost
    <2>1. current(bar, max_rc, time) \in 0 .. max_rc
      BY <1>2, CurrentIs
    <2>2. left \in Nat /\ left <= max_rc
      <3>1. cost \in Nat /\ cost <= current(bar, max_rc, time)
        BY <1>1, <1>3 DEF Spend
      <3> QED BY <2>1, <3>1, <1>2
    <2>3. /\ bar' = Bar(left, time) /\ exact' = Rate * bar'.current_mana
          /\ time' = time /\ max_rc' = max_rc /\ spent' = TRUE
      BY <1>3 DEF Spend, Rate
    <2> HIDE DEF left
    <2>4. bar'.current_mana = left /\ bar'.last_update_time = time
      BY <2>3 DEF Bar
    <2>5. exact' = min(Grown(bar, max_rc, time), max_rc * Rate)'
      <3>1. Grown(bar, max_rc, time)' = Rate * left + max_rc * (time - time)
        BY <2>3, <2>4 DEF Grown, Rate
      <3>2. max_rc * (time - time) = 0
        BY <1>2
      <3>3. Rate * left \in Nat /\ Rate * left = left * Rate /\ left * Rate <= max_rc * Rate /\ max_rc * Rate \in Nat
        BY <1>1, <1>2, <2>2, ProductMonotone, ProductNat
      <3>4. (max_rc * Rate)' = max_rc * Rate
        BY <2>3 DEF Rate
      <3> QED BY <2>3, <2>4, <3>1, <3>2, <3>3, <3>4 DEF min
    <2> QED BY <1>2, <2>2, <2>3, <2>4, <2>5 DEF ManaInv, BarInv
  <1>4. ASSUME Passes PROVE ManaInv'
    <2> DEFINE G == Grown(bar, max_rc, time)
               M == max_rc * Rate
    <2>1. /\ time' = time + 1 /\ max_rc' = max_rc /\ bar' = bar
          /\ copy' = copy /\ spent' = spent
          /\ exact' = min(exact + max_rc, M)
      BY <1>4 DEF Passes, Rate
    <2>2. G \in Nat /\ M \in Nat /\ exact = min(G, M)
      BY <1>2, CurrentIs DEF ManaInv
    <2>3. Grown(bar, max_rc, time)' = G + max_rc
      <3>1. Grown(bar, max_rc, time)' = Grown(bar, max_rc, time + 1)
        <4>1. bar' = bar /\ max_rc' = max_rc /\ time' = time + 1
          BY <2>1
        <4> HIDE <2>1
        <4> QED BY <4>1 DEF Grown, Rate
      <3> QED BY <1>2, <3>1, GrownNext
    <2>4. (max_rc * Rate)' = M
      BY <2>1 DEF Rate
    <2> HIDE DEF G, M
    <2>5. exact' = min(G + max_rc, M)
      BY <1>2, <2>1, <2>2 DEF min
    <2>6. exact' = min(Grown(bar, max_rc, time), max_rc * Rate)'
      BY <2>3, <2>4, <2>5 DEF min
    <2> QED BY <1>2, <2>1, <2>6 DEF ManaInv, BarInv
  <1>5. ASSUME FetchRc PROVE ManaInv'
    <2>1. time' = time /\ max_rc' = max_rc /\ bar' = bar /\ exact' = exact
      BY <1>5 DEF FetchRc
    <2>2. /\ as_integer(copy'.current_mana) = bar.current_mana
          /\ as_integer(copy'.max_rc) = max_rc
          /\ copy'.last_update_time = bar.last_update_time
      BY <1>5 DEF FetchRc, as_integer
    <2>3. (/\ time \in Nat /\ BarInv
           /\ exact = min(Grown(bar, max_rc, time), max_rc * Rate))'
      BY <2>1 DEF ManaInv, BarInv, Grown, Rate
    <2> QED BY <2>1, <2>2, <2>3 DEF ManaInv, as_integer
  <1>6. CASE UNCHANGED mana_vars
    BY <1>6 DEF mana_vars, ManaInv, BarInv, Grown, as_integer, Rate
  <1> QED BY <1>3, <1>4, <1>5, <1>6 DEF ManaNext

(* The inductive invariant holds of every behaviour of the bar, for every  *)
(* maximum, every cost and every clock. (Manabar, RcAccount)               *)
THEOREM ManaInvariant == ManaSpec => []ManaInv
  BY ManaInvInit, ManaInvStep, PTL DEF ManaSpec

(* A client's copy of an account shows, until the account spends, what the *)
(* chain would count at that moment, rounded down, never more on a clock   *)
(* that is behind; and a bar that was said to be full in so many seconds   *)
(* is full one second after. (Manabar::current, seconds_until_full,        *)
(* RcAccount::current_rc) *)
THEOREM ExtrapolationIsTheChains == ManaSpec => []ExtrapolatesTheChain
  <1>1. ManaInv => ExtrapolatesTheChain
    <2> SUFFICES ASSUME ManaInv, ~spent PROVE ExtrapolatesTheChain
      BY DEF ExtrapolatesTheChain
    <2>1. /\ time \in Nat /\ max_rc \in Nat /\ max_rc <= I64Max
          /\ bar.current_mana \in Nat /\ bar.current_mana <= max_rc
          /\ bar.last_update_time \in Nat /\ bar.last_update_time <= time
          /\ bar = Bar(bar.current_mana, bar.last_update_time)
          /\ exact = min(Grown(bar, max_rc, time), max_rc * Rate)
      BY DEF ManaInv, BarInv
    <2>2. ASSUME NEW moment PROVE current_rc(copy, moment) = current(bar, max_rc, moment)
      <3>1. Bar(as_integer(copy.current_mana), copy.last_update_time) = bar /\ as_integer(copy.max_rc) = max_rc
        BY <2>1 DEF ManaInv
      <3> QED BY <3>1 DEF current_rc
    <2>3. current(bar, max_rc, time) = exact \div REGENERATION_SECONDS /\ current(bar, max_rc, time) \in 0 .. max_rc
      BY <2>1, CurrentIs DEF Rate
    <2>4. \A behind \in 0 .. time : current(bar, max_rc, behind) <= current(bar, max_rc, time)
      BY <2>1, CurrentGrows
    <2>5. \A s \in seconds_until_full(bar, max_rc, time) :
             current(bar, max_rc, time + s + 1) = max_rc
      BY <2>1, FullIsReached
    <2> QED BY <2>2, <2>3, <2>4, <2>5 DEF ExtrapolatesTheChain
  <1> QED BY <1>1, ManaInvariant, PTL

-----------------------------------------------------------------------------
(* WalletStore, for every set of processes, keys and passphrases: what a   *)
(* wallet's file and its handles hold together, and what survives failed   *)
(* saves and crashes. *)

Loaded == {"ready", "saving", "writing", "written"}
Saving == {"saving", "writing", "written"}

HandleRecord ==
    [ pc : {"closed", "deriving"} \cup Loaded,
      file : WalletFile, cipher : Nat, phrase : SUBSET Passphrases, key : SUBSET Keys,
      op : {"", "create", "add", "remove", "rekey"},
      fd : {"", "temp", "disk", "unlinked"}, behind : BOOLEAN ]

(* A file whose entries are all sealed by its own salt, one of the first n.*)
FileInv(f, n) ==
    /\ f \in WalletFile
    /\ f.salt <= n /\ (f.kind = "whole") = (f.salt > 0)
    /\ \A k \in Stored(f) : f.sealed[k] = f.salt

HandleInv(w, n) ==
    /\ w \in HandleRecord /\ FileInv(w.file, n)
    /\ w.cipher \in {Locked, w.file.salt}
    /\ w.pc = "closed" => w = Closed
    /\ w.pc \in Loaded => w.file.kind = "whole"
    /\ (w.fd # "") = (w.pc = "writing")

HistoryTyped ==
    /\ kept \subseteq Keys /\ gone \subseteq Keys /\ phrases \subseteq Passphrases
    /\ shared \in BOOLEAN

(* What holds whoever has the wallet open. *)
FileStoreInv ==
    /\ drawn \in Seq(Passphrases) /\ Len(drawn) <= MaxSalts
    /\ FileInv(disk, Len(drawn)) /\ FileInv(temp, Len(drawn))
    /\ handle = [h \in Handles |-> handle[h]]
    /\ \A h \in Handles : HandleInv(handle[h], Len(drawn))
    /\ HistoryTyped

(* A file agrees with what its owner was told: it holds the keys k and none *)
(* of g, and its salt was drawn in d for one of the passphrases ps. *)
Honoured(f, d, k, g, ps) ==
    /\ f.kind = "whole" /\ d[f.salt] \in ps
    /\ k \subseteq Stored(f) /\ g \cap Stored(f) = {}

(* What the operation a handle is saving will report when it is done. *)
Promised(w, d) ==
    /\ w.op = "add" => w.key \subseteq Stored(w.file)
    /\ w.op = "remove" => w.key \cap Stored(w.file) = {}
    /\ w.op \in {"create", "rekey"} => d[w.file.salt] \in w.phrase

SoleHandle(w) ==
    /\ w.pc = "deriving" => w.op = "create" /\ kept = {} /\ gone = {}
    /\ w.pc \in Loaded => Honoured(w.file, drawn, kept, gone, phrases)
    /\ w.pc \in Saving => Promised(w, drawn)
    /\ w.pc = "writing" => w.fd = "temp" /\ temp.kind = "torn"
    /\ w.pc = "written" => temp = w.file
    /\ w.pc = "ready" /\ ~w.behind => disk = w.file

(* What one process at a time can rely on: memory and disk both agree with *)
(* what it reported, and with each other unless the last save failed, and  *)
(* the temporary file is its own. *)
SoleInv ==
    /\ \A g, h \in Handles : handle[g].pc # "closed" /\ handle[h].pc # "closed" => g = h
    /\ \/ disk.kind = "none" /\ kept = {} /\ gone = {}
       \/ Honoured(disk, drawn, kept, gone, phrases)
    /\ \A h \in Handles : SoleHandle(handle[h])

(* The inductive invariant. *)
WalletInv == FileStoreInv /\ (~shared => SoleInv)

-----------------------------------------------------------------------------
LEMMA FileGrows ==
    ASSUME NEW f, NEW n \in Nat, NEW m \in Nat, n <= m, FileInv(f, n)
    PROVE  FileInv(f, m)
  BY DEF FileInv, WalletFile

LEMMA HandleGrows ==
    ASSUME NEW w, NEW n \in Nat, NEW m \in Nat, n <= m, HandleInv(w, n)
    PROVE  HandleInv(w, m)
  BY FileGrows DEF HandleInv

(* A file without entries, and one that does not parse, agree with any     *)
(* number of salts. *)
LEMMA EmptyInv ==
    ASSUME NEW n \in Nat, NEW kind \in {"none", "torn"}
    PROVE  FileInv(Empty(kind), n)
  BY DEF FileInv, Empty, WalletFile, Stored

LEMMA ClosedInv ==
    ASSUME NEW n \in Nat PROVE HandleInv(Closed, n)
  BY EmptyInv DEF HandleInv, Closed, HandleRecord, FileInv, Locked, Loaded, Empty

(* Salts are drawn one by one, and keep their passphrases. *)
Draws ==
    \/ drawn' = drawn
    \/ Len(drawn) < MaxSalts /\ \E p \in Passphrases : drawn' = Append(drawn, p)

LEMMA DrawsSalt ==
    ASSUME FileStoreInv, Draws
    PROVE  /\ drawn' \in Seq(Passphrases) /\ Len(drawn') <= MaxSalts
           /\ Len(drawn) \in Nat /\ Len(drawn') \in Nat /\ Len(drawn) <= Len(drawn')
           /\ \A i \in 1 .. Len(drawn) : drawn'[i] = drawn[i]
  BY WalletAssumption DEF FileStoreInv, Draws, WalletAssumption

LEMMA HonouredStays ==
    ASSUME NEW d \in Seq(Passphrases), NEW e, \A i \in 1 .. Len(d) : e[i] = d[i],
           NEW f, FileInv(f, Len(d)), NEW k, NEW g, NEW ps, NEW qs, ps \subseteq qs,
           Honoured(f, d, k, g, ps)
    PROVE  Honoured(f, e, k, g, qs)
  BY DEF Honoured, FileInv, WalletFile

(* One handle moves to w. *)
LEMMA StoreStep ==
    ASSUME FileStoreInv, Draws, NEW h \in Handles, NEW w,
           handle' = [handle EXCEPT ![h] = w], HandleInv(w, Len(drawn')),
           FileInv(disk', Len(drawn')), FileInv(temp', Len(drawn')), HistoryTyped'
    PROVE  FileStoreInv'
  <1>1. \A g \in Handles : HandleInv(handle[g], Len(drawn'))
    BY DrawsSalt, HandleGrows DEF FileStoreInv
  <1>2. \A g \in Handles : handle'[g] = IF g = h THEN w ELSE handle[g]
    BY DEF FileStoreInv
  <1>3. handle' = [g \in Handles |-> handle'[g]]
    BY DEF FileStoreInv
  <1>4. \A g \in Handles : HandleInv(handle'[g], Len(drawn'))
    BY <1>1, <1>2
  <1> QED BY <1>3, <1>4, DrawsSalt DEF FileStoreInv

(* ... with the files and the history as they were. *)
LEMMA QuietStep ==
    ASSUME FileStoreInv, NEW h \in Handles, NEW w,
           handle' = [handle EXCEPT ![h] = w], HandleInv(w, Len(drawn)),
           UNCHANGED <<disk, temp, drawn>>, HistoryTyped'
    PROVE  FileStoreInv'
  BY StoreStep DEF Draws, FileStoreInv

-----------------------------------------------------------------------------
(* Only h has the wallet open, and what it becomes is as it should be. *)
Alone(h) == \A g \in Handles \ {h} : handle[g].pc = "closed"

DiskAgrees ==
    \/ disk.kind = "none" /\ kept = {} /\ gone = {}
    \/ Honoured(disk, drawn, kept, gone, phrases)

LEMMA AloneWhenBusy ==
    ASSUME FileStoreInv, SoleInv, NEW h \in Handles, handle[h].pc # "closed"
    PROVE  Alone(h)
  BY DEF SoleInv, Alone

LEMMA SoleStep ==
    ASSUME FileStoreInv, NEW h \in Handles, Alone(h), NEW w,
           handle' = [handle EXCEPT ![h] = w],
           SoleHandle(handle[h])', DiskAgrees'
    PROVE  SoleInv'
  <1>1. \A g \in Handles : handle'[g] = IF g = h THEN w ELSE handle[g]
    BY DEF FileStoreInv
  <1>2. \A g \in Handles \ {h} : handle'[g].pc = "closed"
    BY <1>1 DEF Alone
  <1>3. \A g \in Handles \ {h} : SoleHandle(handle[g])'
    BY <1>2 DEF SoleHandle, Loaded, Saving
  <1> QED BY <1>2, <1>3 DEF SoleInv, DiskAgrees

-----------------------------------------------------------------------------
(* The operations that let the files be: one handle moves, and the history *)
(* changes by Remember. *)
LEMMA RememberTyped ==
    ASSUME HistoryTyped, shared' \in BOOLEAN, NEW k, NEW g, NEW p,
           k \subseteq Keys, g \subseteq Keys, p \subseteq Passphrases, Remember(k, g, p)
    PROVE  HistoryTyped'
  BY DEF HistoryTyped, Remember

LEMMA ShareAlone ==
    ASSUME FileStoreInv, NEW h \in Handles, Share(h)
    PROVE  /\ HistoryTyped'
           /\ ~shared' => ~shared /\ Alone(h) /\ UNCHANGED history
  <1>1. HistoryTyped'
    BY RememberTyped DEF Share, FileStoreInv, HistoryTyped
  <1>2. ~shared' => ~shared /\ Alone(h) /\ UNCHANGED history
    BY DEF Share, Remember, history, Alone
  <1> QED BY <1>1, <1>2

LEMMA CreateInv ==
    ASSUME WalletInv, NEW h \in Handles, NEW p \in Passphrases, Create(h, p)
    PROVE  WalletInv'
  <1> DEFINE w == [Closed EXCEPT !.pc = "deriving", !.op = "create", !.phrase = {p}]
  <1>1. /\ FileStoreInv /\ handle' = [handle EXCEPT ![h] = w] /\ Share(h)
        /\ UNCHANGED <<disk, temp, drawn>> /\ disk.kind = "none"
    BY DEF Create, Update, WalletInv
  <1>2. handle'[h] = w
    BY <1>1 DEF FileStoreInv
  <1>3. HandleInv(w, Len(drawn))
    <2>1. FileInv(Empty("none"), Len(drawn)) /\ Len(drawn) \in Nat
      BY <1>1, EmptyInv DEF FileStoreInv
    <2> QED BY <2>1 DEF HandleInv, Closed, HandleRecord, FileInv, Locked, Loaded, Empty
  <1>4. FileStoreInv'
    <2> HIDE DEF w
    <2> QED BY <1>1, <1>3, ShareAlone, QuietStep
  <1>5. ASSUME ~shared' PROVE SoleInv'
    <2>1. ~shared /\ Alone(h) /\ UNCHANGED history /\ SoleInv
      BY <1>1, <1>5, ShareAlone DEF WalletInv
    <2>2. kept = {} /\ gone = {}
      BY <1>1, <2>1 DEF SoleInv, Honoured
    <2>3. SoleHandle(handle[h])'
      BY <1>2, <2>1, <2>2 DEF SoleHandle, Closed, Loaded, Saving, history
    <2>4. DiskAgrees'
      BY <1>1, <2>1, <2>2 DEF DiskAgrees, history
    <2> HIDE DEF w
    <2> QED BY <1>1, <2>1, <2>3, <2>4, SoleStep
  <1> QED BY <1>4, <1>5 DEF WalletInv

(* An operation changes the handle in memory and is yet to be saved: what  *)
(* it will report is promised, and what was reported before still holds.   *)
LEMMA OperationStep ==
    ASSUME WalletInv, NEW h \in Handles, handle[h].pc # "closed", Draws,
           NEW w, handle' = [handle EXCEPT ![h] = w], HandleInv(w, Len(drawn')),
           UNCHANGED <<disk, temp, shared>>,
           NEW k, k \subseteq kept, NEW g, g \subseteq gone,
           NEW ps, phrases \subseteq ps, ps \subseteq Passphrases, Remember(k, g, ps),
           ~shared /\ SoleInv => /\ w.pc = "saving" /\ Promised(w, drawn')
                                 /\ Honoured(w.file, drawn', k, g, ps)
    PROVE  WalletInv'
  <1>1. FileStoreInv /\ HistoryTyped
    BY DEF WalletInv, FileStoreInv
  <1>2. HistoryTyped'
    <2>1. k \subseteq Keys /\ g \subseteq Keys /\ shared' \in BOOLEAN
      BY <1>1 DEF HistoryTyped
    <2> QED BY <1>1, <2>1, RememberTyped
  <1>3. FileInv(disk', Len(drawn')) /\ FileInv(temp', Len(drawn'))
    BY <1>1, FileGrows, DrawsSalt DEF FileStoreInv
  <1>4. FileStoreInv'
    BY <1>1, <1>2, <1>3, StoreStep
  <1>5. ASSUME ~shared' PROVE SoleInv'
    <2>1. ~shared /\ SoleInv /\ Alone(h) /\ kept' = k /\ gone' = g /\ phrases' = ps
      BY <1>1, <1>5, AloneWhenBusy DEF WalletInv, Remember
    <2>2. handle'[h] = w
      BY <1>1 DEF FileStoreInv
    <2>3. SoleHandle(handle[h])'
      BY <2>1, <2>2 DEF SoleHandle, Loaded, Saving
    <2>4. DiskAgrees'
      <3>1. CASE Honoured(disk, drawn, kept, gone, phrases)
        <4>1. Honoured(disk, drawn', kept, gone, ps)
          BY <1>1, <3>1, DrawsSalt, HonouredStays DEF FileStoreInv
        <4> QED BY <2>1, <4>1 DEF DiskAgrees, Honoured, Stored
      <3>2. CASE disk.kind = "none" /\ kept = {} /\ gone = {}
        BY <2>1, <3>2 DEF DiskAgrees
      <3> QED BY <2>1, <3>1, <3>2 DEF SoleInv
    <2> QED BY <1>1, <2>1, <2>3, <2>4, SoleStep
  <1> QED BY <1>4, <1>5 DEF WalletInv

LEMMA DeriveInv ==
    ASSUME WalletInv, NEW h \in Handles, Derive(h) PROVE WalletInv'
  <1> DEFINE salt == Len(drawn) + 1
             file == [Empty("whole") EXCEPT !.salt = salt]
             ps == phrases \cup handle[h].phrase
             w == [handle[h] EXCEPT !.pc = "saving", !.cipher = salt, !.file = file]
  <1>1. /\ handle' = [handle EXCEPT ![h] = w] /\ handle[h].pc = "deriving"
        /\ UNCHANGED <<disk, temp, shared>> /\ Remember(kept, gone, ps)
        /\ HandleInv(handle[h], Len(drawn)) /\ Len(drawn) \in Nat
        /\ phrases \subseteq Passphrases
    BY DEF Derive, Update, WalletInv, FileStoreInv, HistoryTyped
  <1>2. PICK p \in handle[h].phrase : drawn' = Append(drawn, p) /\ p \in Passphrases
    BY <1>1 DEF Derive, HandleInv, HandleRecord
  <1>3. Draws /\ Len(drawn') = salt /\ drawn'[salt] = p
    BY <1>1, <1>2 DEF Derive, Draws, WalletInv, FileStoreInv
  <1>4. HandleInv(w, salt)
    <2>1. FileInv(file, salt)
      BY <1>1 DEF FileInv, Empty, WalletFile, Stored
    <2>2. file.salt = salt /\ file.kind = "whole" /\ salt \in Nat
      BY <1>1 DEF Empty
    <2> HIDE DEF file
    <2> QED BY <1>1, <2>1, <2>2 DEF HandleInv, HandleRecord, Loaded, FileInv, Closed
  <1>5. ASSUME ~shared, SoleInv
        PROVE  /\ w.pc = "saving" /\ Promised(w, drawn')
               /\ Honoured(w.file, drawn', kept, gone, ps)
    <2>1. handle[h].op = "create" /\ kept = {} /\ gone = {}
      BY <1>1, <1>5 DEF SoleInv, SoleHandle
    <2>2. /\ w.pc = "saving" /\ w.op = "create" /\ w.phrase = handle[h].phrase
          /\ w.file.salt = salt /\ w.file.kind = "whole" /\ Stored(w.file) = {}
      BY <1>1, <2>1 DEF HandleInv, HandleRecord, Empty, Stored
    <2> HIDE DEF w
    <2> QED BY <1>2, <1>3, <2>1, <2>2 DEF Honoured, Promised
  <1>6. ps \subseteq Passphrases
    BY <1>1 DEF HandleInv, HandleRecord
  <1> HIDE DEF w, salt, ps
  <1>7. HandleInv(w, Len(drawn')) /\ phrases \subseteq ps /\ handle[h].pc # "closed"
    BY <1>1, <1>3, <1>4 DEF ps
  <1> QED BY <1>1, <1>3, <1>5, <1>6, <1>7, OperationStep

LEMMA OpenInv ==
    ASSUME WalletInv, NEW h \in Handles, Open(h) PROVE WalletInv'
  <1> DEFINE w == [Closed EXCEPT !.pc = "ready", !.file = disk]
  <1>1. /\ FileStoreInv /\ handle' = [handle EXCEPT ![h] = w] /\ Share(h)
        /\ UNCHANGED <<disk, temp, drawn>> /\ disk.kind = "whole"
    BY DEF Open, Update, WalletInv
  <1>2. handle'[h] = w
    BY <1>1 DEF FileStoreInv
  <1>3. HandleInv(w, Len(drawn))
    BY <1>1 DEF FileStoreInv, HandleInv, Closed, HandleRecord, FileInv, Locked, Loaded
  <1>4. FileStoreInv'
    <2> HIDE DEF w
    <2> QED BY <1>1, <1>3, ShareAlone, QuietStep
  <1>5. ASSUME ~shared' PROVE SoleInv'
    <2>1. ~shared /\ Alone(h) /\ UNCHANGED history /\ SoleInv
      BY <1>1, <1>5, ShareAlone DEF WalletInv
    <2>2. Honoured(disk, drawn, kept, gone, phrases)
      BY <1>1, <2>1 DEF SoleInv
    <2>3. SoleHandle(handle[h])'
      <3>1. w.pc = "ready" /\ w.file = disk
        BY DEF Closed
      <3> HIDE DEF w
      <3> QED BY <1>1, <1>2, <2>1, <2>2, <3>1 DEF SoleHandle, Loaded, Saving, history
    <2>4. DiskAgrees'
      BY <1>1, <2>1, <2>2 DEF DiskAgrees, history
    <2> HIDE DEF w
    <2> QED BY <1>1, <2>1, <2>3, <2>4, SoleStep
  <1> QED BY <1>4, <1>5 DEF WalletInv

(* A handle moves and nothing else does. *)
LEMMA HandleMoves ==
    ASSUME WalletInv, NEW h \in Handles, handle[h].pc # "closed",
           NEW w, handle' = [handle EXCEPT ![h] = w], HandleInv(w, Len(drawn)),
           UNCHANGED <<disk, temp, drawn, history, shared>>,
           ~shared /\ SoleInv => SoleHandle(w)
    PROVE  WalletInv'
  <1>1. FileStoreInv /\ HistoryTyped'
    BY DEF WalletInv, FileStoreInv, HistoryTyped, history
  <1>2. FileStoreInv'
    BY <1>1, QuietStep
  <1>3. ASSUME ~shared' PROVE SoleInv'
    <2>1. ~shared /\ SoleInv /\ Alone(h) /\ handle'[h] = w
      BY <1>1, <1>3, AloneWhenBusy DEF WalletInv, FileStoreInv
    <2>2. SoleHandle(handle[h])'
      BY <2>1 DEF SoleHandle, history
    <2>3. DiskAgrees'
      BY <2>1 DEF SoleInv, DiskAgrees, history
    <2> QED BY <1>1, <2>1, <2>2, <2>3, SoleStep
  <1> QED BY <1>2, <1>3 DEF WalletInv

LEMMA LockUnlockInv ==
    ASSUME WalletInv, NEW h \in Handles, Lock(h) \/ \E p \in Passphrases : Unlock(h, p)
    PROVE  WalletInv'
  <1>1. PICK c \in {Locked, handle[h].file.salt} :
          handle' = [handle EXCEPT ![h] = [handle[h] EXCEPT !.cipher = c]]
    BY DEF Lock, Unlock, Update
  <1> DEFINE w == [handle[h] EXCEPT !.cipher = c]
  <1>2. /\ handle[h].pc = "ready" /\ HandleInv(handle[h], Len(drawn))
        /\ UNCHANGED <<disk, temp, drawn, history, shared>>
    BY DEF Lock, Unlock, WalletInv, FileStoreInv
  <1>3. /\ w.pc = "ready" /\ w.file = handle[h].file /\ w.cipher = c
        /\ w \in HandleRecord /\ w.fd = handle[h].fd /\ w.behind = handle[h].behind
    <2>1. handle[h] \in HandleRecord /\ c \in Nat
      <3>1. HandleInv(handle[h], Len(drawn))
        BY <1>2
      <3>2. handle[h] \in HandleRecord /\ handle[h].file \in WalletFile
        BY <3>1 DEF HandleInv, FileInv
      <3> QED BY <1>1, <3>2 DEF WalletFile, Locked
    <2> QED BY <1>2, <2>1 DEF HandleRecord, Loaded
  <1>4. handle' = [handle EXCEPT ![h] = w]
    BY <1>1
  <1> HIDE DEF w
  <1>5. HandleInv(w, Len(drawn))
    BY <1>2, <1>3 DEF HandleInv, Loaded
  <1>6. ~shared /\ SoleInv => SoleHandle(w)
    BY <1>2, <1>3 DEF SoleInv, SoleHandle, Loaded, Saving
  <1> QED BY <1>2, <1>4, <1>5, <1>6, HandleMoves

(* The end of a save that failed, or of the process. *)
LEMMA GivesUpInv ==
    ASSUME WalletInv, NEW h \in Handles, SaveFails(h) \/ Crash(h) PROVE WalletInv'
  <1>1. /\ handle[h].pc # "closed" /\ HandleInv(handle[h], Len(drawn)) /\ Len(drawn) \in Nat
        /\ UNCHANGED <<disk, temp, drawn, history, shared>>
    <2>1. HandleInv(handle[h], Len(drawn)) /\ Len(drawn) \in Nat
      BY DEF WalletInv, FileStoreInv
    <2>2. CASE Crash(h)
      BY <2>1, <2>2 DEF Crash
    <2>3. CASE SaveFails(h)
      BY <2>1, <2>3 DEF SaveFails
    <2> QED BY <2>2, <2>3
  <1>2. CASE handle' = [handle EXCEPT ![h] = Closed]
    <2>1. SoleHandle(Closed)
      BY DEF SoleHandle, Closed, Loaded, Saving
    <2> QED BY <1>1, <1>2, <2>1, ClosedInv, HandleMoves
  <1>3. CASE /\ handle' = [handle EXCEPT ![h] = Idle(handle[h], TRUE)]
             /\ handle[h].pc \in Saving
    <2> DEFINE w == Idle(handle[h], TRUE)
    <2>1. /\ w.pc = "ready" /\ w.file = handle[h].file /\ w.cipher = handle[h].cipher
          /\ w \in HandleRecord /\ w.fd = "" /\ w.behind
      BY <1>1 DEF HandleInv, HandleRecord, Loaded, Idle
    <2>2. handle' = [handle EXCEPT ![h] = w]
      BY <1>3
    <2> HIDE DEF w
    <2>3. HandleInv(w, Len(drawn))
      BY <1>1, <1>3, <2>1 DEF HandleInv, Loaded, Saving
    <2>4. ~shared /\ SoleInv => SoleHandle(w)
      BY <1>3, <2>1 DEF SoleInv, SoleHandle, Loaded, Saving
    <2> QED BY <1>1, <2>2, <2>3, <2>4, HandleMoves
  <1> QED BY <1>2, <1>3 DEF SaveFails, Crash, Update, Saving

-----------------------------------------------------------------------------
(* An entry is sealed by the file's own salt, or removed. *)
Sealed(f, k, s) == [f EXCEPT !.sealed[k] = s]

LEMMA SealOne ==
    ASSUME NEW n \in Nat, NEW f, FileInv(f, n), NEW k \in Keys, NEW s \in {0, f.salt}
    PROVE  LET g == Sealed(f, k, s)
           IN  /\ FileInv(g, n) /\ g.kind = f.kind /\ g.salt = f.salt
               /\ s = 0 => Stored(g) = Stored(f) \ {k}
               /\ s # 0 => Stored(g) = Stored(f) \cup {k}
  <1> DEFINE g == Sealed(f, k, s)
  <1>1. f \in WalletFile /\ s \in Nat
    BY DEF FileInv, WalletFile
  <1>2. /\ g \in WalletFile /\ g.kind = f.kind /\ g.salt = f.salt
        /\ g.sealed = [f.sealed EXCEPT ![k] = s]
    BY <1>1 DEF WalletFile, Sealed
  <1>3. \A j \in Keys : g.sealed[j] = IF j = k THEN s ELSE f.sealed[j]
    BY <1>1, <1>2 DEF WalletFile
  <1> HIDE DEF g
  <1>4. /\ s = 0 => Stored(g) = Stored(f) \ {k}
        /\ s # 0 => Stored(g) = Stored(f) \cup {k}
    BY <1>3 DEF Stored
  <1>5. FileInv(g, n)
    BY <1>2, <1>3 DEF FileInv, Stored
  <1> QED BY <1>2, <1>4, <1>5 DEF g

(* The handle of an add_key or remove_key. *)
Keyed(w, op, k, f) == [w EXCEPT !.pc = "saving", !.op = op, !.key = {k}, !.file = f]

LEMMA KeyedInv ==
    ASSUME NEW n \in Nat, NEW w, HandleInv(w, n), w.pc = "ready", NEW op \in {"add", "remove"},
           NEW k \in Keys, NEW f, FileInv(f, n), f.salt = w.file.salt, f.kind = w.file.kind
    PROVE  LET v == Keyed(w, op, k, f)
           IN  /\ HandleInv(v, n) /\ v.pc = "saving" /\ v.op = op
               /\ v.key = {k} /\ v.file = f
  <1> DEFINE v == Keyed(w, op, k, f)
  <1>1. w \in HandleRecord /\ f \in WalletFile
    BY DEF HandleInv, FileInv
  <1>2. /\ v \in HandleRecord /\ v.pc = "saving" /\ v.op = op /\ v.key = {k} /\ v.file = f
        /\ v.cipher = w.cipher /\ v.fd = w.fd
    BY <1>1 DEF HandleRecord, Keyed, Loaded
  <1> HIDE DEF v
  <1>3. HandleInv(v, n)
    BY <1>2 DEF HandleInv, Loaded
  <1> QED BY <1>2, <1>3 DEF v

(* An unlocked wallet holds the key of its file, and a locked one adds     *)
(* nothing. *)
LEMMA AddKeyInv ==
    ASSUME WalletInv, NEW h \in Handles, NEW k \in Keys, AddKey(h, k) PROVE WalletInv'
  <1> DEFINE f == Sealed(handle[h].file, k, handle[h].cipher)
             w == Keyed(handle[h], "add", k, f)
  <1>1. /\ HandleInv(handle[h], Len(drawn)) /\ Len(drawn) \in Nat
        /\ kept \subseteq Keys /\ phrases \subseteq Passphrases
    BY DEF WalletInv, FileStoreInv, HistoryTyped
  <1>2. /\ handle[h].pc = "ready" /\ handle[h].cipher # Locked
        /\ UNCHANGED <<disk, temp, drawn, shared>> /\ Remember(kept, gone \ {k}, phrases)
    BY DEF AddKey
  <1>3. handle' = [handle EXCEPT ![h] = w]
    BY DEF AddKey, Update, Keyed, Sealed
  <1>4. /\ FileInv(f, Len(drawn)) /\ f.kind = handle[h].file.kind
        /\ f.salt = handle[h].file.salt /\ Stored(f) = Stored(handle[h].file) \cup {k}
    <2>1. /\ FileInv(handle[h].file, Len(drawn))
          /\ handle[h].cipher \in {0, handle[h].file.salt} /\ handle[h].cipher # 0
      BY <1>1, <1>2 DEF HandleInv, Locked
    <2> QED BY <1>1, <2>1, SealOne
  <1> HIDE DEF f
  <1>5. HandleInv(w, Len(drawn)) /\ w.pc = "saving" /\ w.op = "add" /\ w.key = {k} /\ w.file = f
    BY <1>1, <1>2, <1>4, KeyedInv
  <1> HIDE DEF w
  <1>6. ASSUME ~shared, SoleInv
        PROVE  /\ w.pc = "saving" /\ Promised(w, drawn')
               /\ Honoured(w.file, drawn', kept, gone \ {k}, phrases)
    <2>1. Honoured(handle[h].file, drawn, kept, gone, phrases)
      BY <1>2, <1>6 DEF SoleInv, SoleHandle, Loaded
    <2> QED BY <1>2, <1>4, <1>5, <2>1 DEF Honoured, Promised
  <1>7. /\ Draws /\ handle[h].pc # "closed" /\ HandleInv(w, Len(drawn'))
        /\ kept \ {k} \subseteq kept /\ gone \ {k} \subseteq gone
    BY <1>2, <1>5 DEF Draws
  <1> QED BY <1>1, <1>2, <1>3, <1>6, <1>7, OperationStep

LEMMA RemoveKeyInv ==
    ASSUME WalletInv, NEW h \in Handles, NEW k \in Keys, RemoveKey(h, k) PROVE WalletInv'
  <1> DEFINE f == Sealed(handle[h].file, k, 0)
             w == Keyed(handle[h], "remove", k, f)
  <1>1. /\ HandleInv(handle[h], Len(drawn)) /\ Len(drawn) \in Nat
        /\ kept \subseteq Keys /\ phrases \subseteq Passphrases
    BY DEF WalletInv, FileStoreInv, HistoryTyped
  <1>2. /\ handle[h].pc = "ready"
        /\ UNCHANGED <<disk, temp, drawn, shared>> /\ Remember(kept \ {k}, gone, phrases)
    BY DEF RemoveKey
  <1>3. handle' = [handle EXCEPT ![h] = w]
    BY DEF RemoveKey, Update, Keyed, Sealed
  <1>4. /\ FileInv(f, Len(drawn)) /\ f.kind = handle[h].file.kind
        /\ f.salt = handle[h].file.salt /\ Stored(f) = Stored(handle[h].file) \ {k}
    <2>1. FileInv(handle[h].file, Len(drawn)) /\ 0 \in {0, handle[h].file.salt}
      BY <1>1 DEF HandleInv
    <2> QED BY <1>1, <2>1, SealOne
  <1> HIDE DEF f
  <1>5. HandleInv(w, Len(drawn)) /\ w.pc = "saving" /\ w.op = "remove" /\ w.key = {k} /\ w.file = f
    BY <1>1, <1>2, <1>4, KeyedInv
  <1> HIDE DEF w
  <1>6. ASSUME ~shared, SoleInv
        PROVE  /\ w.pc = "saving" /\ Promised(w, drawn')
               /\ Honoured(w.file, drawn', kept \ {k}, gone, phrases)
    <2>1. Honoured(handle[h].file, drawn, kept, gone, phrases)
      BY <1>2, <1>6 DEF SoleInv, SoleHandle, Loaded
    <2> QED BY <1>2, <1>4, <1>5, <2>1 DEF Honoured, Promised
  <1>7. /\ Draws /\ handle[h].pc # "closed" /\ HandleInv(w, Len(drawn'))
        /\ kept \ {k} \subseteq kept /\ gone \ {k} \subseteq gone
    BY <1>2, <1>5 DEF Draws
  <1> QED BY <1>1, <1>2, <1>3, <1>6, <1>7, OperationStep

(* A remove_key that finds nothing speaks of the file on disk if memory is *)
(* a copy of it. *)
LEMMA RemoveAbsentInv ==
    ASSUME WalletInv, NEW h \in Handles, NEW k \in Keys, RemoveAbsent(h, k) PROVE WalletInv'
  <1> DEFINE g == IF handle[h].behind THEN gone ELSE gone \cup {k}
  <1>1. /\ FileStoreInv /\ HistoryTyped /\ HandleInv(handle[h], Len(drawn))
        /\ handle[h].pc = "ready" /\ k \notin Stored(handle[h].file)
        /\ UNCHANGED <<disk, temp, drawn, handle, shared>> /\ Remember(kept, g, phrases)
    BY DEF RemoveAbsent, WalletInv, FileStoreInv
  <1>2. FileStoreInv'
    <2>1. kept \subseteq Keys /\ g \subseteq Keys /\ phrases \subseteq Passphrases
          /\ shared' \in BOOLEAN
      BY <1>1 DEF HistoryTyped
    <2> HIDE DEF g
    <2>2. HistoryTyped'
      BY <1>1, <2>1, RememberTyped
    <2> QED BY <1>1, <2>2 DEF FileStoreInv
  <1>3. ASSUME ~shared' PROVE SoleInv'
    <2>1. ~shared /\ SoleInv /\ kept' = kept /\ gone' = g /\ phrases' = phrases
      BY <1>1, <1>3 DEF WalletInv, Remember
    <2>2. /\ Honoured(handle[h].file, drawn, kept, gone, phrases)
          /\ ~handle[h].behind => disk = handle[h].file
      BY <1>1, <2>1 DEF SoleInv, SoleHandle, Loaded
    <2>3. Honoured(handle[h].file, drawn, kept, g, phrases)
      BY <1>1, <2>2 DEF Honoured
    <2>4. \/ disk.kind = "none" /\ kept = {} /\ g = {}
          \/ Honoured(disk, drawn, kept, g, phrases)
      <3>1. CASE handle[h].behind
        BY <2>1, <3>1 DEF SoleInv
      <3>2. CASE ~handle[h].behind
        BY <2>2, <2>3, <3>2
      <3> QED BY <3>1, <3>2
    <2> HIDE DEF g
    <2>5. \A j \in Handles \ {h} : handle[j].pc = "closed"
      BY <1>1, <2>1 DEF SoleInv
    <2>6. \A j \in Handles \ {h} : SoleHandle(handle[j])'
      BY <1>1, <2>5 DEF SoleHandle, Loaded, Saving
    <2>7. SoleHandle(handle[h])'
      BY <1>1, <2>1, <2>2, <2>3 DEF SoleHandle, Loaded, Saving
    <2>8. \A i, j \in Handles : handle'[i].pc # "closed" /\ handle'[j].pc # "closed" => i = j
      BY <1>1, <2>1 DEF SoleInv
    <2> QED BY <1>1, <2>1, <2>4, <2>6, <2>7, <2>8 DEF SoleInv
  <1> QED BY <1>2, <1>3 DEF WalletInv

-----------------------------------------------------------------------------
(* A file sealed anew under a salt. *)
Resealed(f, s) ==
    [f EXCEPT !.salt = s, !.sealed = [k \in Keys |-> IF k \in Stored(f) THEN s ELSE 0]]

LEMMA ResealedInv ==
    ASSUME NEW n \in Nat, NEW f, FileInv(f, n), f.kind = "whole"
    PROVE  LET g == Resealed(f, n + 1)
           IN  /\ FileInv(g, n + 1) /\ g.kind = "whole" /\ g.salt = n + 1
               /\ Stored(g) = Stored(f)
  <1> DEFINE g == Resealed(f, n + 1)
  <1>1. f \in WalletFile
    BY DEF FileInv
  <1> DEFINE t == [k \in Keys |-> IF k \in Stored(f) THEN n + 1 ELSE 0]
  <1>2. /\ g \in WalletFile /\ g.kind = "whole" /\ g.salt = n + 1 /\ g.sealed = t
    <2>1. g = [f EXCEPT !.salt = n + 1, !.sealed = t]
      BY DEF Resealed
    <2>2. t \in [Keys -> Nat] /\ n + 1 \in Nat
      OBVIOUS
    <2> HIDE DEF t, g
    <2>3. f \in [kind : {"none", "torn", "whole"}, salt : Nat, sealed : [Keys -> Nat]]
      BY <1>1 DEF WalletFile
    <2>4. g \in WalletFile
      BY <2>1, <2>2, <2>3 DEF WalletFile
    <2>5. g.kind = f.kind /\ g.salt = n + 1 /\ g.sealed = t
      BY <2>1, <2>3
    <2> QED BY <2>4, <2>5
  <1> HIDE DEF g
  <1>3. Stored(g) = Stored(f)
    BY <1>2 DEF Stored
  <1>4. FileInv(g, n + 1)
    BY <1>2, <1>3 DEF FileInv, Stored
  <1> QED BY <1>2, <1>3, <1>4 DEF g

(* The handle of a change_passphrase. *)
Rekeyed(w, p, f) ==
    [w EXCEPT !.pc = "saving", !.op = "rekey", !.phrase = {p}, !.cipher = f.salt, !.file = f]

LEMMA RekeyedInv ==
    ASSUME NEW n \in Nat, NEW w, HandleInv(w, n), w.pc = "ready", NEW p \in Passphrases,
           NEW f, FileInv(f, n + 1), f.kind = "whole"
    PROVE  LET v == Rekeyed(w, p, f)
           IN  /\ HandleInv(v, n + 1) /\ v.pc = "saving" /\ v.op = "rekey"
               /\ v.phrase = {p} /\ v.file = f
  <1> DEFINE v == Rekeyed(w, p, f)
  <1>1. w \in HandleRecord /\ f \in WalletFile /\ f.salt \in Nat
    BY DEF HandleInv, FileInv, WalletFile
  <1>2. /\ v \in HandleRecord /\ v.pc = "saving" /\ v.op = "rekey" /\ v.phrase = {p}
        /\ v.file = f /\ v.cipher = f.salt /\ v.fd = w.fd
    BY <1>1 DEF HandleRecord, Rekeyed, Loaded
  <1> HIDE DEF v
  <1>3. HandleInv(v, n + 1)
    BY <1>2 DEF HandleInv, Loaded
  <1> QED BY <1>2, <1>3 DEF v

LEMMA ChangePassphraseInv ==
    ASSUME WalletInv, NEW h \in Handles, NEW p \in Passphrases, ChangePassphrase(h, p)
    PROVE  WalletInv'
  <1> DEFINE salt == Len(drawn) + 1
             f == Resealed(handle[h].file, salt)
             w == Rekeyed(handle[h], p, f)
             ps == phrases \cup {p}
  <1>1. /\ HandleInv(handle[h], Len(drawn)) /\ Len(drawn) \in Nat
        /\ phrases \subseteq Passphrases /\ drawn \in Seq(Passphrases)
    BY DEF WalletInv, FileStoreInv, HistoryTyped
  <1>2. /\ handle[h].pc = "ready" /\ drawn' = Append(drawn, p) /\ Len(drawn) < MaxSalts
        /\ UNCHANGED <<disk, temp, shared>> /\ Remember(kept, gone, ps)
    BY DEF ChangePassphrase
  <1>3. handle[h].file.kind = "whole" /\ FileInv(handle[h].file, Len(drawn))
    BY <1>1, <1>2 DEF HandleInv, Loaded
  <1>4. /\ FileInv(f, salt) /\ f.kind = "whole" /\ f.salt = salt
        /\ Stored(f) = Stored(handle[h].file)
    BY <1>1, <1>3, ResealedInv
  <1>5. handle' = [handle EXCEPT ![h] = w]
    <2>1. f.salt = salt
      BY <1>4
    <2>2. w = [handle[h] EXCEPT !.pc = "saving", !.op = "rekey", !.phrase = {p},
                                !.cipher = salt, !.file = f]
      <3> HIDE DEF f, salt
      <3> QED BY <2>1 DEF Rekeyed
    <2> HIDE DEF w
    <2> QED BY <2>2 DEF ChangePassphrase, Update, Resealed
  <1> HIDE DEF f
  <1>6. HandleInv(w, salt) /\ w.pc = "saving" /\ w.op = "rekey" /\ w.phrase = {p} /\ w.file = f
    BY <1>1, <1>2, <1>4, RekeyedInv
  <1> HIDE DEF w
  <1>7. Len(drawn') = salt /\ drawn'[salt] = p
    BY <1>1, <1>2
  <1>8. ASSUME ~shared, SoleInv
        PROVE  /\ w.pc = "saving" /\ Promised(w, drawn')
               /\ Honoured(w.file, drawn', kept, gone, ps)
    <2>1. Honoured(handle[h].file, drawn, kept, gone, phrases)
      BY <1>2, <1>8 DEF SoleInv, SoleHandle, Loaded
    <2> QED BY <1>4, <1>6, <1>7, <2>1 DEF Honoured, Promised
  <1>9. /\ Draws /\ handle[h].pc # "closed" /\ HandleInv(w, Len(drawn'))
        /\ phrases \subseteq ps /\ ps \subseteq Passphrases
    BY <1>1, <1>2, <1>6, <1>7 DEF Draws
  <1> HIDE DEF ps
  <1> QED BY <1>2, <1>5, <1>8, <1>9, OperationStep

-----------------------------------------------------------------------------
(* The steps of a save. *)
LEMMA SaveStep ==
    ASSUME WalletInv, NEW h \in Handles, handle[h].pc \in Saving,
           NEW place \in Saving, NEW fd \in {"", "temp"}, (fd # "") = (place = "writing"),
           handle' = [handle EXCEPT ![h] = [handle[h] EXCEPT !.pc = place, !.fd = fd]],
           FileInv(disk', Len(drawn)), FileInv(temp', Len(drawn)),
           UNCHANGED <<drawn, history, shared>>,
           ~shared /\ SoleInv => /\ disk' = disk
                                 /\ place = "writing" => temp'.kind = "torn"
                                 /\ place = "written" => temp' = handle[h].file
    PROVE  WalletInv'
  <1> DEFINE w == [handle[h] EXCEPT !.pc = place, !.fd = fd]
  <1>1. HandleInv(handle[h], Len(drawn)) /\ FileStoreInv /\ HistoryTyped /\ handle[h].pc # "closed"
    BY DEF WalletInv, FileStoreInv, Saving
  <1>2. /\ w.pc = place /\ w.fd = fd /\ w.file = handle[h].file /\ w.cipher = handle[h].cipher
        /\ w.op = handle[h].op /\ w.key = handle[h].key /\ w.phrase = handle[h].phrase
        /\ w \in HandleRecord
    BY <1>1 DEF HandleInv, HandleRecord, Saving, Loaded
  <1>3. handle' = [handle EXCEPT ![h] = w]
    OBVIOUS
  <1> HIDE DEF w
  <1>4. HandleInv(w, Len(drawn'))
    BY <1>1, <1>2 DEF HandleInv, Loaded, Saving
  <1>5. FileStoreInv'
    BY <1>1, <1>3, <1>4, StoreStep DEF Draws, HistoryTyped, history
  <1>6. ASSUME ~shared' PROVE SoleInv'
    <2>1. ~shared /\ SoleInv /\ Alone(h) /\ handle'[h] = w
      BY <1>1, <1>3, <1>6, AloneWhenBusy DEF WalletInv, FileStoreInv
    <2>2. Honoured(w.file, drawn, kept, gone, phrases) /\ Promised(w, drawn)
      BY <1>2, <2>1 DEF SoleInv, SoleHandle, Loaded, Saving, Promised
    <2>3. /\ kept' = kept /\ gone' = gone /\ phrases' = phrases /\ drawn' = drawn
          /\ disk' = disk
          /\ place = "writing" => temp'.kind = "torn"
          /\ place = "written" => temp' = handle[h].file
      BY <2>1 DEF history
    <2>4. Honoured(w.file, drawn', kept', gone', phrases') /\ Promised(w, drawn')
      BY <2>2, <2>3
    <2>5. SoleHandle(handle[h])'
      BY <1>2, <2>1, <2>3, <2>4 DEF SoleHandle, Loaded, Saving
    <2>6. DiskAgrees'
      BY <2>1, <2>3 DEF SoleInv, DiskAgrees
    <2> QED BY <1>1, <1>3, <2>1, <2>5, <2>6, SoleStep
  <1> QED BY <1>5, <1>6 DEF WalletInv

LEMMA TruncateInv ==
    ASSUME WalletInv, NEW h \in Handles, Truncate(h) PROVE WalletInv'
  <1>1. /\ handle[h].pc \in Saving /\ temp' = Empty("torn")
        /\ handle' = [handle EXCEPT ![h] = [handle[h] EXCEPT !.pc = "writing", !.fd = "temp"]]
        /\ UNCHANGED <<disk, drawn, history, shared>>
    BY DEF Truncate, Update, Saving
  <1>2. FileInv(disk', Len(drawn)) /\ FileInv(temp', Len(drawn)) /\ temp'.kind = "torn"
    <2>1. Len(drawn) \in Nat /\ FileInv(disk, Len(drawn))
      BY DEF WalletInv, FileStoreInv
    <2>2. FileInv(Empty("torn"), Len(drawn)) /\ Empty("torn").kind = "torn"
      BY <2>1, EmptyInv DEF Empty
    <2> QED BY <1>1, <2>1, <2>2
  <1> QED BY <1>1, <1>2, SaveStep DEF Saving

(* A part written over a whole file is another process's doing. *)
LEMMA FillPartInv ==
    ASSUME WalletInv, NEW h \in Handles, FillPart(h) PROVE WalletInv'
  <1>1. /\ FileStoreInv /\ HistoryTyped /\ Len(drawn) \in Nat
        /\ handle[h].pc = "writing" /\ UNCHANGED <<drawn, handle, history, shared>>
        /\ temp' \in {temp, Empty("torn")} /\ disk' \in {disk, Empty("torn")}
    BY DEF FillPart, WalletInv, FileStoreInv
  <1>2. FileInv(disk', Len(drawn)) /\ FileInv(temp', Len(drawn))
    <2>1. FileInv(Empty("torn"), Len(drawn))
      BY <1>1, EmptyInv
    <2> QED BY <1>1, <2>1 DEF FileStoreInv
  <1>3. FileStoreInv'
    BY <1>1, <1>2 DEF FileStoreInv, HistoryTyped, history
  <1>4. shared
    <2> SUFFICES ASSUME ~shared PROVE FALSE
      BY <1>1 DEF HistoryTyped
    <2>1. handle[h].fd = "temp" /\ temp.kind = "torn"
      BY <1>1 DEF WalletInv, SoleInv, SoleHandle
    <2> QED BY <2>1 DEF FillPart
  <1> QED BY <1>1, <1>3, <1>4 DEF WalletInv

LEMMA FillInv ==
    ASSUME WalletInv, NEW h \in Handles, Fill(h) PROVE WalletInv'
  <1>1. /\ handle[h].pc = "writing"
        /\ handle' = [handle EXCEPT ![h] = [handle[h] EXCEPT !.pc = "written", !.fd = ""]]
        /\ UNCHANGED <<drawn, history, shared>>
        /\ temp' \in {handle[h].file, Empty("torn"), temp}
        /\ disk' \in {handle[h].file, Empty("torn"), disk}
    BY DEF Fill, Update, filled
  <1>2. FileInv(disk', Len(drawn)) /\ FileInv(temp', Len(drawn))
    <2>1. /\ FileInv(disk, Len(drawn)) /\ FileInv(temp, Len(drawn))
          /\ FileInv(handle[h].file, Len(drawn)) /\ FileInv(Empty("torn"), Len(drawn))
      <3>1. Len(drawn) \in Nat /\ HandleInv(handle[h], Len(drawn))
        BY DEF WalletInv, FileStoreInv
      <3>2. FileInv(Empty("torn"), Len(drawn))
        BY <3>1, EmptyInv
      <3> QED BY <3>1, <3>2 DEF WalletInv, FileStoreInv, HandleInv
    <2> QED BY <1>1, <2>1
  <1>3. ~shared /\ SoleInv => disk' = disk /\ temp' = handle[h].file
    BY <1>1 DEF SoleInv, SoleHandle, Fill, filled
  <1> QED BY <1>1, <1>2, <1>3, SaveStep DEF Saving

(* The rename moves every descriptor of the temporary file, and no handle  *)
(* but its own in any other way. *)
Moved(w) == [w EXCEPT !.fd = renamed(@)]

LEMMA MovedInv ==
    ASSUME NEW n \in Nat, NEW w, HandleInv(w, n)
    PROVE  HandleInv(Moved(w), n) /\ Moved(w).pc = w.pc
  <1> DEFINE v == Moved(w)
  <1>1. w \in HandleRecord
    BY DEF HandleInv
  <1>2. /\ v \in HandleRecord /\ v.fd = renamed(w.fd) /\ v.pc = w.pc /\ v.file = w.file
        /\ v.cipher = w.cipher /\ v.op = w.op /\ v.key = w.key /\ v.phrase = w.phrase
    BY <1>1 DEF HandleRecord, Moved, renamed
  <1>3. w.pc = "closed" => v = w
    BY <1>1 DEF HandleInv, Closed, Moved, renamed
  <1> HIDE DEF v
  <1>4. (v.fd # "") = (w.fd # "")
    BY <1>2 DEF renamed
  <1> QED BY <1>2, <1>3, <1>4 DEF HandleInv, v

LEMMA IdleInv ==
    ASSUME NEW n \in Nat, NEW w, HandleInv(w, n), w.pc = "written"
    PROVE  LET v == Idle(w, FALSE)
           IN  HandleInv(v, n) /\ v.pc = "ready" /\ v.file = w.file
  <1> DEFINE v == Idle(w, FALSE)
  <1>1. w \in HandleRecord /\ w.fd = ""
    BY DEF HandleInv
  <1>2. /\ v \in HandleRecord /\ v.fd = "" /\ v.pc = "ready" /\ v.file = w.file
        /\ v.cipher = w.cipher
    BY <1>1 DEF HandleRecord, Idle, Loaded
  <1> HIDE DEF v
  <1>3. HandleInv(v, n)
    BY <1>2 DEF HandleInv, Loaded
  <1> QED BY <1>2, <1>3 DEF v

LEMMA RenameInv ==
    ASSUME WalletInv, NEW h \in Handles, Rename(h) PROVE WalletInv'
  <1> DEFINE w == handle[h]
             k == IF w.op = "add" THEN kept \cup w.key ELSE kept
             g == IF w.op = "remove" THEN gone \cup w.key ELSE gone
             ps == IF w.op \in {"create", "rekey"} THEN w.phrase ELSE phrases
  <1>1. /\ FileStoreInv /\ HistoryTyped /\ HandleInv(w, Len(drawn)) /\ Len(drawn) \in Nat
    BY DEF WalletInv, FileStoreInv
  <1>2. /\ w.pc = "written" /\ disk' = temp /\ temp' = Empty("none")
        /\ drawn' = drawn /\ shared' = shared /\ Remember(k, g, ps)
        /\ handle' = [j \in Handles |-> IF j = h THEN Idle(handle[h], FALSE) ELSE Moved(handle[j])]
    BY DEF Rename, Moved
  <1>3. HistoryTyped'
    <2>1. k \subseteq Keys /\ g \subseteq Keys /\ ps \subseteq Passphrases /\ shared' \in BOOLEAN
      BY <1>1, <1>2 DEF HandleInv, HandleRecord, HistoryTyped
    <2> HIDE DEF k, g, ps
    <2> QED BY <1>1, <1>2, <2>1, RememberTyped
  <1>4. FileStoreInv'
    <2>1. HandleInv(Idle(handle[h], FALSE), Len(drawn))
      BY <1>1, <1>2, IdleInv
    <2>2. \A j \in Handles : HandleInv(Moved(handle[j]), Len(drawn))
      BY <1>1, MovedInv DEF FileStoreInv
    <2>3. \A j \in Handles : HandleInv(handle'[j], Len(drawn))
      BY <1>2, <2>1, <2>2
    <2>4. FileInv(temp, Len(drawn)) /\ FileInv(Empty("none"), Len(drawn))
      BY <1>1, EmptyInv DEF FileStoreInv
    <2>5. handle' = [j \in Handles |-> handle'[j]]
      BY <1>2
    <2> QED BY <1>1, <1>2, <1>3, <2>3, <2>4, <2>5 DEF FileStoreInv
  <1>5. ASSUME ~shared' PROVE SoleInv'
    <2>1. /\ ~shared /\ SoleInv /\ Alone(h) /\ kept' = k /\ gone' = g /\ phrases' = ps
      BY <1>1, <1>2, <1>5, AloneWhenBusy DEF WalletInv, Remember
    <2>2. temp = w.file /\ Honoured(w.file, drawn, kept, gone, phrases) /\ Promised(w, drawn)
      BY <1>2, <2>1 DEF SoleInv, SoleHandle, Loaded, Saving
    <2>3. Honoured(w.file, drawn, k, g, ps)
      BY <2>2 DEF Honoured, Promised
    <2>4. \A j \in Handles \ {h} : handle'[j].pc = "closed"
      <3>1. \A j \in Handles : Moved(handle[j]).pc = handle[j].pc
        BY <1>1, MovedInv DEF FileStoreInv
      <3> QED BY <1>2, <2>1, <3>1 DEF Alone
    <2>5. handle'[h].pc = "ready" /\ handle'[h].file = w.file
      BY <1>1, <1>2, IdleInv
    <2> HIDE DEF w, k, g, ps
    <2>6. \A j \in Handles : SoleHandle(handle[j])'
      <3>1. disk' = handle'[h].file
        BY <1>2, <2>2, <2>5
      <3> QED BY <1>2, <2>1, <2>3, <2>4, <2>5, <3>1 DEF SoleHandle, Loaded, Saving
    <2>7. DiskAgrees'
      BY <1>2, <2>1, <2>2, <2>3 DEF DiskAgrees
    <2> QED BY <2>4, <2>6, <2>7 DEF SoleInv, DiskAgrees
  <1> QED BY <1>4, <1>5 DEF WalletInv

-----------------------------------------------------------------------------
LEMMA WalletInvStep ==
    ASSUME WalletInv, [WalletNext]_wallet_vars PROVE WalletInv'
  <1>1. ASSUME NEW h \in Handles, NEW p \in Passphrases,
               Create(h, p) \/ Unlock(h, p) \/ ChangePassphrase(h, p)
        PROVE  WalletInv'
    BY <1>1, CreateInv, LockUnlockInv, ChangePassphraseInv
  <1>2. ASSUME NEW h \in Handles, Derive(h) \/ Open(h) \/ Lock(h) PROVE WalletInv'
    BY <1>2, DeriveInv, OpenInv, LockUnlockInv
  <1>3. ASSUME NEW h \in Handles, NEW k \in Keys,
               AddKey(h, k) \/ RemoveKey(h, k) \/ RemoveAbsent(h, k)
        PROVE  WalletInv'
    BY <1>3, AddKeyInv, RemoveKeyInv, RemoveAbsentInv
  <1>4. ASSUME NEW h \in Handles,
               Truncate(h) \/ FillPart(h) \/ Fill(h) \/ Rename(h) \/ SaveFails(h) \/ Crash(h)
        PROVE  WalletInv'
    BY <1>4, TruncateInv, FillPartInv, FillInv, RenameInv, GivesUpInv
  <1>5. CASE UNCHANGED wallet_vars
    BY <1>5 DEF wallet_vars, WalletInv, FileStoreInv, HistoryTyped, SoleInv, SoleHandle, history
  <1> QED BY <1>1, <1>2, <1>3, <1>4, <1>5 DEF WalletNext

LEMMA WalletInvInit == WalletInit => WalletInv
  <1> SUFFICES ASSUME WalletInit PROVE WalletInv
    OBVIOUS
  <1>1. Len(drawn) \in Nat /\ Len(drawn) <= MaxSalts /\ drawn \in Seq(Passphrases)
    BY WalletAssumption DEF WalletInit, WalletAssumption
  <1>2. FileStoreInv
    BY <1>1, EmptyInv, ClosedInv DEF WalletInit, FileStoreInv, HistoryTyped
  <1>3. SoleInv
    BY DEF WalletInit, SoleInv, SoleHandle, Closed, Empty, Loaded, Saving
  <1> QED BY <1>2, <1>3 DEF WalletInv

(* The inductive invariant holds of every wallet, however many processes   *)
(* have its file. *)
THEOREM WalletInvariant == WalletSpec => []WalletInv
  <1> QED BY WalletInvInit, WalletInvStep, PTL DEF WalletSpec

(* Every field keeps its type and nothing of a handle outlives it.         *)
THEOREM WalletTypeCorrect == WalletSpec => []WalletTypeOK
  <1>1. WalletInv => WalletTypeOK
    BY DEF WalletInv, FileStoreInv, FileInv, HandleInv, HandleRecord, HistoryTyped,
           WalletTypeOK, Loaded
  <1> QED BY <1>1, WalletInvariant, PTL

(* One passphrase opens all of a wallet, in every file and every handle:   *)
(* wallet.rs seals entries with the cipher of the header it is saved with. *)
THEOREM OnePassphrase == WalletSpec => []OnePassphraseOpensAll
  <1>1. WalletInv => OnePassphraseOpensAll
    BY DEF WalletInv, FileStoreInv, FileInv, HandleInv, OnePassphraseOpensAll, SealedAlike
  <1> QED BY <1>1, WalletInvariant, PTL

(* With one process at a time, save never leaves a wallet cut short, nor   *)
(* under a passphrase its owner does not know. *)
THEOREM SavesNeverTruncate == WalletSpec => []NeverTruncated
  <1>1. WalletInv => NeverTruncated
    BY DEF WalletInv, SoleInv, Honoured, NeverTruncated
  <1> QED BY <1>1, WalletInvariant, PTL

(* With one process at a time, what add_key and remove_key reported is so  *)
(* on disk, whatever failed or crashed since: Ok of either, and Ok(false)  *)
(* of a remove_key whose wallet's last save did not fail. *)
THEOREM ReportsAreDurable == WalletSpec => []AcknowledgedIsDurable
  <1>1. WalletInv => AcknowledgedIsDurable
    BY DEF WalletInv, SoleInv, Honoured, AcknowledgedIsDurable
  <1> QED BY <1>1, WalletInvariant, PTL

=============================================================================
