----------------------------- MODULE OperationTable -----------------------------
(***************************************************************************)
(* The tables of hivecomb/src/operations: the ids of hived's operation     *)
(* variant (ids.rs), the fields each operation struct declares, the order  *)
(* and the encoding the writer gives them, the order and the encoding the  *)
(* reader expects (mod.rs, three lists kept by hand), and the payloads of  *)
(* the operations only the chain emits (virtual_ops.rs).  A field is the   *)
(* pair of its name and its kind; what a kind's bytes are is WireFormat's. *)
(***************************************************************************)
EXTENDS Naturals, Sequences

(* One constructor per kind of field. *)
str(f) == <<f, "str">>
i16(f) == <<f, "i16">>
amount(f) == <<f, "amount">>
u32(f) == <<f, "u32">>
bool(f) == <<f, "bool">>
time(f) == <<f, "time">>
price(f) == <<f, "price">>
strs(f) == <<f, "strs">>
u16(f) == <<f, "u16">>
hex(f) == <<f, "hex">>
coext(f) == <<f, "coext">>
noext(f) == <<f, "noext">>
auth(f) == <<f, "auth">>
key(f) == <<f, "key">>
optauth(f) == <<f, "optauth">>
optkey(f) == <<f, "optkey">>
u64s(f) == <<f, "u64s">>
u64(f) == <<f, "u64">>
rtext(f) == <<f, "rtext">>
props(f) == <<f, "props">>
blockid(f) == <<f, "blockid">>
auths(f) == <<f, "auths">>
wprops(f) == <<f, "wprops">>
accounts(f) == <<f, "accounts">>
sortedprops(f) == <<f, "sortedprops">>
ids(f) == <<f, "ids">>
i64(f) == <<f, "i64">>
amounts(f) == <<f, "amounts">>
u8(f) == <<f, "u8">>

(* A table in parts, no operation in two of them. *)
Together(parts) ==
  [op \in UNION {DOMAIN p : p \in parts} |-> (CHOOSE p \in parts : op \in DOMAIN p)[op]]

(* The variants of OperationId in the order of their discriminants, from 0.*)
OperationId ==
  << "vote", "comment", "transfer", "transfer_to_vesting", "withdraw_vesting", "limit_order_create",
     "limit_order_cancel", "feed_publish", "convert", "account_create", "account_update",
     "witness_update", "account_witness_vote", "account_witness_proxy", "pow", "custom",
     "witness_block_approve", "delete_comment", "custom_json", "comment_options",
     "set_withdraw_vesting_route", "limit_order_create2", "claim_account", "create_claimed_account",
     "request_account_recovery", "recover_account", "change_recovery_account", "escrow_transfer",
     "escrow_dispute", "escrow_release", "pow2", "escrow_approve", "transfer_to_savings",
     "transfer_from_savings", "cancel_transfer_from_savings", "custom_binary",
     "decline_voting_rights", "reset_account", "set_reset_account", "claim_reward_balance",
     "delegate_vesting_shares", "account_create_with_delegation", "witness_set_properties",
     "account_update2", "create_proposal", "update_proposal_votes", "remove_proposal",
     "update_proposal", "collateralized_convert", "recurrent_transfer", "fill_convert_request",
     "author_reward", "curation_reward", "comment_reward", "liquidity_reward", "interest",
     "fill_vesting_withdraw", "fill_order", "shutdown_witness", "fill_transfer_from_savings",
     "hardfork", "comment_payout_update", "return_vesting_delegation", "comment_benefactor_reward",
     "producer_reward", "clear_null_account_balance", "proposal_pay", "dhf_funding",
     "hardfork_hive", "hardfork_hive_restore", "delayed_voting", "consolidate_treasury_balance",
     "effective_comment_vote", "ineffective_delete_comment", "dhf_conversion",
     "expired_account_notification", "changed_recovery_account", "transfer_to_vesting_completed",
     "pow_reward", "vesting_shares_split", "account_created", "fill_collateralized_convert_request",
     "system_warning", "fill_recurrent_transfer", "failed_recurrent_transfer",
     "limit_order_cancelled", "producer_missed", "proposal_fee",
     "collateralized_convert_immediate_conversion", "escrow_approved", "escrow_rejected",
     "proxy_cleared", "declined_voting_rights" >>

(* The name table, whose index is meant to be the id. *)
NAMES ==
  << "vote", "comment", "transfer", "transfer_to_vesting", "withdraw_vesting", "limit_order_create",
     "limit_order_cancel", "feed_publish", "convert", "account_create", "account_update",
     "witness_update", "account_witness_vote", "account_witness_proxy", "pow", "custom",
     "witness_block_approve", "delete_comment", "custom_json", "comment_options",
     "set_withdraw_vesting_route", "limit_order_create2", "claim_account", "create_claimed_account",
     "request_account_recovery", "recover_account", "change_recovery_account", "escrow_transfer",
     "escrow_dispute", "escrow_release", "pow2", "escrow_approve", "transfer_to_savings",
     "transfer_from_savings", "cancel_transfer_from_savings", "custom_binary",
     "decline_voting_rights", "reset_account", "set_reset_account", "claim_reward_balance",
     "delegate_vesting_shares", "account_create_with_delegation", "witness_set_properties",
     "account_update2", "create_proposal", "update_proposal_votes", "remove_proposal",
     "update_proposal", "collateralized_convert", "recurrent_transfer", "fill_convert_request",
     "author_reward", "curation_reward", "comment_reward", "liquidity_reward", "interest",
     "fill_vesting_withdraw", "fill_order", "shutdown_witness", "fill_transfer_from_savings",
     "hardfork", "comment_payout_update", "return_vesting_delegation", "comment_benefactor_reward",
     "producer_reward", "clear_null_account_balance", "proposal_pay", "dhf_funding",
     "hardfork_hive", "hardfork_hive_restore", "delayed_voting", "consolidate_treasury_balance",
     "effective_comment_vote", "ineffective_delete_comment", "dhf_conversion",
     "expired_account_notification", "changed_recovery_account", "transfer_to_vesting_completed",
     "pow_reward", "vesting_shares_split", "account_created", "fill_collateralized_convert_request",
     "system_warning", "fill_recurrent_transfer", "failed_recurrent_transfer",
     "limit_order_cancelled", "producer_missed", "proposal_fee",
     "collateralized_convert_immediate_conversion", "escrow_approved", "escrow_rejected",
     "proxy_cleared", "declined_voting_rights" >>

FIRST_VIRTUAL_OP_off_by_one == 51
FIRST_VIRTUAL_OP == 50
LAST_OP == 92

as_u32(op) == CHOOSE n \in 0..LAST_OP : OperationId[n + 1] = op
is_virtual(op) == as_u32(op) >= FIRST_VIRTUAL_OP
name(op) == NAMES[as_u32(op) + 1]

(* The operations an id and a name resolve to: a set, empty when unknown. *)
from_u32(n) == {NAMES[i] : i \in {n + 1} \cap DOMAIN NAMES}
from_name(n) == IF n = "recurring_transfer" THEN {"recurrent_transfer"}
                ELSE {NAMES[i] : i \in {j \in DOMAIN NAMES : NAMES[j] = n}}

(* The structs, in the order of their declarations: what JSON is read into. *)
DeclaredBasic ==
  [ vote |-> <<str("voter"), str("author"), str("permlink"), i16("weight")>>,
    comment |-> <<str("parent_author"), str("parent_permlink"), str("author"), str("permlink"),
        str("title"), str("body"), str("json_metadata")>>,
    transfer |-> <<str("from"), str("to"), amount("amount"), str("memo")>>,
    transfer_to_vesting |-> <<str("from"), str("to"), amount("amount")>>,
    withdraw_vesting |-> <<str("account"), amount("vesting_shares")>>,
    limit_order_create |-> <<str("owner"), u32("orderid"), amount("amount_to_sell"),
        amount("min_to_receive"), bool("fill_or_kill"), time("expiration")>>,
    limit_order_cancel |-> <<str("owner"), u32("orderid")>>,
    feed_publish |-> <<str("publisher"), price("exchange_rate")>>,
    convert |-> <<str("owner"), u32("requestid"), amount("amount")>>,
    account_witness_vote |-> <<str("account"), str("witness"), bool("approve")>>,
    account_witness_proxy |-> <<str("account"), str("proxy")>>,
    custom |-> <<strs("required_auths"), u16("id"), hex("data")>>,
    delete_comment |-> <<str("author"), str("permlink")>>,
    custom_json |-> <<strs("required_auths"), strs("required_posting_auths"), str("id"),
        str("json")>> ]

DeclaredEconomy ==
  [ comment_options |-> <<str("author"), str("permlink"), amount("max_accepted_payout"),
        u16("percent_hbd"), bool("allow_votes"), bool("allow_curation_rewards"),
        coext("extensions")>>,
    set_withdraw_vesting_route |-> <<str("from_account"), str("to_account"), u16("percent"),
        bool("auto_vest")>>,
    limit_order_create2 |-> <<str("owner"), u32("orderid"), amount("amount_to_sell"),
        price("exchange_rate"), bool("fill_or_kill"), time("expiration")>>,
    claim_account |-> <<str("creator"), amount("fee"), noext("extensions")>>,
    create_claimed_account |-> <<str("creator"), str("new_account_name"), auth("owner"),
        auth("active"), auth("posting"), key("memo_key"), str("json_metadata"),
        noext("extensions")>>,
    change_recovery_account |-> <<str("account_to_recover"), str("new_recovery_account"),
        noext("extensions")>>,
    transfer_to_savings |-> <<str("from"), str("to"), amount("amount"), str("memo")>>,
    transfer_from_savings |-> <<str("from"), u32("request_id"), str("to"), amount("amount"),
        str("memo")>>,
    cancel_transfer_from_savings |-> <<str("from"), u32("request_id")>>,
    decline_voting_rights |-> <<str("account"), bool("decline")>>,
    claim_reward_balance |-> <<str("account"), amount("reward_hive"), amount("reward_hbd"),
        amount("reward_vests")>>,
    delegate_vesting_shares |-> <<str("delegator"), str("delegatee"), amount("vesting_shares")>>,
    account_update2 |-> <<str("account"), optauth("owner"), optauth("active"), optauth("posting"),
        optkey("memo_key"), str("json_metadata"), str("posting_json_metadata"),
        noext("extensions")>> ]

DeclaredProposals ==
  [ create_proposal |-> <<str("creator"), str("receiver"), time("start_date"), time("end_date"),
        amount("daily_pay"), str("subject"), str("permlink"), noext("extensions")>>,
    update_proposal_votes |-> <<str("voter"), u64s("proposal_ids"), bool("approve"),
        noext("extensions")>>,
    remove_proposal |-> <<str("proposal_owner"), u64s("proposal_ids"), noext("extensions")>>,
    update_proposal |-> <<u64("proposal_id"), str("creator"), amount("daily_pay"), str("subject"),
        str("permlink"), noext("extensions")>>,
    collateralized_convert |-> <<str("owner"), u32("requestid"), amount("amount")>>,
    recurrent_transfer |-> <<str("from"), str("to"), amount("amount"), str("memo"),
        u16("recurrence"), u16("executions"), rtext("extensions")>> ]

DeclaredAccounts ==
  [ account_create |-> <<amount("fee"), str("creator"), str("new_account_name"), auth("owner"),
        auth("active"), auth("posting"), key("memo_key"), str("json_metadata")>>,
    account_update |-> <<str("account"), optauth("owner"), optauth("active"), optauth("posting"),
        key("memo_key"), str("json_metadata")>>,
    witness_update |-> <<str("owner"), str("url"), key("block_signing_key"), props("props"),
        amount("fee")>>,
    witness_block_approve |-> <<str("witness"), blockid("block_id")>>,
    request_account_recovery |-> <<str("recovery_account"), str("account_to_recover"),
        auth("new_owner_authority"), noext("extensions")>>,
    recover_account |-> <<str("account_to_recover"), auth("new_owner_authority"),
        auth("recent_owner_authority"), noext("extensions")>>,
    escrow_transfer |-> <<str("from"), str("to"), amount("hbd_amount"), amount("hive_amount"),
        u32("escrow_id"), str("agent"), amount("fee"), str("json_meta"),
        time("ratification_deadline"), time("escrow_expiration")>>,
    escrow_dispute |-> <<str("from"), str("to"), str("agent"), str("who"), u32("escrow_id")>>,
    escrow_release |-> <<str("from"), str("to"), str("agent"), str("who"), str("receiver"),
        u32("escrow_id"), amount("hbd_amount"), amount("hive_amount")>>,
    escrow_approve |-> <<str("from"), str("to"), str("agent"), str("who"), u32("escrow_id"),
        bool("approve")>> ]

DeclaredRetired ==
  [ custom_binary |-> <<strs("required_owner_auths"), strs("required_active_auths"),
        strs("required_posting_auths"), auths("required_auths"), str("id"), hex("data")>>,
    reset_account |-> <<str("reset_account"), str("account_to_reset"),
        auth("new_owner_authority")>>,
    set_reset_account |-> <<str("account"), str("current_reset_account"), str("reset_account")>>,
    account_create_with_delegation |-> <<amount("fee"), amount("delegation"), str("creator"),
        str("new_account_name"), auth("owner"), auth("active"), auth("posting"), key("memo_key"),
        str("json_metadata"), noext("extensions")>>,
    witness_set_properties |-> <<str("owner"), wprops("props"), noext("extensions")>> ]

Declared == Together({DeclaredBasic, DeclaredEconomy, DeclaredProposals, DeclaredAccounts,
                      DeclaredRetired})

(* append_body: the order the fields are written in, and how. *)
WrittenAccounts ==
  [ vote |-> <<str("voter"), str("author"), str("permlink"), i16("weight")>>,
    comment |-> <<str("parent_author"), str("parent_permlink"), str("author"), str("permlink"),
        str("title"), str("body"), str("json_metadata")>>,
    account_create |-> <<amount("fee"), str("creator"), str("new_account_name"), auth("owner"),
        auth("active"), auth("posting"), key("memo_key"), str("json_metadata")>>,
    account_update |-> <<str("account"), optauth("owner"), optauth("active"), optauth("posting"),
        key("memo_key"), str("json_metadata")>>,
    witness_update |-> <<str("owner"), str("url"), key("block_signing_key"), props("props"),
        amount("fee")>>,
    witness_block_approve |-> <<str("witness"), blockid("block_id")>>,
    request_account_recovery |-> <<str("recovery_account"), str("account_to_recover"),
        auth("new_owner_authority"), noext("extensions")>>,
    recover_account |-> <<str("account_to_recover"), auth("new_owner_authority"),
        auth("recent_owner_authority"), noext("extensions")>>,
    escrow_transfer |-> <<str("from"), str("to"), amount("hbd_amount"), amount("hive_amount"),
        u32("escrow_id"), str("agent"), amount("fee"), str("json_meta"),
        time("ratification_deadline"), time("escrow_expiration")>>,
    escrow_dispute |-> <<str("from"), str("to"), str("agent"), str("who"), u32("escrow_id")>>,
    escrow_release |-> <<str("from"), str("to"), str("agent"), str("who"), str("receiver"),
        u32("escrow_id"), amount("hbd_amount"), amount("hive_amount")>>,
    escrow_approve |-> <<str("from"), str("to"), str("agent"), str("who"), u32("escrow_id"),
        bool("approve")>>,
    custom_binary |-> <<accounts("required_owner_auths"), accounts("required_active_auths"),
        accounts("required_posting_auths"), auths("required_auths"), str("id"), hex("data")>>,
    reset_account |-> <<str("reset_account"), str("account_to_reset"),
        auth("new_owner_authority")>>,
    set_reset_account |-> <<str("account"), str("current_reset_account"), str("reset_account")>> ]

WrittenTransfers ==
  [ account_create_with_delegation |-> <<amount("fee"), amount("delegation"), str("creator"),
        str("new_account_name"), auth("owner"), auth("active"), auth("posting"), key("memo_key"),
        str("json_metadata"), noext("extensions")>>,
    witness_set_properties |-> <<str("owner"), sortedprops("props"), noext("extensions")>>,
    transfer |-> <<str("from"), str("to"), amount("amount"), str("memo")>>,
    transfer_to_vesting |-> <<str("from"), str("to"), amount("amount")>>,
    withdraw_vesting |-> <<str("account"), amount("vesting_shares")>>,
    limit_order_create |-> <<str("owner"), u32("orderid"), amount("amount_to_sell"),
        amount("min_to_receive"), bool("fill_or_kill"), time("expiration")>>,
    limit_order_cancel |-> <<str("owner"), u32("orderid")>>,
    feed_publish |-> <<str("publisher"), price("exchange_rate")>>,
    convert |-> <<str("owner"), u32("requestid"), amount("amount")>>,
    account_witness_vote |-> <<str("account"), str("witness"), bool("approve")>>,
    account_witness_proxy |-> <<str("account"), str("proxy")>>,
    custom |-> <<accounts("required_auths"), u16("id"), hex("data")>>,
    delete_comment |-> <<str("author"), str("permlink")>>,
    custom_json |-> <<accounts("required_auths"), accounts("required_posting_auths"), str("id"),
        str("json")>>,
    comment_options |-> <<str("author"), str("permlink"), amount("max_accepted_payout"),
        u16("percent_hbd"), bool("allow_votes"), bool("allow_curation_rewards"),
        coext("extensions")>> ]

WrittenEconomy ==
  [ set_withdraw_vesting_route |-> <<str("from_account"), str("to_account"), u16("percent"),
        bool("auto_vest")>>,
    limit_order_create2 |-> <<str("owner"), u32("orderid"), amount("amount_to_sell"),
        price("exchange_rate"), bool("fill_or_kill"), time("expiration")>>,
    claim_account |-> <<str("creator"), amount("fee"), noext("extensions")>>,
    create_claimed_account |-> <<str("creator"), str("new_account_name"), auth("owner"),
        auth("active"), auth("posting"), key("memo_key"), str("json_metadata"),
        noext("extensions")>>,
    change_recovery_account |-> <<str("account_to_recover"), str("new_recovery_account"),
        noext("extensions")>>,
    transfer_to_savings |-> <<str("from"), str("to"), amount("amount"), str("memo")>>,
    transfer_from_savings |-> <<str("from"), u32("request_id"), str("to"), amount("amount"),
        str("memo")>>,
    cancel_transfer_from_savings |-> <<str("from"), u32("request_id")>>,
    decline_voting_rights |-> <<str("account"), bool("decline")>>,
    claim_reward_balance |-> <<str("account"), amount("reward_hive"), amount("reward_hbd"),
        amount("reward_vests")>>,
    delegate_vesting_shares |-> <<str("delegator"), str("delegatee"), amount("vesting_shares")>>,
    account_update2 |-> <<str("account"), optauth("owner"), optauth("active"), optauth("posting"),
        optkey("memo_key"), str("json_metadata"), str("posting_json_metadata"),
        noext("extensions")>>,
    create_proposal |-> <<str("creator"), str("receiver"), time("start_date"), time("end_date"),
        amount("daily_pay"), str("subject"), str("permlink"), noext("extensions")>>,
    update_proposal_votes |-> <<str("voter"), ids("proposal_ids"), bool("approve"),
        noext("extensions")>>,
    remove_proposal |-> <<str("proposal_owner"), ids("proposal_ids"), noext("extensions")>>,
    update_proposal |-> <<u64("proposal_id"), str("creator"), amount("daily_pay"), str("subject"),
        str("permlink"), noext("extensions")>>,
    collateralized_convert |-> <<str("owner"), u32("requestid"), amount("amount")>>,
    recurrent_transfer |-> <<str("from"), str("to"), amount("amount"), str("memo"),
        u16("recurrence"), u16("executions"), rtext("extensions")>> ]

Written == Together({WrittenAccounts, WrittenTransfers, WrittenEconomy})

(* Operation::read_from: the order the fields are read in, and how. *)
ReadAccounts ==
  [ vote |-> <<str("voter"), str("author"), str("permlink"), i16("weight")>>,
    comment |-> <<str("parent_author"), str("parent_permlink"), str("author"), str("permlink"),
        str("title"), str("body"), str("json_metadata")>>,
    account_create |-> <<amount("fee"), str("creator"), str("new_account_name"), auth("owner"),
        auth("active"), auth("posting"), key("memo_key"), str("json_metadata")>>,
    account_update |-> <<str("account"), optauth("owner"), optauth("active"), optauth("posting"),
        key("memo_key"), str("json_metadata")>>,
    witness_update |-> <<str("owner"), str("url"), key("block_signing_key"), props("props"),
        amount("fee")>>,
    witness_block_approve |-> <<str("witness"), blockid("block_id")>>,
    request_account_recovery |-> <<str("recovery_account"), str("account_to_recover"),
        auth("new_owner_authority"), noext("extensions")>>,
    recover_account |-> <<str("account_to_recover"), auth("new_owner_authority"),
        auth("recent_owner_authority"), noext("extensions")>>,
    escrow_transfer |-> <<str("from"), str("to"), amount("hbd_amount"), amount("hive_amount"),
        u32("escrow_id"), str("agent"), amount("fee"), str("json_meta"),
        time("ratification_deadline"), time("escrow_expiration")>>,
    escrow_dispute |-> <<str("from"), str("to"), str("agent"), str("who"), u32("escrow_id")>>,
    escrow_release |-> <<str("from"), str("to"), str("agent"), str("who"), str("receiver"),
        u32("escrow_id"), amount("hbd_amount"), amount("hive_amount")>>,
    escrow_approve |-> <<str("from"), str("to"), str("agent"), str("who"), u32("escrow_id"),
        bool("approve")>>,
    custom_binary |-> <<strs("required_owner_auths"), strs("required_active_auths"),
        strs("required_posting_auths"), auths("required_auths"), str("id"), hex("data")>>,
    reset_account |-> <<str("reset_account"), str("account_to_reset"),
        auth("new_owner_authority")>>,
    set_reset_account |-> <<str("account"), str("current_reset_account"), str("reset_account")>>,
    account_create_with_delegation |-> <<amount("fee"), amount("delegation"), str("creator"),
        str("new_account_name"), auth("owner"), auth("active"), auth("posting"), key("memo_key"),
        str("json_metadata"), noext("extensions")>>,
    witness_set_properties |-> <<str("owner"), wprops("props"), noext("extensions")>>,
    transfer |-> <<str("from"), str("to"), amount("amount"), str("memo")>>,
    transfer_to_vesting |-> <<str("from"), str("to"), amount("amount")>> ]

ReadTransfers ==
  [ withdraw_vesting |-> <<str("account"), amount("vesting_shares")>>,
    limit_order_create |-> <<str("owner"), u32("orderid"), amount("amount_to_sell"),
        amount("min_to_receive"), bool("fill_or_kill"), time("expiration")>>,
    limit_order_cancel |-> <<str("owner"), u32("orderid")>>,
    feed_publish |-> <<str("publisher"), price("exchange_rate")>>,
    convert |-> <<str("owner"), u32("requestid"), amount("amount")>>,
    account_witness_vote |-> <<str("account"), str("witness"), bool("approve")>>,
    account_witness_proxy |-> <<str("account"), str("proxy")>>,
    custom |-> <<strs("required_auths"), u16("id"), hex("data")>>,
    delete_comment |-> <<str("author"), str("permlink")>>,
    custom_json |-> <<strs("required_auths"), strs("required_posting_auths"), str("id"),
        str("json")>>,
    comment_options |-> <<str("author"), str("permlink"), amount("max_accepted_payout"),
        u16("percent_hbd"), bool("allow_votes"), bool("allow_curation_rewards"),
        coext("extensions")>>,
    set_withdraw_vesting_route |-> <<str("from_account"), str("to_account"), u16("percent"),
        bool("auto_vest")>>,
    limit_order_create2 |-> <<str("owner"), u32("orderid"), amount("amount_to_sell"),
        price("exchange_rate"), bool("fill_or_kill"), time("expiration")>>,
    claim_account |-> <<str("creator"), amount("fee"), noext("extensions")>>,
    create_claimed_account |-> <<str("creator"), str("new_account_name"), auth("owner"),
        auth("active"), auth("posting"), key("memo_key"), str("json_metadata"),
        noext("extensions")>>,
    change_recovery_account |-> <<str("account_to_recover"), str("new_recovery_account"),
        noext("extensions")>>,
    transfer_to_savings |-> <<str("from"), str("to"), amount("amount"), str("memo")>>,
    transfer_from_savings |-> <<str("from"), u32("request_id"), str("to"), amount("amount"),
        str("memo")>>,
    cancel_transfer_from_savings |-> <<str("from"), u32("request_id")>>,
    decline_voting_rights |-> <<str("account"), bool("decline")>>,
    claim_reward_balance |-> <<str("account"), amount("reward_hive"), amount("reward_hbd"),
        amount("reward_vests")>>,
    delegate_vesting_shares |-> <<str("delegator"), str("delegatee"), amount("vesting_shares")>>,
    account_update2 |-> <<str("account"), optauth("owner"), optauth("active"), optauth("posting"),
        optkey("memo_key"), str("json_metadata"), str("posting_json_metadata"),
        noext("extensions")>> ]

ReadEconomy ==
  [ create_proposal |-> <<str("creator"), str("receiver"), time("start_date"), time("end_date"),
        amount("daily_pay"), str("subject"), str("permlink"), noext("extensions")>>,
    update_proposal_votes |-> <<str("voter"), u64s("proposal_ids"), bool("approve"),
        noext("extensions")>>,
    remove_proposal |-> <<str("proposal_owner"), u64s("proposal_ids"), noext("extensions")>>,
    update_proposal |-> <<u64("proposal_id"), str("creator"), amount("daily_pay"), str("subject"),
        str("permlink"), noext("extensions")>>,
    collateralized_convert |-> <<str("owner"), u32("requestid"), amount("amount")>>,
    recurrent_transfer |-> <<str("from"), str("to"), amount("amount"), str("memo"),
        u16("recurrence"), u16("executions"), rtext("extensions")>> ]

Read == Together({ReadAccounts, ReadTransfers, ReadEconomy})

(* The payloads of the virtual operations, which are only ever read from JSON. *)
EmittedRewards ==
  [ fill_convert_request |-> <<str("owner"), u32("requestid"), amount("amount_in"),
        amount("amount_out")>>,
    author_reward |-> <<str("author"), str("permlink"), amount("hbd_payout"), amount("hive_payout"),
        amount("vesting_payout"), amount("curators_vesting_payout"),
        bool("payout_must_be_claimed")>>,
    curation_reward |-> <<str("curator"), amount("reward"), str("author"), str("permlink"),
        bool("payout_must_be_claimed")>>,
    comment_reward |-> <<str("author"), str("permlink"), amount("payout"), i64("author_rewards"),
        amount("total_payout_value"), amount("curator_payout_value"),
        amount("beneficiary_payout_value")>>,
    liquidity_reward |-> <<str("owner"), amount("payout")>>,
    interest |-> <<str("owner"), amount("interest"), bool("is_saved_into_hbd_balance")>>,
    fill_vesting_withdraw |-> <<str("from_account"), str("to_account"), amount("withdrawn"),
        amount("deposited")>>,
    fill_order |-> <<str("current_owner"), u32("current_orderid"), amount("current_pays"),
        str("open_owner"), u32("open_orderid"), amount("open_pays")>>,
    shutdown_witness |-> <<str("owner")>>,
    fill_transfer_from_savings |-> <<str("from"), str("to"), amount("amount"), u32("request_id"),
        str("memo")>>,
    hardfork |-> <<u32("hardfork_id")>>,
    comment_payout_update |-> <<str("author"), str("permlink")>>,
    return_vesting_delegation |-> <<str("account"), amount("vesting_shares")>>,
    comment_benefactor_reward |-> <<str("benefactor"), str("author"), str("permlink"),
        amount("hbd_payout"), amount("hive_payout"), amount("vesting_payout"),
        bool("payout_must_be_claimed")>>,
    producer_reward |-> <<str("producer"), amount("vesting_shares")>> ]

EmittedTreasury ==
  [ clear_null_account_balance |-> <<amounts("total_cleared")>>,
    proposal_pay |-> <<u32("proposal_id"), str("receiver"), str("payer"), amount("payment")>>,
    dhf_funding |-> <<str("treasury"), amount("additional_funds")>>,
    hardfork_hive |-> <<str("account"), str("treasury"), strs("other_affected_accounts"),
        amount("hbd_transferred"), amount("hive_transferred"), amount("vests_converted"),
        amount("total_hive_from_vests")>>,
    hardfork_hive_restore |-> <<str("account"), str("treasury"), amount("hbd_transferred"),
        amount("hive_transferred")>>,
    delayed_voting |-> <<str("voter"), u64("votes")>>,
    consolidate_treasury_balance |-> <<amounts("total_moved")>>,
    effective_comment_vote |-> <<str("voter"), str("author"), str("permlink"), u64("weight"),
        i64("rshares"), u64("total_vote_weight"), amount("pending_payout")>>,
    ineffective_delete_comment |-> <<str("author"), str("permlink")>>,
    dhf_conversion |-> <<str("treasury"), amount("hive_amount_in"), amount("hbd_amount_out")>>,
    expired_account_notification |-> <<str("account")>>,
    changed_recovery_account |-> <<str("account"), str("old_recovery_account"),
        str("new_recovery_account")>>,
    transfer_to_vesting_completed |-> <<str("from_account"), str("to_account"),
        amount("hive_vested"), amount("vesting_shares_received")>>,
    pow_reward |-> <<str("worker"), amount("reward")>>,
    vesting_shares_split |-> <<str("owner"), amount("vesting_shares_before_split"),
        amount("vesting_shares_after_split")>>,
    account_created |-> <<str("new_account_name"), str("creator"), amount("initial_vesting_shares"),
        amount("initial_delegation")>> ]

EmittedHf25 ==
  [ fill_collateralized_convert_request |-> <<str("owner"), u32("requestid"), amount("amount_in"),
        amount("amount_out"), amount("excess_collateral")>>,
    system_warning |-> <<str("message")>>,
    fill_recurrent_transfer |-> <<str("from"), str("to"), amount("amount"), str("memo"),
        u16("remaining_executions"), rtext("extensions")>>,
    failed_recurrent_transfer |-> <<str("from"), str("to"), amount("amount"), str("memo"),
        u8("consecutive_failures"), u16("remaining_executions"), bool("deleted"),
        rtext("extensions")>>,
    limit_order_cancelled |-> <<str("seller"), u32("orderid"), amount("amount_back")>>,
    producer_missed |-> <<str("producer")>>,
    proposal_fee |-> <<str("creator"), str("treasury"), u32("proposal_id"), amount("fee")>>,
    collateralized_convert_immediate_conversion |-> <<str("owner"), u32("requestid"),
        amount("hbd_out")>>,
    escrow_approved |-> <<str("from"), str("to"), str("agent"), u32("escrow_id"), amount("fee")>>,
    escrow_rejected |-> <<str("from"), str("to"), str("agent"), u32("escrow_id"),
        amount("hbd_amount"), amount("hive_amount"), amount("fee")>>,
    proxy_cleared |-> <<str("account"), str("proxy")>>,
    declined_voting_rights |-> <<str("account")>> ]

Emitted == Together({EmittedRewards, EmittedTreasury, EmittedHf25})
=================================================================================
