-------------------------- MODULE GatewayInterface --------------------------
(* The entry points contract.rs exports, which is all a simulation of a call *)
(* or a query of the SDK can find.                                          *)

EntryPoints ==
    {"set_admin", "set_minter", "set_yield_recipient_manager",
     "set_forced_transfer_manager", "add_block_operator",
     "remove_block_operator", "add_unblock_operator",
     "remove_unblock_operator", "add_pauser", "remove_pauser", "block_user",
     "unblock_user", "batch_block_users", "batch_unblock_users",
     "transfer_sac_admin", "upgrade", "mint", "burn", "reconcile_burn",
     "set_interest_rate", "force_transfer", "set_yield_recipient",
     "claim_yield", "blocked", "balance", "sac_token", "interest_rate",
     "current_index", "latest_index", "accrued_yield", "total_principal",
     "total_supply", "admin", "minter", "yield_recipient_manager",
     "yield_recipient", "forced_transfer_manager", "is_block_operator",
     "is_unblock_operator", "is_pauser", "paused", "pause", "unpause"}
=============================================================================
