---------------------------- MODULE TxStateStore ----------------------------
(***************************************************************************)
(* The transaction state store (tx_state_store/src): one row per           *)
(* transaction, whose status the statements below change.  A transaction   *)
(* without a row is absent.  Each statement is atomic in the database.     *)
(***************************************************************************)

(* INSERT ... IF NOT EXISTS                                                *)
start_transaction(status) == IF status = "absent" THEN "started" ELSE status

(* UPDATE without a condition: whatever the row says, or without a row.    *)
commit_transaction(status) == "committed"

(* The same for every transaction of a group commit, in one batch.         *)
batch_commit_transactions(status, transaction_ids) ==
    [tx \in DOMAIN status |-> IF tx \in transaction_ids THEN commit_transaction(status[tx])
                              ELSE status[tx]]

(* UPDATE ... IF status IN ('started', 'aborted')                          *)
abort_transaction(status) ==
    IF status \in {"started", "aborted"} THEN "aborted" ELSE status

(* What the caller of abort_transaction is told; a missing row is presumed *)
(* aborted.                                                                *)
abortOutcome(status) ==
    IF status = "committed" THEN "TransactionIsCommitted" ELSE "TransactionIsAborted"
=============================================================================
