------------------------------ MODULE Accounts ------------------------------
(***************************************************************************)
(* The bank accounts of Econ (src/systems/lib/econ/accounts.rb and         *)
(* schema/Account.rb), and the purchase from a vendor, which pays into one *)
(* (src/systems/lib/items/vendors.rb).  Names and the log are left out.    *)
(***************************************************************************)
EXTENDS Wallets

CONSTANTS
  AccountIds,  \* the accounts there can ever be
  MaxAccounts  \* 40, the accounts one may have

ASSUME AccountsAssumption == IsFiniteSet(AccountIds) /\ MaxAccounts \in Nat

VARIABLE account  \* the accounts that were opened

AccountsInit == account = [a \in {} |-> 0]

Account == [owner : People, accessors : SUBSET People,
            balance : Int, open : BOOLEAN]

(* a.save of the balance.                                                  *)
Book(a, balance) == account' = [account EXCEPT ![a].balance = balance]

MayManage(p, a) ==
  /\ p = account[a].owner \/ p \in Wizards
  /\ account[a].open

(* account_deposit() saves the account, and logs it.                       *)
AccountDeposit(p, a, n) ==
  /\ n > 0
  /\ account[a].open
  /\ CanPay(p, n)
  /\ Book(a, account[a].balance + n)
  /\ Begin([at |-> "deposited", who |-> p, n |-> n, cash |-> wallet[p]])
  /\ UNCHANGED walletVars

DepositSave ==
  /\ At("deposited")
  /\ Save(Top.who, Top.cash, Top.cash - Top.n)
  /\ End
  /\ UNCHANGED <<account, overdrawn>>

(* Mutant: the balance is not compared with the amount.                    *)
AccountWithdrawAny(p, a, n) ==
  /\ n > 0
  /\ account[a].open
  /\ p \in account[a].accessors \/ p \in Wizards
  /\ Book(a, account[a].balance - n)
  /\ Begin([at |-> "withdrawn", who |-> p, n |-> n, cash |-> wallet[p]])
  /\ UNCHANGED walletVars

AccountWithdraw(p, a, n) ==
  /\ n > 0
  /\ account[a].open
  /\ p \in account[a].accessors \/ p \in Wizards
  /\ account[a].balance >= n
  /\ Book(a, account[a].balance - n)
  /\ Begin([at |-> "withdrawn", who |-> p, n |-> n, cash |-> wallet[p]])
  /\ UNCHANGED walletVars

WithdrawSave ==
  /\ At("withdrawn")
  /\ Save(Top.who, Top.cash, Top.cash + Top.n)
  /\ End
  /\ UNCHANGED <<account, overdrawn>>

(* account_access() with + and with -.                                     *)
AddAccess(p, a, v) ==
  /\ MayManage(p, a)
  /\ v \notin account[a].accessors
  /\ account' = [account EXCEPT ![a].accessors = @ \cup {v}]
  /\ AtOnce
  /\ UNCHANGED walletVars

RemAccess(p, a, v) ==
  /\ MayManage(p, a)
  /\ v \in account[a].accessors \ {account[a].owner}
  /\ account' = [account EXCEPT ![a].accessors = @ \ {v}]
  /\ AtOnce
  /\ UNCHANGED walletVars

(* account_owner() tells the new owner, and saves then: the owner if it is *)
(* another than was read, and the list of those with access if the new     *)
(* owner was not on it when read.                                          *)
AccountOwner(p, a, v) ==
  /\ MayManage(p, a)
  /\ Begin([at |-> "transferring", acct |-> a, to |-> v,
            had |-> account[a].owner, knows |-> account[a].accessors])
  /\ UNCHANGED <<account, walletVars>>

ChangeOwner ==
  /\ At("transferring")
  /\ account' = [account EXCEPT
       ![Top.acct].owner = IF Top.to = Top.had THEN @ ELSE Top.to,
       ![Top.acct].accessors = IF Top.to \in Top.knows THEN @
                               ELSE Top.knows \cup {Top.to}]
  /\ End
  /\ UNCHANGED walletVars

(* account_open(): one more than the limit, closed accounts included.      *)
AccountOpen(p, a) ==
  /\ a \notin DOMAIN account
  /\ \/ Cardinality({ b \in DOMAIN account : account[b].owner = p }) <= MaxAccounts
     \/ p \in Wizards
  /\ account' = [b \in DOMAIN account \cup {a} |->
       IF b = a THEN [owner |-> p, accessors |-> {p}, balance |-> 0, open |-> TRUE]
       ELSE account[b]]
  /\ AtOnce
  /\ UNCHANGED walletVars

AccountClose(p, a) ==
  /\ MayManage(p, a)
  /\ account' = [account EXCEPT ![a].open = FALSE]
  /\ AtOnce
  /\ UNCHANGED walletVars

(* vendor_purchase() reads both balances, hands out the item, and then     *)
(* saves both.  The account of a vendor may be closed.                     *)
VendorPurchase(p, a, n) ==
  /\ wallet[p] >= n
  /\ Begin([at |-> "buying", who |-> p, n |-> n, cash |-> wallet[p],
            acct |-> a, had |-> account[a].balance])
  /\ UNCHANGED <<account, walletVars>>

PurchaseSave ==
  /\ At("buying")
  /\ Save(Top.who, Top.cash, Top.cash - Top.n)
  /\ Go("bought")
  /\ UNCHANGED <<account, overdrawn>>

PurchaseDeposit ==
  /\ At("bought")
  /\ Book(Top.acct, Top.had + Top.n)
  /\ issued' = IF account[Top.acct].balance = Top.had THEN issued ELSE Unknown
  /\ End
  /\ UNCHANGED <<wallet, overdrawn>>

AccountCommand ==
  \/ \E p \in Persons, a \in DOMAIN account :
       \/ \E n \in Typed : AccountDeposit(p, a, n) \/ AccountWithdraw(p, a, n)
       \/ \E n \in Sums : VendorPurchase(p, a, n)
       \/ \E v \in Persons : AddAccess(p, a, v) \/ RemAccess(p, a, v) \/ AccountOwner(p, a, v)
       \/ AccountClose(p, a)
  \/ \E p \in Persons, a \in AccountIds \cap world : AccountOpen(p, a)

AccountStep ==
  \/ AccountCommand
  \/ DepositSave \/ WithdrawSave
  \/ ChangeOwner
  \/ PurchaseSave \/ PurchaseDeposit
=============================================================================
