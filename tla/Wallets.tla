------------------------------ MODULE Wallets ------------------------------
(***************************************************************************)
(* The wallets of Econ (src/systems/lib/econ/wallets.rb), and what every   *)
(* module of the economy is built on: commands as frames of a stack.       *)
(*                                                                         *)
(* A command is one RPC of softcode.  Where it calls a function of         *)
(* PennMUSH that evaluates softcode (R.u, R.nspemit, R.remit, the R.cemit  *)
(* of log_syslog) that softcode can call rpc() in turn, and other commands *)
(* run within it.  A frame is a command that stopped at such a point, or   *)
(* between two documents it saves, with all it has read that it uses again.*)
(* Documents are saved field by field, and with absolute values.           *)
(***************************************************************************)
EXTENDS Integers, Sequences, FiniteSets

CONSTANTS
  People,    \* dbrefs that have a wallet
  Wizards,   \* those with the flags W or r
  Amounts,   \* bound: the amounts that are paid
  Unknown,   \* of issued: money was lost or made
  Worlds,    \* bound: who and what there is in an instance
  MaxDepth,  \* bound: commands within one another
  MaxCash,   \* bound: of every balance
  MaxDebt    \* bound: of what is below zero

ASSUME WalletsAssumption ==
  /\ IsFiniteSet(People)
  /\ Wizards \subseteq People
  /\ Amounts \subseteq Nat \ {0}
  /\ Unknown \notin Int
  /\ MaxDepth \in Nat /\ MaxCash \in Nat /\ MaxDebt \in Nat

VARIABLES
  world,      \* the members of Worlds this behaviour is about
  calls,      \* the commands in progress, the innermost first
  wallet,     \* Wallet.balance
  overdrawn,  \* history: who put down more than there was
  issued      \* history: what was ever granted, while all of it is accounted

walletVars == <<wallet, overdrawn, issued>>

Persons == People \cap world
Sums == Amounts \cap world

(* What a player can type.                                                 *)
Typed == Sums \cup { -n : n \in Sums }

WalletsInit ==
  /\ world \in Worlds
  /\ calls = <<>>
  /\ wallet = [p \in People |-> 0]
  /\ overdrawn = {}
  /\ issued = 0

-----------------------------------------------------------------------------
(* The stack.                                                              *)

(* Where softcode is evaluated.                                            *)
Softcode == {"told", "granting", "deposited", "withdrawn", "transferring",
             "buying", "claiming", "unassigning", "boarding", "landing",
             "paying", "unloading", "mooring", "moved", "starting", "racing", "raced"}

MayBegin ==
  calls # <<>> => Len(calls) < MaxDepth /\ Head(calls).at \in Softcode

At(point) == calls # <<>> /\ Head(calls).at = point

Top == Head(calls)

Begin(frame) == MayBegin /\ calls' = <<frame>> \o calls
Go(point) == calls' = <<[Top EXCEPT !.at = point]>> \o Tail(calls)
End == calls' = Tail(calls)

(* A command that runs from its beginning to its end.                      *)
AtOnce == MayBegin /\ UNCHANGED calls

-----------------------------------------------------------------------------
(* w.save, and whether what it was computed from was still there.  A       *)
(* balance that is what was read is not written.                           *)
Save(p, read, balance) ==
  \/ /\ balance = read
     /\ UNCHANGED <<wallet, issued>>
  \/ /\ balance # read
     /\ wallet' = [wallet EXCEPT ![p] = balance]
     /\ issued' = IF wallet[p] = read THEN issued ELSE Unknown

Issue(n) == issued' = IF issued = Unknown THEN Unknown ELSE issued + n

CanPay(p, n) == wallet[p] >= n \/ p \in Wizards

(* pay(), up to the messages that announce it.                             *)
Pay(p, to, n) ==
  /\ n > 0
  /\ CanPay(p, n)
  /\ Begin([at |-> "told", who |-> p, to |-> to, n |-> n, cash |-> wallet[p]])
  /\ UNCHANGED walletVars

PayDebit ==
  /\ At("told")
  /\ Save(Top.who, Top.cash, Top.cash - Top.n)
  /\ Go("debited")
  /\ UNCHANGED overdrawn

(* Mutant: the wallet read at the beginning is credited, and the payer may *)
(* be the payee.                                                           *)
PayCreditStale ==
  /\ At("debited")
  /\ wallet' = [wallet EXCEPT ![Top.to] =
       (IF Top.to = Top.who THEN Top.cash ELSE @) + Top.n]
  /\ End
  /\ UNCHANGED <<overdrawn, issued>>

(* The payee's wallet is read again.                                       *)
PayCredit ==
  /\ At("debited")
  /\ wallet' = [wallet EXCEPT ![Top.to] = @ + Top.n]
  /\ End
  /\ UNCHANGED <<overdrawn, issued>>

(* grant() logs first, and then reads and saves the wallet.                *)
Grant(p, n) ==
  /\ Begin([at |-> "granting", who |-> p, n |-> n])
  /\ UNCHANGED walletVars

(* The command "put down": the balance is checked with one RPC, and a      *)
(* negative amount granted with another.                                   *)
PutDown(p, n) ==
  /\ n > 0
  /\ CanPay(p, n)
  /\ Begin([at |-> "granting", who |-> p, n |-> -n])
  /\ UNCHANGED walletVars

GrantSave ==
  /\ At("granting")
  /\ wallet' = [wallet EXCEPT ![Top.who] = @ + Top.n]
  /\ overdrawn' = IF Top.n < 0 /\ wallet[Top.who] + Top.n < 0
                    THEN overdrawn \cup {Top.who} ELSE overdrawn
  /\ Issue(Top.n)
  /\ End

WalletCommand ==
  \E p \in Persons :
    \/ \E to \in Persons, n \in Typed : Pay(p, to, n)
    \/ \E n \in Sums : Grant(p, n)
    \/ \E n \in Typed : PutDown(p, n)

WalletStep == WalletCommand \/ PayDebit \/ PayCredit \/ GrantSave
=============================================================================
