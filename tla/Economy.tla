------------------------------ MODULE Economy ------------------------------
(***************************************************************************)
(* The economy of the game: wallets, accounts and vendors, cargo jobs, and *)
(* bets on ship races, with commands that run within one another, commands *)
(* that fail, and the end of the Ruby process.  All of it lives in MongoDB *)
(* and in attributes of PennMUSH, and none of it is rolled back.           *)
(***************************************************************************)
EXTENDS Accounts, CargoJobs, ShipRaces

vars == <<world, calls, wallet, overdrawn, issued, account, cargoVars, raceVars>>

Init ==
  /\ WalletsInit
  /\ AccountsInit
  /\ CargoInit
  /\ ShipRacesInit

(* What a command has taken from one place and not put into the other.     *)
InTransit(f) ==
  CASE f.at \in {"debited", "withdrawn", "bought"} -> f.n
    [] f.at \in {"deposited", "betting"} -> -f.n
    [] f.at = "racing" -> -f.paid
    [] f.at = "raced" -> -f.pot
    [] OTHER -> 0

(* A cargo command that fails here leaves job, hold and pay in discord.    *)
HalfDone == {"listed", "weighed", "on_list", "on_scales", "off_list", "moved"} \cup PaidFor

(* The commands in lost are never continued.                               *)
Lost(lost) ==
  /\ issued' = IF \E f \in lost : InTransit(f) # 0 THEN Unknown ELSE issued
  /\ disturbed' = disturbed \cup { f.job : f \in { g \in lost : g.at \in HalfDone } }
  /\ repeated' = repeated \cup { f.job : f \in { g \in lost : g.at \in PaidFor } }
  /\ UNCHANGED <<world, wallet, overdrawn, account, raceVars,
                 job, expired, hold, paid>>

(* An exception, of a function of PennMUSH or of the database, ends the    *)
(* innermost command; softcode goes on with an error as its result.        *)
Abort ==
  /\ calls # <<>>
  /\ End
  /\ Lost({Top})

(* The Ruby process ends.                                                  *)
Crash ==
  /\ calls' = <<>>
  /\ Lost(Range(calls))

Step ==
  \/ WalletStep /\ UNCHANGED <<world, account, cargoVars, raceVars>>
  \/ AccountStep /\ UNCHANGED <<world, cargoVars, raceVars>>
  \/ CargoStep /\ UNCHANGED <<world, account, raceVars>>
  \/ RaceStep /\ UNCHANGED <<world, account, cargoVars>>
  \/ Abort
  \/ Crash

Within == -MaxDebt..MaxCash

Bounded ==
  /\ \A p \in People : wallet[p] \in Within
  /\ \A a \in DOMAIN account : account[a].balance \in Within
  /\ \A s \in Ships : cur[s] >= -MaxDeficit
  /\ SumFunction([s \in Ships |-> SumFunction(onboard[s])]) <= MaxListed
  /\ issued \in Within \cup {Unknown}

Next == Step /\ Bounded'

Spec == Init /\ [][Next]_vars

-----------------------------------------------------------------------------
(* The type invariant.                                                     *)
TypeOK ==
  /\ wallet \in [People -> Int]
  /\ overdrawn \subseteq People
  /\ issued \in Int \cup {Unknown}
  /\ DOMAIN account \subseteq AccountIds
  /\ account \in [DOMAIN account -> Account]
  /\ DOMAIN job \subseteq Jobs
  /\ job \in [DOMAIN job -> Job]
  /\ expired \subseteq DOMAIN job
  /\ onboard \in [Ships -> [Jobs -> Nat]]
  /\ cur \in [Ships -> Int]
  /\ paid \in [Jobs -> Nat]
  /\ disturbed \subseteq Jobs /\ repeated \subseteq Jobs
  /\ tickets \in [DOMAIN tickets -> Nat]
  /\ DOMAIN tickets \subseteq People
  /\ pot \in Nat

Exempt == Wizards \cup {RaceObj} \cup overdrawn

(* No balance falls below zero: commands save what they computed from the  *)
(* balance they checked, and not a difference, however they run within     *)
(* each other and fail.  Wizards may, the bank of the races pays what was  *)
(* won, and put down checks the balance in another RPC.  That nobody       *)
(* spends a credit twice it does not say: SpentIsOnHand.                   *)
NoOverdraft ==
  /\ \A p \in People \ Exempt : wallet[p] >= 0
  /\ \A a \in DOMAIN account : account[a].balance >= 0

(* "This command pays another player with IC credits you have on-hand"    *)
(* (wcnh_econ.hlp:110), and for a deposit "You must have the credits on    *)
(* hand" (line 167): what a command takes is in the wallet when it is      *)
(* taken.  The code compares the amount with the balance it read before it *)
(* evaluated softcode, which may have spent it.                            *)
SpentIsOnHand ==
  [][(PayDebit /\ Top.to # Top.who) \/ DepositSave \/ PurchaseSave =>
       Top.who \in Wizards \/ wallet[Top.who] >= Top.n]_vars

Balances == [a \in DOMAIN account |-> account[a].balance]

InHands == [i \in DOMAIN calls |-> InTransit(calls[i])]

Money == SumFunction(wallet) + SumFunction(Balances) + pot + SumFunction(InHands)

(* All that was granted and not put down is in a wallet, in an account, in *)
(* a wager or in the hands of a command in progress, but for three ways to *)
(* lose or make money: a balance is saved that changed since it was read,  *)
(* a command ends between two documents, or a ticket is bought while the   *)
(* race is run.                                                            *)
MoneyConserved == issued # Unknown => Money = issued

(* A job is paid once, unless its delivery fails after that, or another    *)
(* delivery of it is begun within it: whatever loads and transfers of it   *)
(* overlap with its delivery or fail, and when its time ends.              *)
JobPaidOnce == \A j \in Jobs : paid[j] <= 1

(* What is on board, by what the jobs say.                                 *)
Aboard(s) == { j \in DOMAIN job : job[j].loaded_on = s /\ ~job[j].completed }

(* What is on board, by what the ship lists.                               *)
Manifest(s) == { j \in Jobs : onboard[s][j] # 0 }

(* SPACE`CARGO`CUR never exceeds SPACE`CARGO`MAX, however commands overlap *)
(* and fail.  And as long as no two commands moved the same job at a time  *)
(* and none of them failed half-way, what a ship lists fits into it at any *)
(* time, and when no command is in progress the list, the sum and the jobs *)
(* agree.  After that they need not: a delivery that fails before it saves *)
(* the job is repeated, takes the size off twice, and makes room for more  *)
(* than fits.                                                              *)
HoldAccounted ==
  /\ \A s \in Ships : cur[s] <= Capacity
  /\ disturbed = {} => \A s \in Ships : Size * Cardinality(Manifest(s)) <= Capacity
  /\ calls = <<>> /\ disturbed = {} =>
       \A s \in Ships :
         /\ \A j \in Jobs : onboard[s][j] = IF j \in Aboard(s) THEN 1 ELSE 0
         /\ cur[s] = Size * Cardinality(Aboard(s))
=============================================================================
