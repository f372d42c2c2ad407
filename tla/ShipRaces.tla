----------------------------- MODULE ShipRaces -----------------------------
(***************************************************************************)
(* The bets of Shiprace (src/systems/lib/shiprace/lib-shiprace.rb) on the  *)
(* race that is open.  Who wins is not decided by the bets.                *)
(***************************************************************************)
EXTENDS Wallets

CONSTANTS
  RaceObj,  \* RACE_OBJ, whose wallet is the bank
  Odds      \* bound: the odds, whole numbers

ASSUME ShipRacesAssumption == RaceObj \in People /\ Odds \subseteq Nat

VARIABLES
  tickets,  \* the wagers; bound: one ticket for each person
  pot       \* race.balance, the sum of the wagers

raceVars == <<tickets, pot>>

ShipRacesInit ==
  /\ tickets = [p \in {} |-> 0]
  /\ pot = 0

Ticket(p, n) ==
  /\ p \notin DOMAIN tickets
  /\ tickets' = [x \in DOMAIN tickets \cup {p} |-> IF x = p THEN n ELSE tickets[x]]
  /\ pot' = pot + n

(* Mutant: any wager is accepted.                                          *)
PurchaseAny(p, n) ==
  /\ RaceObj \in world
  /\ wallet[p] > n
  /\ Ticket(p, n)
  /\ Begin([at |-> "betting", who |-> p, n |-> n, cash |-> wallet[p]])
  /\ UNCHANGED walletVars

(* purchase() creates the ticket before it saves the wallet.               *)
Purchase(p, n) ==
  /\ n > 0
  /\ RaceObj \in world
  /\ wallet[p] > n
  /\ Ticket(p, n)
  /\ Begin([at |-> "betting", who |-> p, n |-> n, cash |-> wallet[p]])
  /\ UNCHANGED walletVars

BetSave ==
  /\ At("betting")
  /\ Save(Top.who, Top.cash, Top.cash - Top.n)
  /\ End
  /\ UNCHANGED <<raceVars, overdrawn>>

(* runrace() reads the wagers, for the odds, and the balance of the bank,  *)
(* and then announces the race on a channel.                               *)
RunRace(odds) ==
  /\ RaceObj \in world
  /\ Begin([at |-> "starting", odds |-> odds, pot |-> pot, bank |-> wallet[RaceObj]])
  /\ UNCHANGED <<raceVars, walletVars>>

(* The tickets of the victor are read when they are announced and logged.  *)
LoadWinners ==
  /\ At("starting")
  /\ \E winners \in SUBSET DOMAIN tickets :
       calls' = <<[at |-> "racing", won |-> [p \in winners |-> tickets[p] * Top.odds],
                   pot |-> Top.pot, bank |-> Top.bank, paid |-> 0]>> \o Tail(calls)
  /\ UNCHANGED <<raceVars, walletVars>>

(* A winner is paid, and gets a mail.                                      *)
PayWinner ==
  /\ At("racing")
  /\ \E p \in DOMAIN Top.won :
       /\ wallet' = [wallet EXCEPT ![p] = @ + Top.won[p]]
       /\ calls' = <<[Top EXCEPT !.won = [x \in DOMAIN @ \ {p} |-> @[x]],
                                !.paid = @ + Top.won[p]]>> \o Tail(calls)
  /\ UNCHANGED <<raceVars, overdrawn, issued>>

(* Mutant: the bank pays the winners, but does not get the wagers.         *)
BankSaveWithoutWagers ==
  /\ At("racing")
  /\ DOMAIN Top.won = {}
  /\ Save(RaceObj, Top.bank, Top.bank - Top.paid)
  /\ Go("raced")
  /\ UNCHANGED <<raceVars, overdrawn>>

BankSave ==
  /\ At("racing")
  /\ DOMAIN Top.won = {}
  /\ Save(RaceObj, Top.bank, Top.bank + Top.pot - Top.paid)
  /\ Go("raced")
  /\ UNCHANGED <<raceVars, overdrawn>>

(* All tickets are destroyed, those bought since the race began too.       *)
DestroyTickets ==
  /\ At("raced")
  /\ tickets' = [p \in {} |-> 0]
  /\ pot' = 0
  /\ issued' = IF pot = Top.pot THEN issued ELSE Unknown
  /\ End
  /\ UNCHANGED <<wallet, overdrawn>>

RaceCommand ==
  \/ \E p \in Persons \ {RaceObj}, n \in Typed : Purchase(p, n)
  \/ \E odds \in Odds : RunRace(odds)

RaceStep ==
  RaceCommand \/ BetSave \/ LoadWinners \/ PayWinner \/ BankSave \/ DestroyTickets
=============================================================================
