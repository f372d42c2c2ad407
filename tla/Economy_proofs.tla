--------------------------- MODULE Economy_proofs ---------------------------
(***************************************************************************)
(* No one overdraws, and money is neither made nor lost but where the      *)
(* history says so, in the economy of any size and for commands that are   *)
(* nested to any depth.  The balance that a command has read stays good    *)
(* for what it is going to take from it, as the frames say it does: a      *)
(* command saves the balance it computed, and not a difference.            *)
(***************************************************************************)
EXTENDS Economy, FoldTheorems, SequenceTheorems

(* The frames, when those in x may overdraw.                               *)
Spending(x) ==
  { f \in [at : {"deposited", "betting"}, who : People, n : Nat, cash : Int] :
      f.who \in x \/ f.cash >= f.n }

Paying(x) ==
  { f \in [at : {"told", "debited"}, who : People, to : People, n : Nat, cash : Int] :
      f.who \in x \/ f.cash >= f.n }

Buying(x) ==
  { f \in [at : {"buying", "bought"}, who : People, n : Nat, cash : Int,
           acct : AccountIds, had : Nat] :
      f.who \in x \/ f.cash >= f.n }

Withdrawing(x) ==
  { f \in [at : {"withdrawn"}, who : People, n : Nat, cash : Int] :
      f.who \in x \/ f.cash >= 0 }

Granting == [at : {"granting"}, who : People, n : Int]

Transferring ==
  [at : {"transferring"}, acct : AccountIds, to : People, had : People,
   knows : SUBSET People]

Prizes == UNION { [S -> Nat] : S \in SUBSET People }

Starting == [at : {"starting"}, odds : Nat, pot : Nat, bank : Int]

Racing == [at : {"racing", "raced"}, won : Prizes, pot : Nat, bank : Int, paid : Nat]

Claiming == [at : {"claiming"}, who : People, job : Jobs]

Unassigning == [at : {"unassigning"}, job : Jobs]

Loading ==
  [at : {"boarding", "listed", "weighed"}, who : People, job : Jobs,
   ship : Ships, took : BOOLEAN]

Delivering ==
  [at : {"landing", "paying", "unloading", "delisted", "lightened"},
   job : Jobs, pays : People \cup {Nobody}, ship : Ships \cup {Nobody}]

Moving ==
  [at : {"mooring", "on_list", "on_scales", "off_list", "moved"},
   job : Jobs, from : Ships \cup {Nobody}, ship : Ships]

Frame(x) ==
  Spending(x) \cup Paying(x) \cup Buying(x) \cup Withdrawing(x)
  \cup Granting \cup Transferring \cup Starting \cup Racing
  \cup Claiming \cup Unassigning \cup Loading \cup Delivering \cup Moving

WalletInv ==
  /\ wallet \in [People -> Int]
  /\ \A p \in People \ Exempt : wallet[p] >= 0

AccountInv ==
  /\ DOMAIN account \subseteq AccountIds
  /\ account \in [DOMAIN account -> Account]
  /\ \A a \in DOMAIN account : account[a].balance >= 0

RaceInv ==
  /\ DOMAIN tickets \subseteq People
  /\ tickets \in [DOMAIN tickets -> Nat]
  /\ pot \in Nat

JobInv ==
  /\ DOMAIN job \subseteq Jobs
  /\ job \in [DOMAIN job -> Job]

IInv ==
  /\ WalletInv
  /\ AccountInv
  /\ RaceInv
  /\ JobInv
  /\ calls \in Seq(Frame(Exempt))

-----------------------------------------------------------------------------
(* The stack.                                                              *)

(* What is begun on a stack of frames is one more frame.                   *)
LEMMA PushFrame ==
  ASSUME NEW S, NEW s \in Seq(S), NEW f \in S
  PROVE  <<f>> \o s \in Seq(S)
<1>1. <<f>> \in Seq(S)
  OBVIOUS
<1> QED
  BY <1>1, ConcatProperties

(* A stack that is not empty is its top and the stack below.               *)
LEMMA PopFrame ==
  ASSUME NEW S, NEW s \in Seq(S), s # <<>>
  PROVE  Head(s) \in S /\ Tail(s) \in Seq(S)
  BY HeadTailProperties

(* Frames are frames still when more may overdraw.                         *)
LEMMA FrameMonotone ==
  ASSUME NEW x, NEW y, x \subseteq y
  PROVE  Frame(x) \subseteq Frame(y)
  BY DEF Frame, Spending, Paying, Buying, Withdrawing

(* The stack after a command has begun.                                    *)
LEMMA BeginStack ==
  ASSUME NEW f \in Frame(Exempt), calls \in Seq(Frame(Exempt)), Begin(f)
  PROVE  calls' \in Seq(Frame(Exempt))
  BY PushFrame DEF Begin

(* The stack after a command has ended.                                    *)
LEMMA EndStack ==
  ASSUME calls \in Seq(Frame(Exempt)), calls # <<>>, End
  PROVE  calls' \in Seq(Frame(Exempt))
  BY PopFrame DEF End

(* The stack after the top command went on.                                *)
LEMMA GoStack ==
  ASSUME calls \in Seq(Frame(Exempt)), calls # <<>>, NEW point, Go(point),
         [Top EXCEPT !.at = point] \in Frame(Exempt)
  PROVE  calls' \in Seq(Frame(Exempt))
<1>1. Tail(calls) \in Seq(Frame(Exempt))
  BY PopFrame
<1> QED
  BY <1>1, PushFrame DEF Go

(* The point at which a command is tells what its frame holds.             *)
LEMMA FrameAt ==
  ASSUME NEW x, NEW f \in Frame(x)
  PROVE  /\ f.at \in {"deposited", "betting"} => f \in Spending(x)
         /\ f.at \in {"told", "debited"} => f \in Paying(x)
         /\ f.at \in {"buying", "bought"} => f \in Buying(x)
         /\ f.at = "withdrawn" => f \in Withdrawing(x)
         /\ f.at = "granting" => f \in Granting
         /\ f.at = "transferring" => f \in Transferring
         /\ f.at = "starting" => f \in Starting
         /\ f.at \in {"racing", "raced"} => f \in Racing
         /\ f.at = "claiming" => f \in Claiming
         /\ f.at = "unassigning" => f \in Unassigning
         /\ f.at \in {"boarding", "listed", "weighed"} => f \in Loading
         /\ f.at \in {"landing", "paying", "unloading", "delisted", "lightened"}
              => f \in Delivering
         /\ f.at \in {"mooring", "on_list", "on_scales", "off_list", "moved"}
              => f \in Moving
  BY DEF Frame, Spending, Paying, Buying, Withdrawing, Granting, Transferring,
         Starting, Racing, Claiming, Unassigning, Loading, Delivering, Moving

-----------------------------------------------------------------------------
(* The frames of the stack after it changed.                               *)

(* One sequence is another one behind its first element.                   *)
LEMMA Shifted ==
  ASSUME NEW S, NEW s \in Seq(S), NEW t \in Seq(S),
         Len(t) = Len(s) + 1, \A i \in 1..Len(s) : t[i + 1] = s[i]
  PROVE  /\ \A i \in DOMAIN t : i = 1 \/ (i - 1 \in DOMAIN s /\ t[i] = s[i - 1])
         /\ \A i \in DOMAIN s : i + 1 \in DOMAIN t /\ t[i + 1] = s[i]
         /\ 1 \in DOMAIN t
         /\ DOMAIN t \subseteq Int /\ DOMAIN s \subseteq Nat \ {0}
<1>1. DOMAIN t = 1..(Len(s) + 1) /\ DOMAIN s = 1..Len(s) /\ Len(s) \in Nat
  OBVIOUS
<1>2. ASSUME NEW i \in DOMAIN t, i # 1
      PROVE  i - 1 \in DOMAIN s /\ t[i] = s[i - 1]
  <2>1. i \in Int /\ i - 1 \in 1..Len(s)
    BY <1>1, <1>2
  <2>2. t[(i - 1) + 1] = s[i - 1] /\ (i - 1) + 1 = i
    BY <2>1
  <2> QED
    BY <1>1, <2>1, <2>2
<1>3. ASSUME NEW i \in DOMAIN s PROVE i + 1 \in DOMAIN t /\ t[i + 1] = s[i]
  <2>1. i \in 1..Len(s) /\ i + 1 \in 1..(Len(s) + 1)
    BY <1>1, <1>3
  <2> QED
    BY <1>1, <2>1
<1>4. 1 \in DOMAIN t /\ DOMAIN t \subseteq Int /\ DOMAIN s \subseteq Nat \ {0}
  BY <1>1
<1> QED
  BY <1>2, <1>3, <1>4

(* A frame comes on top of the others.                                     *)
LEMMA OnTop ==
  ASSUME NEW S, NEW s \in Seq(S), NEW f
  PROVE  LET t == <<f>> \o s
         IN /\ \A i \in DOMAIN t : i = 1 \/ (i - 1 \in DOMAIN s /\ t[i] = s[i - 1])
            /\ \A i \in DOMAIN s : i + 1 \in DOMAIN t /\ t[i + 1] = s[i]
            /\ 1 \in DOMAIN t /\ t[1] = f
            /\ DOMAIN t \subseteq Int /\ DOMAIN s \subseteq Nat \ {0}
<1> DEFINE t == <<f>> \o s
<1>1. <<f>> \in Seq(S \cup {f}) /\ s \in Seq(S \cup {f})
  OBVIOUS
<1>2. /\ t \in Seq(S \cup {f}) /\ Len(t) = Len(s) + 1
      /\ t[1] = f /\ \A i \in 1..Len(s) : t[i + 1] = s[i]
  BY <1>1, ConcatProperties
<1> HIDE DEF t
<1>3. /\ \A i \in DOMAIN t : i = 1 \/ (i - 1 \in DOMAIN s /\ t[i] = s[i - 1])
      /\ \A i \in DOMAIN s : i + 1 \in DOMAIN t /\ t[i + 1] = s[i]
      /\ 1 \in DOMAIN t
      /\ DOMAIN t \subseteq Int /\ DOMAIN s \subseteq Nat \ {0}
  BY <1>1, <1>2, Shifted
<1> QED
  BY <1>2, <1>3 DEF t

(* The top is taken off.                                                   *)
LEMMA OffTop ==
  ASSUME NEW S, NEW s \in Seq(S), s # <<>>
  PROVE  LET t == Tail(s)
         IN /\ t \in Seq(S)
            /\ \A i \in DOMAIN t : i + 1 \in DOMAIN s /\ t[i] = s[i + 1]
            /\ \A i \in DOMAIN s : i = 1 \/ (i - 1 \in DOMAIN t /\ t[i - 1] = s[i])
            /\ 1 \in DOMAIN s /\ Head(s) = s[1]
            /\ DOMAIN t \subseteq Nat \ {0} /\ DOMAIN s \subseteq Int
<1> DEFINE t == Tail(s)
<1>1. t \in Seq(S) /\ Len(s) = Len(t) + 1
  BY HeadTailProperties, EmptySeq
<1>2. Head(s) = s[1] /\ \A i \in 1..Len(t) : s[i + 1] = t[i]
  BY HeadTailProperties, EmptySeq
<1> HIDE DEF t
<1>3. /\ \A i \in DOMAIN s : i = 1 \/ (i - 1 \in DOMAIN t /\ s[i] = t[i - 1])
      /\ \A i \in DOMAIN t : i + 1 \in DOMAIN s /\ s[i + 1] = t[i]
      /\ 1 \in DOMAIN s
      /\ DOMAIN s \subseteq Int /\ DOMAIN t \subseteq Nat \ {0}
  BY <1>1, <1>2, Shifted
<1> QED
  BY <1>1, <1>2, <1>3 DEF t

(* The top is replaced.                                                    *)
LEMMA NewTop ==
  ASSUME NEW S, NEW s \in Seq(S), s # <<>>, NEW g
  PROVE  LET t == <<g>> \o Tail(s)
         IN /\ DOMAIN t = DOMAIN s
            /\ \A i \in DOMAIN s : t[i] = IF i = 1 THEN g ELSE s[i]
            /\ 1 \in DOMAIN s /\ Head(s) = s[1]
<1> DEFINE r == Tail(s)
           t == <<g>> \o r
<1>1. /\ r \in Seq(S)
      /\ \A i \in DOMAIN r : i + 1 \in DOMAIN s /\ r[i] = s[i + 1]
      /\ \A i \in DOMAIN s : i = 1 \/ (i - 1 \in DOMAIN r /\ r[i - 1] = s[i])
      /\ 1 \in DOMAIN s /\ Head(s) = s[1]
      /\ DOMAIN s \subseteq Int
  BY OffTop
<1> HIDE DEF r
<1>2. /\ \A i \in DOMAIN t : i = 1 \/ (i - 1 \in DOMAIN r /\ t[i] = r[i - 1])
      /\ \A i \in DOMAIN r : i + 1 \in DOMAIN t /\ t[i + 1] = r[i]
      /\ 1 \in DOMAIN t /\ t[1] = g
      /\ DOMAIN t \subseteq Int
  BY <1>1, OnTop
<1> HIDE DEF t
<1>3. ASSUME NEW i \in DOMAIN t PROVE i \in DOMAIN s
  <2>1. CASE i = 1
    BY <1>1, <2>1
  <2>2. CASE i # 1
    <3>1. i - 1 \in DOMAIN r /\ i \in Int
      BY <1>2, <2>2
    <3>2. (i - 1) + 1 \in DOMAIN s
      BY <1>1, <3>1
    <3> QED
      BY <3>1, <3>2
  <2> QED
    BY <2>1, <2>2
<1>4. ASSUME NEW i \in DOMAIN s
      PROVE  i \in DOMAIN t /\ t[i] = IF i = 1 THEN g ELSE s[i]
  <2>1. CASE i = 1
    BY <1>2, <2>1
  <2>2. CASE i # 1
    <3>1. i - 1 \in DOMAIN r /\ r[i - 1] = s[i] /\ i \in Int
      BY <1>1, <2>2
    <3>2. (i - 1) + 1 \in DOMAIN t /\ t[(i - 1) + 1] = r[i - 1]
      BY <1>2, <3>1
    <3> QED
      BY <2>2, <3>1, <3>2
  <2> QED
    BY <2>1, <2>2
<1>5. DOMAIN t = DOMAIN s
  BY <1>3, <1>4
<1> QED
  BY <1>1, <1>4, <1>5 DEF t, r

-----------------------------------------------------------------------------
(* The steps, one lemma for each module.                                   *)

(* What a person can type is a number.                                     *)
LEMMA InputTypes ==
  /\ Persons \subseteq People
  /\ Sums \subseteq Nat \ {0}
  /\ \A n \in Typed : n \in Int
<1>1. Persons \subseteq People /\ Sums \subseteq Nat \ {0}
  BY WalletsAssumption DEF Persons, Sums
<1>2. \A n \in Sums : n \in Int /\ -n \in Int
  BY <1>1
<1> QED
  BY <1>1, <1>2 DEF Typed

(* A balance that was read is saved after it was computed with.            *)
LEMMA SaveInv ==
  ASSUME WalletInv, NEW p \in People, NEW read, NEW balance \in Int,
         p \in Exempt \/ balance >= 0,
         Save(p, read, balance), Exempt' = Exempt
  PROVE  WalletInv'
  BY DEF WalletInv, Save

(* An account is saved, and what is saved is not overdrawn.                *)
LEMMA KeepAccount ==
  ASSUME AccountInv, NEW a \in DOMAIN account, NEW kept \in Account, kept.balance >= 0,
         account' = [account EXCEPT ![a] = kept]
  PROVE  AccountInv'
<1>1. DOMAIN account' = DOMAIN account
  OBVIOUS
<1>2. ASSUME NEW b \in DOMAIN account
      PROVE  account'[b] \in Account /\ account'[b].balance >= 0
  BY <1>2 DEF AccountInv
<1>3. account' \in [DOMAIN account -> Account]
  BY <1>2
<1> QED
  BY <1>1, <1>2, <1>3 DEF AccountInv

(* An account that changes hands is an account.                            *)
LEMMA Transferred ==
  ASSUME NEW r \in Account, NEW p \in People, NEW A \in SUBSET People
  PROVE  /\ [r EXCEPT !.owner = p, !.accessors = A] \in Account
         /\ [r EXCEPT !.owner = p, !.accessors = A].balance = r.balance
<1> DEFINE q == [r EXCEPT !.owner = p]
<1>1. q \in Account /\ q.balance = r.balance
  BY DEF Account
<1>2. [r EXCEPT !.owner = p, !.accessors = A] = [q EXCEPT !.accessors = A]
  BY DEF Account
<1> HIDE DEF q
<1>3. [q EXCEPT !.accessors = A] \in Account /\ [q EXCEPT !.accessors = A].balance = q.balance
  BY <1>1 DEF Account
<1> QED
  BY <1>1, <1>2, <1>3

(* An account is saved with a balance that was computed.                   *)
LEMMA BookInv ==
  ASSUME AccountInv, NEW a, NEW balance \in Nat, Book(a, balance)
  PROVE  AccountInv'
<1>1. CASE a \in DOMAIN account
  <2> DEFINE kept == [account[a] EXCEPT !.balance = balance]
  <2>1. account[a] \in Account
    BY <1>1 DEF AccountInv
  <2>2. kept \in Account /\ kept.balance >= 0
    BY <2>1 DEF Account
  <2>3. account' = [account EXCEPT ![a] = kept]
    BY <2>1 DEF Book, Account
  <2> QED
    BY <1>1, <2>2, <2>3, KeepAccount
<1>2. CASE a \notin DOMAIN account
  <2>1. account' = account
    BY <1>2 DEF Book, AccountInv
  <2> QED
    BY <2>1 DEF AccountInv
<1> QED
  BY <1>1, <1>2

(* Commands of wallets.rb and the softcode that puts down.                 *)
LEMMA WalletStepInv ==
  ASSUME IInv, WalletStep, UNCHANGED <<world, account, cargoVars, raceVars>>
  PROVE  IInv'
<1>1. AccountInv' /\ RaceInv' /\ JobInv'
  BY DEF IInv, AccountInv, RaceInv, JobInv, cargoVars, raceVars
<1>2. WalletInv /\ calls \in Seq(Frame(Exempt))
  BY DEF IInv
<1>3. ASSUME NEW p \in Persons, NEW to \in Persons, NEW n \in Typed, Pay(p, to, n)
      PROVE  IInv'
  <2> DEFINE f == [at |-> "told", who |-> p, to |-> to, n |-> n, cash |-> wallet[p]]
  <2>1. p \in People /\ to \in People /\ n \in Nat /\ (p \in Exempt \/ wallet[p] >= n)
    BY <1>3, InputTypes DEF Pay, CanPay, Exempt
  <2>2. f \in Frame(Exempt)
    BY <2>1, <1>2 DEF Frame, Paying, WalletInv
  <2>3. UNCHANGED <<wallet, overdrawn>> /\ Begin(f)
    BY <1>3 DEF Pay, walletVars
  <2>4. Exempt' = Exempt /\ WalletInv'
    BY <2>3, <1>2 DEF Exempt, WalletInv
  <2>5. calls' \in Seq(Frame(Exempt))
    BY <2>2, <2>3, <1>2, BeginStack
  <2> QED
    BY <1>1, <2>4, <2>5 DEF IInv
<1>4. ASSUME NEW p \in Persons, NEW n \in Int, Begin([at |-> "granting", who |-> p, n |-> n]),
             UNCHANGED walletVars
      PROVE  IInv'
  <2>1. [at |-> "granting", who |-> p, n |-> n] \in Frame(Exempt)
    BY <1>4, InputTypes DEF Frame, Granting
  <2>2. Exempt' = Exempt /\ WalletInv'
    BY <1>2, <1>4 DEF Exempt, WalletInv, walletVars
  <2>3. calls' \in Seq(Frame(Exempt))
    BY <2>1, <1>2, <1>4, BeginStack
  <2> QED
    BY <1>1, <2>2, <2>3 DEF IInv
<1>5. CASE PayDebit
  <2>1. calls # <<>> /\ Top \in Paying(Exempt)
    BY <1>2, <1>5, PopFrame, FrameAt DEF PayDebit, At, Top
  <2>2. Exempt' = Exempt
    BY <1>5 DEF PayDebit, Exempt
  <2>3. WalletInv'
    <3>1. /\ Top.who \in People /\ Top.cash - Top.n \in Int
          /\ Top.who \in Exempt \/ Top.cash - Top.n >= 0
      BY <2>1 DEF Paying
    <3>2. Save(Top.who, Top.cash, Top.cash - Top.n)
      BY <1>5 DEF PayDebit
    <3> QED
      BY <3>1, <3>2, <1>2, <2>2, SaveInv
  <2>4. [Top EXCEPT !.at = "debited"] \in Frame(Exempt)
    BY <2>1 DEF Frame, Paying
  <2>5. calls' \in Seq(Frame(Exempt))
    BY <1>2, <1>5, <2>1, <2>4, GoStack DEF PayDebit
  <2> QED
    BY <1>1, <2>2, <2>3, <2>5 DEF IInv
<1>6. CASE PayCredit
  <2>1. calls # <<>> /\ Top \in Paying(Exempt)
    BY <1>2, <1>6, PopFrame, FrameAt DEF PayCredit, At, Top
  <2>2. Exempt' = Exempt
    BY <1>6 DEF PayCredit, Exempt
  <2>3. Top.to \in People /\ Top.n \in Nat
    BY <2>1 DEF Paying
  <2>4. WalletInv'
    BY <1>2, <1>6, <2>2, <2>3 DEF WalletInv, PayCredit
  <2>5. calls' \in Seq(Frame(Exempt))
    BY <1>2, <1>6, <2>1, EndStack DEF PayCredit
  <2> QED
    BY <1>1, <2>2, <2>4, <2>5 DEF IInv
<1>7. CASE GrantSave
  <2>1. calls # <<>> /\ Top \in Granting
    BY <1>2, <1>7, PopFrame, FrameAt DEF GrantSave, At, Top
  <2>2. Top.who \in People /\ Top.n \in Int
    BY <2>1 DEF Granting
  <2>3. Exempt \subseteq Exempt'
    BY <1>7 DEF GrantSave, Exempt
  <2>4. Top.who \in Exempt' \/ wallet[Top.who] + Top.n >= 0
    <3>1. CASE Top.n < 0 /\ wallet[Top.who] + Top.n < 0
      BY <3>1, <1>7 DEF GrantSave, Exempt
    <3>2. CASE ~(Top.n < 0 /\ wallet[Top.who] + Top.n < 0)
      BY <3>2, <1>2, <2>2, <2>3 DEF WalletInv
    <3> QED
      BY <3>1, <3>2
  <2>5. WalletInv'
    BY <1>2, <1>7, <2>2, <2>3, <2>4 DEF WalletInv, GrantSave
  <2>6. calls' \in Seq(Frame(Exempt))
    BY <1>2, <1>7, <2>1, EndStack DEF GrantSave
  <2>7. calls' \in Seq(Frame(Exempt'))
    BY <2>3, <2>6, FrameMonotone
  <2> QED
    BY <1>1, <2>5, <2>7 DEF IInv
<1>8. ASSUME NEW p \in Persons, NEW n \in Sums, Grant(p, n)
      PROVE  IInv'
  BY <1>4, <1>8, InputTypes DEF Grant
<1>9. ASSUME NEW p \in Persons, NEW n \in Typed, PutDown(p, n)
      PROVE  IInv'
  <2>1. -n \in Int
    BY InputTypes
  <2> QED
    BY <1>4, <1>9, <2>1 DEF PutDown
<1> QED
  BY <1>3, <1>5, <1>6, <1>7, <1>8, <1>9 DEF WalletStep, WalletCommand

(* What both parts of a step leave, when it is no more than that.          *)
StackInv == calls \in Seq(Frame(Exempt))

(* A command begins, and pays nothing yet.                                 *)
LEMMA BeginInv ==
  ASSUME WalletInv, StackInv, NEW f \in Frame(Exempt), Begin(f), UNCHANGED walletVars
  PROVE  WalletInv' /\ StackInv'
<1>1. Exempt' = Exempt /\ WalletInv'
  BY DEF Exempt, WalletInv, walletVars
<1> QED
  BY <1>1, BeginStack DEF StackInv

(* A command goes on or ends, and leaves the wallets alone.                *)
LEMMA QuietInv ==
  ASSUME WalletInv, UNCHANGED <<wallet, overdrawn>>,
         StackInv, calls' \in Seq(Frame(Exempt))
  PROVE  WalletInv' /\ StackInv'
  BY DEF StackInv, WalletInv, Exempt

(* Commands of accounts.rb, and purchases.                                 *)
LEMMA AccountStepInv ==
  ASSUME IInv, AccountStep, UNCHANGED <<world, cargoVars, raceVars>>
  PROVE  IInv'
<1>1. RaceInv' /\ JobInv'
  BY DEF IInv, RaceInv, JobInv, cargoVars, raceVars
<1>2. WalletInv /\ AccountInv /\ StackInv
  BY DEF IInv, StackInv
<1>3. SUFFICES AccountInv' /\ WalletInv' /\ StackInv'
  BY <1>1 DEF IInv, StackInv
<1>4. \A a \in DOMAIN account : /\ a \in AccountIds
                                /\ account[a] \in Account
                                /\ account[a].balance \in Nat
  BY <1>2 DEF AccountInv, Account
<1>5. ASSUME NEW p \in Persons, NEW a \in DOMAIN account, NEW n \in Typed,
             AccountDeposit(p, a, n)
      PROVE  AccountInv' /\ WalletInv' /\ StackInv'
  <2>1. n \in Nat /\ p \in People /\ (p \in Exempt \/ wallet[p] >= n)
    BY <1>5, InputTypes DEF AccountDeposit, CanPay, Exempt
  <2>2. [at |-> "deposited", who |-> p, n |-> n, cash |-> wallet[p]] \in Frame(Exempt)
    BY <1>2, <2>1 DEF WalletInv, Frame, Spending
  <2>3. AccountInv'
    BY <1>2, <1>4, <1>5, <2>1, BookInv DEF AccountDeposit
  <2> QED
    BY <1>2, <1>5, <2>2, <2>3, BeginInv DEF AccountDeposit
<1>6. ASSUME NEW p \in Persons, NEW a \in DOMAIN account, NEW n \in Typed,
             AccountWithdraw(p, a, n)
      PROVE  AccountInv' /\ WalletInv' /\ StackInv'
  <2>1. n \in Nat /\ p \in People /\ account[a].balance - n \in Nat
    BY <1>4, <1>6, InputTypes DEF AccountWithdraw
  <2>2. [at |-> "withdrawn", who |-> p, n |-> n, cash |-> wallet[p]] \in Frame(Exempt)
    BY <1>2, <2>1 DEF WalletInv, Frame, Withdrawing
  <2>3. AccountInv'
    BY <1>2, <1>6, <2>1, BookInv DEF AccountWithdraw
  <2> QED
    BY <1>2, <1>6, <2>2, <2>3, BeginInv DEF AccountWithdraw
<1>7. ASSUME NEW p \in Persons, NEW a \in DOMAIN account, NEW n \in Sums,
             VendorPurchase(p, a, n)
      PROVE  AccountInv' /\ WalletInv' /\ StackInv'
  <2>1. n \in Nat /\ p \in People /\ wallet[p] >= n
    BY <1>7, InputTypes DEF VendorPurchase
  <2> DEFINE f == [at |-> "buying", who |-> p, n |-> n, cash |-> wallet[p],
                   acct |-> a, had |-> account[a].balance]
  <2>2. f \in Frame(Exempt)
    BY <1>2, <1>4, <2>1 DEF WalletInv, Frame, Buying
  <2>3. AccountInv' /\ Begin(f) /\ UNCHANGED walletVars
    BY <1>2, <1>7 DEF VendorPurchase, AccountInv
  <2> QED
    BY <1>2, <2>2, <2>3, BeginInv
<1>8. ASSUME NEW p \in Persons, NEW a \in DOMAIN account, NEW v \in Persons,
             AddAccess(p, a, v) \/ RemAccess(p, a, v)
      PROVE  AccountInv' /\ WalletInv' /\ StackInv'
  <2>1. v \in People
    BY InputTypes
  <2>2. AccountInv'
    <3>1. PICK A \in SUBSET People : account' = [account EXCEPT ![a].accessors = A]
      BY <1>4, <1>8, <2>1 DEF AddAccess, RemAccess, Account
    <3> DEFINE kept == [account[a] EXCEPT !.accessors = A]
    <3>2. kept \in Account /\ kept.balance >= 0
      BY <1>4 DEF Account
    <3>3. account' = [account EXCEPT ![a] = kept]
      BY <3>1
    <3> QED
      BY <1>2, <3>2, <3>3, KeepAccount
  <2>3. UNCHANGED <<wallet, overdrawn, calls>>
    BY <1>8 DEF AddAccess, RemAccess, AtOnce, walletVars
  <2> QED
    BY <1>2, <2>2, <2>3, QuietInv DEF StackInv
<1>9. ASSUME NEW p \in Persons, NEW a \in DOMAIN account, NEW v \in Persons,
             AccountOwner(p, a, v)
      PROVE  AccountInv' /\ WalletInv' /\ StackInv'
  <2> DEFINE f == [at |-> "transferring", acct |-> a, to |-> v,
                   had |-> account[a].owner, knows |-> account[a].accessors]
  <2>1. f \in Frame(Exempt)
    BY <1>4, InputTypes DEF Frame, Transferring, Account
  <2>2. AccountInv' /\ Begin(f) /\ UNCHANGED walletVars
    BY <1>2, <1>9 DEF AccountOwner, AccountInv
  <2> QED
    BY <1>2, <2>1, <2>2, BeginInv
<1>10. ASSUME NEW p \in Persons, NEW a \in DOMAIN account, AccountClose(p, a)
       PROVE  AccountInv' /\ WalletInv' /\ StackInv'
  <2>1. AccountInv'
    BY <1>2, <1>10 DEF AccountInv, Account, AccountClose
  <2>2. UNCHANGED <<wallet, overdrawn, calls>>
    BY <1>10 DEF AccountClose, AtOnce, walletVars
  <2> QED
    BY <1>2, <2>1, <2>2, QuietInv DEF StackInv
<1>11. ASSUME NEW p \in Persons, NEW a \in AccountIds \cap world, AccountOpen(p, a)
       PROVE  AccountInv' /\ WalletInv' /\ StackInv'
  <2>1. p \in People
    BY InputTypes
  <2>2. AccountInv'
    BY <1>2, <1>11, <2>1 DEF AccountInv, Account, AccountOpen
  <2>3. UNCHANGED <<wallet, overdrawn, calls>>
    BY <1>11 DEF AccountOpen, AtOnce, walletVars
  <2> QED
    BY <1>2, <2>2, <2>3, QuietInv DEF StackInv
<1>12. CASE DepositSave
  <2>1. calls # <<>> /\ Top \in Spending(Exempt)
    BY <1>2, <1>12, PopFrame, FrameAt DEF DepositSave, At, Top, StackInv
  <2>2. Exempt' = Exempt /\ AccountInv'
    BY <1>2, <1>12 DEF DepositSave, Exempt, AccountInv
  <2>3. /\ Top.who \in People /\ Top.cash - Top.n \in Int
        /\ Top.who \in Exempt \/ Top.cash - Top.n >= 0
    BY <2>1 DEF Spending
  <2>4. WalletInv'
    BY <1>2, <1>12, <2>2, <2>3, SaveInv DEF DepositSave
  <2> QED
    BY <1>2, <1>12, <2>1, <2>2, <2>4, EndStack DEF DepositSave, StackInv
<1>13. CASE WithdrawSave
  <2>1. calls # <<>> /\ Top \in Withdrawing(Exempt)
    BY <1>2, <1>13, PopFrame, FrameAt DEF WithdrawSave, At, Top, StackInv
  <2>2. Exempt' = Exempt /\ AccountInv'
    BY <1>2, <1>13 DEF WithdrawSave, Exempt, AccountInv
  <2>3. /\ Top.who \in People /\ Top.cash + Top.n \in Int
        /\ Top.who \in Exempt \/ Top.cash + Top.n >= 0
    BY <2>1 DEF Withdrawing
  <2>4. WalletInv'
    BY <1>2, <1>13, <2>2, <2>3, SaveInv DEF WithdrawSave
  <2> QED
    BY <1>2, <1>13, <2>1, <2>2, <2>4, EndStack DEF WithdrawSave, StackInv
<1>14. CASE ChangeOwner
  <2>1. calls # <<>> /\ Top \in Transferring
    BY <1>2, <1>14, PopFrame, FrameAt DEF ChangeOwner, At, Top, StackInv
  <2>2. Top.to \in People /\ Top.knows \subseteq People
    BY <2>1 DEF Transferring
  <2>3. AccountInv'
    <3> DEFINE a == Top.acct
               o == IF Top.to = Top.had THEN account[a].owner ELSE Top.to
               A == IF Top.to \in Top.knows THEN account[a].accessors
                    ELSE Top.knows \cup {Top.to}
               kept == [account[a] EXCEPT !.owner = o, !.accessors = A]
    <3>1. CASE a \in DOMAIN account
      <4>1. A \in SUBSET People /\ o \in People
        BY <1>4, <2>2, <3>1 DEF Account
      <4>2. account' = [account EXCEPT ![a].owner = o, ![a].accessors = A]
        BY <1>14, <3>1 DEF ChangeOwner
      <4>3. account' = [account EXCEPT ![a] = kept]
        BY <1>4, <3>1, <4>2 DEF Account
      <4>4. kept \in Account /\ kept.balance >= 0
        <5>1. account[a] \in Account /\ account[a].balance \in Nat
          BY <1>4, <3>1
        <5> HIDE DEF a, A, o
        <5>2. kept \in Account /\ kept.balance = account[a].balance
          BY <4>1, <5>1, Transferred
        <5> QED
          BY <5>1, <5>2
      <4> QED
        BY <1>2, <3>1, <4>3, <4>4, KeepAccount
    <3>2. CASE a \notin DOMAIN account
      <4>1. account' = account
        BY <1>2, <1>14, <3>2 DEF ChangeOwner, AccountInv
      <4> QED
        BY <1>2, <4>1 DEF AccountInv
    <3> QED
      BY <3>1, <3>2
  <2>4. calls' \in Seq(Frame(Exempt)) /\ UNCHANGED <<wallet, overdrawn>>
    BY <1>2, <1>14, <2>1, EndStack DEF ChangeOwner, StackInv, walletVars
  <2> QED
    BY <1>2, <2>3, <2>4, QuietInv
<1>15. CASE PurchaseSave
  <2>1. calls # <<>> /\ Top \in Buying(Exempt)
    BY <1>2, <1>15, PopFrame, FrameAt DEF PurchaseSave, At, Top, StackInv
  <2>2. Exempt' = Exempt /\ AccountInv'
    BY <1>2, <1>15 DEF PurchaseSave, Exempt, AccountInv
  <2>3. /\ Top.who \in People /\ Top.cash - Top.n \in Int
        /\ Top.who \in Exempt \/ Top.cash - Top.n >= 0
    BY <2>1 DEF Buying
  <2>4. WalletInv'
    BY <1>2, <1>15, <2>2, <2>3, SaveInv DEF PurchaseSave
  <2>5. [Top EXCEPT !.at = "bought"] \in Frame(Exempt)
    BY <2>1 DEF Frame, Buying
  <2> QED
    BY <1>2, <1>15, <2>1, <2>2, <2>4, <2>5, GoStack DEF PurchaseSave, StackInv
<1>16. CASE PurchaseDeposit
  <2>1. calls # <<>> /\ Top \in Buying(Exempt)
    BY <1>2, <1>16, PopFrame, FrameAt DEF PurchaseDeposit, At, Top, StackInv
  <2>2. Top.had + Top.n \in Nat
    BY <2>1 DEF Buying
  <2>3. AccountInv'
    BY <1>2, <1>16, <2>2, BookInv DEF PurchaseDeposit
  <2>4. calls' \in Seq(Frame(Exempt)) /\ UNCHANGED <<wallet, overdrawn>>
    BY <1>2, <1>16, <2>1, EndStack DEF PurchaseDeposit, StackInv
  <2> QED
    BY <1>2, <2>3, <2>4, QuietInv
<1> QED
  BY <1>5, <1>6, <1>7, <1>8, <1>9, <1>10, <1>11, <1>12, <1>13, <1>14, <1>15, <1>16
  DEF AccountStep, AccountCommand

(* What is won stays a number for each winner who is not paid yet.         *)
LEMMA FewerPrizes ==
  ASSUME NEW won \in Prizes, NEW p
  PROVE  [x \in DOMAIN won \ {p} |-> won[x]] \in Prizes
<1>1. PICK S \in SUBSET People : won \in [S -> Nat]
  BY DEF Prizes
<1>2. [x \in DOMAIN won \ {p} |-> won[x]] \in [S \ {p} -> Nat]
  BY <1>1
<1>3. S \ {p} \in SUBSET People
  OBVIOUS
<1> QED
  BY <1>2, <1>3 DEF Prizes

(* The frame of a race after a winner was paid.                            *)
LEMMA PaidOut ==
  ASSUME NEW r \in Racing, NEW rest \in Prizes, NEW n \in Nat
  PROVE  [r EXCEPT !.won = rest, !.paid = r.paid + n] \in Racing
<1> DEFINE q == [r EXCEPT !.won = rest]
<1>1. q \in Racing /\ r.paid + n \in Nat
  BY DEF Racing
<1>2. [r EXCEPT !.won = rest, !.paid = r.paid + n] = [q EXCEPT !.paid = r.paid + n]
  BY DEF Racing
<1> HIDE DEF q
<1>3. ASSUME NEW m \in Nat PROVE [q EXCEPT !.paid = m] \in Racing
  BY <1>1, <1>3 DEF Racing
<1> QED
  BY <1>1, <1>2, <1>3

(* Commands of lib-shiprace.rb.                                            *)
LEMMA RaceStepInv ==
  ASSUME IInv, RaceStep, UNCHANGED <<world, account, cargoVars>>
  PROVE  IInv'
<1>1. AccountInv' /\ JobInv'
  BY DEF IInv, AccountInv, JobInv, cargoVars
<1>2. WalletInv /\ RaceInv /\ StackInv
  BY DEF IInv, StackInv
<1>3. SUFFICES RaceInv' /\ WalletInv' /\ StackInv'
  BY <1>1 DEF IInv, StackInv
<1>4. ASSUME NEW p \in Persons \ {RaceObj}, NEW n \in Typed, Purchase(p, n)
      PROVE  RaceInv' /\ WalletInv' /\ StackInv'
  <2>1. p \in People /\ n \in Nat /\ wallet[p] >= n
    BY <1>2, <1>4, InputTypes DEF Purchase, WalletInv
  <2> DEFINE f == [at |-> "betting", who |-> p, n |-> n, cash |-> wallet[p]]
  <2>2. f \in Frame(Exempt)
    BY <1>2, <2>1 DEF WalletInv, Frame, Spending
  <2>3. RaceInv'
    BY <1>2, <1>4, <2>1 DEF RaceInv, Purchase, Ticket
  <2>4. Begin(f) /\ UNCHANGED walletVars
    BY <1>4 DEF Purchase
  <2> QED
    BY <1>2, <2>2, <2>3, <2>4, BeginInv
<1>5. CASE BetSave
  <2>1. calls # <<>> /\ Top \in Spending(Exempt)
    BY <1>2, <1>5, PopFrame, FrameAt DEF BetSave, At, Top, StackInv
  <2>2. Exempt' = Exempt /\ RaceInv'
    BY <1>2, <1>5 DEF BetSave, Exempt, RaceInv, raceVars
  <2>3. /\ Top.who \in People /\ Top.cash - Top.n \in Int
        /\ Top.who \in Exempt \/ Top.cash - Top.n >= 0
    BY <2>1 DEF Spending
  <2>4. WalletInv'
    BY <1>2, <1>5, <2>2, <2>3, SaveInv DEF BetSave
  <2> QED
    BY <1>2, <1>5, <2>1, <2>2, <2>4, EndStack DEF BetSave, StackInv
<1>6. ASSUME NEW odds \in Odds, RunRace(odds)
      PROVE  RaceInv' /\ WalletInv' /\ StackInv'
  <2> DEFINE f == [at |-> "starting", odds |-> odds, pot |-> pot, bank |-> wallet[RaceObj]]
  <2>1. f \in Frame(Exempt)
    BY <1>2, ShipRacesAssumption DEF WalletInv, RaceInv, Frame, Starting
  <2>2. RaceInv' /\ Begin(f) /\ UNCHANGED walletVars
    BY <1>2, <1>6 DEF RunRace, RaceInv, raceVars
  <2> QED
    BY <1>2, <2>1, <2>2, BeginInv
<1>10. CASE LoadWinners
  <2>1. calls # <<>> /\ Top \in Starting
    BY <1>2, <1>10, PopFrame, FrameAt DEF LoadWinners, At, Top, StackInv
  <2>2. Exempt' = Exempt /\ RaceInv' /\ WalletInv'
    BY <1>2, <1>10 DEF LoadWinners, Exempt, RaceInv, raceVars, WalletInv, walletVars
  <2>3. PICK winners \in SUBSET DOMAIN tickets :
          calls' = <<[at |-> "racing", won |-> [p \in winners |-> tickets[p] * Top.odds],
                      pot |-> Top.pot, bank |-> Top.bank, paid |-> 0]>> \o Tail(calls)
    BY <1>10 DEF LoadWinners
  <2> DEFINE won == [p \in winners |-> tickets[p] * Top.odds]
             f == [at |-> "racing", won |-> won, pot |-> Top.pot, bank |-> Top.bank, paid |-> 0]
  <2>4. won \in Prizes
    <3>1. Top.odds \in Nat /\ winners \in SUBSET People
      BY <1>2, <2>1 DEF RaceInv, Starting
    <3>2. \A p \in winners : tickets[p] \in Nat
      BY <1>2 DEF RaceInv
    <3>3. \A p \in winners : tickets[p] * Top.odds \in Nat
      BY <3>1, <3>2
    <3>4. won \in [winners -> Nat]
      BY <3>3
    <3> QED
      BY <3>1, <3>4 DEF Prizes
  <2>5. f \in Frame(Exempt)
    BY <2>1, <2>4 DEF Starting, Frame, Racing
  <2>6. Tail(calls) \in Seq(Frame(Exempt))
    BY <1>2, <2>1, PopFrame DEF StackInv
  <2>7. calls' \in Seq(Frame(Exempt))
    BY <2>3, <2>5, <2>6, PushFrame
  <2> QED
    BY <2>2, <2>7 DEF StackInv
<1>7. CASE PayWinner
  <2>1. calls # <<>> /\ Top \in Racing /\ Top.at = "racing"
    BY <1>2, <1>7, PopFrame, FrameAt DEF PayWinner, At, Top, StackInv
  <2>2. Exempt' = Exempt /\ RaceInv'
    BY <1>2, <1>7 DEF PayWinner, Exempt, RaceInv, raceVars
  <2>3. PICK p \in DOMAIN Top.won :
          /\ wallet' = [wallet EXCEPT ![p] = @ + Top.won[p]]
          /\ calls' = <<[Top EXCEPT !.won = [x \in DOMAIN @ \ {p} |-> @[x]],
                                   !.paid = @ + Top.won[p]]>> \o Tail(calls)
    BY <1>7 DEF PayWinner
  <2>4. p \in People /\ Top.won[p] \in Nat /\ Top.won \in Prizes
    BY <2>1, <2>3 DEF Racing, Prizes
  <2>5. WalletInv'
    <3>1. wallet' = [wallet EXCEPT ![p] = @ + Top.won[p]]
      BY <2>3
    <3> HIDE DEF Top
    <3>2. \A n \in Nat : wallet' = [wallet EXCEPT ![p] = @ + n] => WalletInv'
      BY <1>2, <2>2, <2>4 DEF WalletInv
    <3> QED
      BY <2>4, <3>1, <3>2
  <2> DEFINE rest == [x \in DOMAIN Top.won \ {p} |-> Top.won[x]]
             f == [Top EXCEPT !.won = rest, !.paid = Top.paid + Top.won[p]]
  <2>6. rest \in Prizes
    BY <2>4, FewerPrizes
  <2>7. calls' = <<f>> \o Tail(calls)
    BY <2>1, <2>3 DEF Racing
  <2> HIDE DEF rest
  <2>8. f \in Frame(Exempt)
    BY <2>1, <2>4, <2>6, PaidOut DEF Frame
  <2>9. Tail(calls) \in Seq(Frame(Exempt))
    BY <1>2, <2>1, PopFrame DEF StackInv
  <2>10. calls' \in Seq(Frame(Exempt))
    BY <2>7, <2>8, <2>9, PushFrame
  <2> QED
    BY <2>2, <2>5, <2>10 DEF StackInv
<1>8. CASE BankSave
  <2>1. calls # <<>> /\ Top \in Racing
    BY <1>2, <1>8, PopFrame, FrameAt DEF BankSave, At, Top, StackInv
  <2>2. Exempt' = Exempt /\ RaceInv'
    BY <1>2, <1>8 DEF BankSave, Exempt, RaceInv, raceVars
  <2>3. Top.bank + Top.pot - Top.paid \in Int /\ RaceObj \in People /\ RaceObj \in Exempt
    BY <2>1, ShipRacesAssumption DEF Racing, Exempt
  <2>4. WalletInv'
    BY <1>2, <1>8, <2>2, <2>3, SaveInv DEF BankSave
  <2>5. [Top EXCEPT !.at = "raced"] \in Frame(Exempt)
    BY <2>1 DEF Frame, Racing
  <2> QED
    BY <1>2, <1>8, <2>1, <2>2, <2>4, <2>5, GoStack DEF BankSave, StackInv
<1>9. CASE DestroyTickets
  <2>1. calls # <<>>
    BY <1>9 DEF DestroyTickets, At
  <2>2. RaceInv'
    BY <1>9 DEF DestroyTickets, RaceInv
  <2>3. calls' \in Seq(Frame(Exempt)) /\ UNCHANGED <<wallet, overdrawn>>
    BY <1>2, <1>9, <2>1, EndStack DEF DestroyTickets, StackInv
  <2> QED
    BY <1>2, <2>2, <2>3, QuietInv
<1> QED
  BY <1>4, <1>5, <1>6, <1>7, <1>8, <1>9, <1>10 DEF RaceStep, RaceCommand

(* A job is saved, and what is saved is a job.                             *)
LEMMA KeepJob ==
  ASSUME JobInv, NEW j, NEW kept, j \in DOMAIN job => kept \in Job,
         job' = [job EXCEPT ![j] = kept]
  PROVE  JobInv'
<1>1. DOMAIN job' = DOMAIN job
  OBVIOUS
<1>2. ASSUME NEW i \in DOMAIN job
      PROVE  job'[i] \in Job
  <2>1. CASE i = j
    BY <1>2, <2>1 DEF JobInv
  <2>2. CASE i # j
    BY <1>2, <2>2 DEF JobInv
  <2> QED
    BY <2>1, <2>2
<1>3. job' \in [DOMAIN job -> Job]
  BY <1>2
<1> QED
  BY <1>1, <1>3 DEF JobInv

(* A job that is loaded, and may be taken over, is a job.                  *)
LEMMA LoadedJob ==
  ASSUME NEW r \in Job, NEW s \in Ships, NEW v \in People \cup {Nobody}
  PROVE  [r EXCEPT !.loaded_on = s, !.assigned_to = v] \in Job
<1> DEFINE q == [r EXCEPT !.loaded_on = s]
<1>1. q \in Job
  BY DEF Job
<1>2. [r EXCEPT !.loaded_on = s, !.assigned_to = v] = [q EXCEPT !.assigned_to = v]
  BY DEF Job
<1> HIDE DEF q
<1> QED
  BY <1>1, <1>2 DEF Job

(* A job that nobody claims is a job.                                      *)
LEMMA UnclaimedJob ==
  ASSUME NEW r \in Job
  PROVE  [r EXCEPT !.claimed_by = Nobody, !.assigned_to = Nobody] \in Job
<1> DEFINE q == [r EXCEPT !.claimed_by = Nobody]
<1>1. q \in Job
  BY DEF Job
<1>2. [r EXCEPT !.claimed_by = Nobody, !.assigned_to = Nobody]
        = [q EXCEPT !.assigned_to = Nobody]
  BY DEF Job
<1> HIDE DEF q
<1> QED
  BY <1>1, <1>2 DEF Job

(* The commands of cargojobs.rb that save jobs at once.                    *)
LEMMA CargoAtOnceInv ==
  ASSUME JobInv, StackInv, WalletInv, NEW j,
         \/ j \in Jobs /\ Generate(j)
         \/ j \in DOMAIN job /\ Expire(j)
         \/ j \in DOMAIN job /\ \E p \in Persons : Unclaim(p, j)
         \/ j \in DOMAIN job /\ \E p \in Persons : \E v \in Persons : Assign(p, j, v)
  PROVE  JobInv' /\ WalletInv' /\ StackInv'
<1>1. UNCHANGED <<wallet, overdrawn, calls>>
  BY DEF Generate, Expire, Unclaim, Assign, AtOnce, walletVars
<1>2. WalletInv' /\ StackInv'
  BY <1>1, QuietInv DEF StackInv
<1>3. CASE j \in Jobs /\ Generate(j)
  BY <1>2, <1>3 DEF Generate, JobInv, Job
<1>4. CASE Expire(j)
  BY <1>2, <1>4 DEF Expire, JobInv
<1>5. CASE j \in DOMAIN job /\ \E p \in Persons : Unclaim(p, j)
  <2> DEFINE kept == [job[j] EXCEPT !.claimed_by = Nobody, !.assigned_to = Nobody]
  <2>1. job[j] \in Job
    BY <1>5 DEF JobInv
  <2>2. kept \in Job
    BY <2>1, UnclaimedJob
  <2>3. job' = [job EXCEPT ![j].claimed_by = Nobody, ![j].assigned_to = Nobody]
    BY <1>5 DEF Unclaim
  <2>4. job' = [job EXCEPT ![j] = kept]
    BY <1>5, <2>1, <2>3 DEF Job
  <2> QED
    BY <1>2, <2>2, <2>4, KeepJob
<1>6. CASE j \in DOMAIN job /\ \E p \in Persons : \E v \in Persons : Assign(p, j, v)
  <2>1. PICK v \in Persons : job' = [job EXCEPT ![j].assigned_to = v]
    BY <1>6 DEF Assign
  <2> DEFINE kept == [job[j] EXCEPT !.assigned_to = v]
  <2>2. job[j] \in Job /\ v \in People
    BY <1>6, InputTypes DEF JobInv
  <2>3. kept \in Job /\ job' = [job EXCEPT ![j] = kept]
    BY <2>1, <2>2 DEF Job
  <2> QED
    BY <1>2, <2>3, KeepJob
<1> QED
  BY <1>3, <1>4, <1>5, <1>6

(* The commands of cargojobs.rb that stop at softcode.                     *)
LEMMA CargoBeginInv ==
  ASSUME JobInv, StackInv, WalletInv, NEW j \in DOMAIN job,
         \/ \E p \in Persons : Claim(p, j) \/ Unassign(p, j)
         \/ \E p \in Persons : \E s \in Ships : Load(p, j, s)
         \/ Deliver(j)
         \/ \E s \in Ships : Transfer(j, s)
  PROVE  JobInv' /\ WalletInv' /\ StackInv'
<1>1. UNCHANGED walletVars /\ UNCHANGED job
  BY DEF Claim, Unassign, Load, Deliver, Transfer, cargoVars
<1>2. JobInv'
  BY <1>1 DEF JobInv
<1>3. j \in Jobs /\ job[j] \in Job
  BY DEF JobInv
<1>4. ASSUME NEW f \in Claiming \cup Unassigning \cup Loading \cup Delivering \cup Moving,
             Begin(f)
      PROVE  JobInv' /\ WalletInv' /\ StackInv'
  <2>1. f \in Frame(Exempt)
    BY DEF Frame
  <2> QED
    BY <1>1, <1>2, <1>4, <2>1, BeginInv
<1>5. ASSUME NEW p \in Persons, Claim(p, j) \/ Unassign(p, j)
      PROVE  JobInv' /\ WalletInv' /\ StackInv'
  <2>1. p \in People
    BY InputTypes
  <2>2. /\ [at |-> "claiming", who |-> p, job |-> j] \in Claiming
        /\ [at |-> "unassigning", job |-> j] \in Unassigning
    BY <1>3, <2>1 DEF Claiming, Unassigning
  <2> QED
    BY <1>4, <1>5, <2>2 DEF Claim, Unassign
<1>6. ASSUME NEW p \in Persons, NEW s \in Ships, Load(p, j, s)
      PROVE  JobInv' /\ WalletInv' /\ StackInv'
  <2> DEFINE f == [at |-> "boarding", who |-> p, job |-> j, ship |-> s,
                   took |-> job[j].assigned_to \notin {Nobody, p}]
  <2>1. f \in Loading
    BY <1>3, InputTypes DEF Loading
  <2>2. Begin(f)
    BY <1>6 DEF Load, Handle
  <2> QED
    BY <1>4, <2>1, <2>2
<1>7. CASE Deliver(j)
  <2> DEFINE f == [at |-> "landing", job |-> j, pays |-> job[j].claimed_by,
                   ship |-> job[j].loaded_on]
  <2>1. f \in Delivering
    BY <1>3 DEF Delivering, Job
  <2>2. Begin(f)
    BY <1>7 DEF Deliver, Handle
  <2> QED
    BY <1>4, <2>1, <2>2
<1>8. ASSUME NEW s \in Ships, Transfer(j, s)
      PROVE  JobInv' /\ WalletInv' /\ StackInv'
  <2> DEFINE f == [at |-> "mooring", job |-> j, from |-> job[j].loaded_on, ship |-> s]
  <2>1. f \in Moving
    BY <1>3 DEF Moving, Job
  <2>2. Begin(f)
    BY <1>8 DEF Transfer, Handle
  <2> QED
    BY <1>4, <2>1, <2>2
<1> QED
  BY <1>5, <1>6, <1>7, <1>8

(* The steps within a command of cargojobs.rb that save no job.            *)
LEMMA CargoGoInv ==
  ASSUME JobInv, StackInv, WalletInv,
         \/ LoadRefused \/ LoadList \/ LoadCur
         \/ DeliverRefused \/ DeliverLand \/ DeliverList \/ DeliverCur
         \/ TransferRefused \/ TransferOnList \/ TransferOnCur
         \/ TransferOffList \/ TransferOffCur
  PROVE  JobInv' /\ WalletInv' /\ StackInv'
<1>1. UNCHANGED <<job, wallet, overdrawn>>
  BY DEF LoadRefused, LoadList, LoadCur, DeliverRefused, DeliverLand, DeliverList,
         DeliverCur, TransferRefused, TransferOnList, TransferOnCur, TransferOffList,
         TransferOffCur, cargoVars, walletVars
<1>2. SUFFICES calls' \in Seq(Frame(Exempt))
  BY <1>1, QuietInv DEF JobInv
<1>3. CASE LoadRefused \/ DeliverRefused \/ TransferRefused
  BY <1>3, EndStack DEF LoadRefused, DeliverRefused, TransferRefused, At, StackInv
<1>4. CASE LoadList \/ LoadCur
  <2>1. calls # <<>> /\ Top \in Loading
    BY <1>4, PopFrame, FrameAt DEF LoadList, LoadCur, At, Top, StackInv
  <2>2. \A to \in {"listed", "weighed"} : [Top EXCEPT !.at = to] \in Frame(Exempt)
    BY <2>1 DEF Frame, Loading
  <2> QED
    BY <1>4, <2>1, <2>2, GoStack DEF LoadList, LoadCur, StackInv
<1>5. CASE DeliverLand \/ DeliverList \/ DeliverCur
  <2>1. calls # <<>> /\ Top \in Delivering
    BY <1>5, PopFrame, FrameAt DEF DeliverLand, DeliverList, DeliverCur, At, Top, StackInv
  <2>2. \A to \in {"paying", "unloading", "delisted", "lightened"} :
          [Top EXCEPT !.at = to] \in Frame(Exempt)
    BY <2>1 DEF Frame, Delivering
  <2> QED
    BY <1>5, <2>1, <2>2, GoStack DEF DeliverLand, DeliverList, DeliverCur, StackInv
<1>6. CASE TransferOnList \/ TransferOnCur \/ TransferOffList \/ TransferOffCur
  <2>1. calls # <<>> /\ Top \in Moving
    BY <1>6, PopFrame, FrameAt DEF TransferOnList, TransferOnCur, TransferOffList,
       TransferOffCur, At, Top, StackInv
  <2>2. \A to \in {"on_list", "on_scales", "off_list", "moved"} :
          [Top EXCEPT !.at = to] \in Frame(Exempt)
    BY <2>1 DEF Frame, Moving
  <2> QED
    BY <1>6, <2>1, <2>2, GoStack DEF TransferOnList, TransferOnCur, TransferOffList,
       TransferOffCur, StackInv
<1> QED
  BY <1>3, <1>4, <1>5, <1>6

(* The steps that end a command of cargojobs.rb and save its job.          *)
LEMMA CargoSaveInv ==
  ASSUME JobInv, StackInv, WalletInv,
         ClaimSave \/ UnassignSave \/ LoadSave \/ DeliverSave \/ TransferSave
  PROVE  JobInv' /\ WalletInv' /\ StackInv'
<1>1. UNCHANGED <<wallet, overdrawn>> /\ calls # <<>> /\ End
  BY DEF ClaimSave, UnassignSave, LoadSave, DeliverSave, TransferSave, At, walletVars
<1>2. WalletInv' /\ StackInv'
  BY <1>1, EndStack, QuietInv DEF StackInv
<1>3. Top \in Frame(Exempt)
  BY <1>1, PopFrame DEF Top, StackInv
<1>4. \A j \in DOMAIN job : job[j] \in Job
  BY DEF JobInv
<1> DEFINE j == Top.job
<1>5. CASE j \notin DOMAIN job
  <2>1. job' = job
    BY <1>5 DEF JobInv, ClaimSave, UnassignSave, LoadSave, DeliverSave, TransferSave
  <2> QED
    BY <1>2, <2>1 DEF JobInv
<1>6. ASSUME j \in DOMAIN job
      PROVE  \E kept \in Job : job' = [job EXCEPT ![j] = kept]
  <2>1. job[j] \in Job
    BY <1>4, <1>6
  <2>2. CASE ClaimSave
    <3>1. Top.who \in People
      BY <1>3, <2>2, FrameAt DEF ClaimSave, At, Top, Claiming
    <3>2. job' = [job EXCEPT ![j] = [job[j] EXCEPT !.claimed_by = Top.who]]
      BY <2>1, <2>2 DEF ClaimSave, Job
    <3> QED
      BY <2>1, <3>1, <3>2 DEF Job
  <2>3. CASE UnassignSave
    <3>1. job' = [job EXCEPT ![j] = [job[j] EXCEPT !.assigned_to = Nobody]]
      BY <2>1, <2>3 DEF UnassignSave, Job
    <3> QED
      BY <2>1, <3>1 DEF Job
  <2>4. CASE LoadSave
    <3> DEFINE v == IF Top.took THEN Top.who ELSE job[j].assigned_to
    <3>1. Top.ship \in Ships /\ v \in People \cup {Nobody}
      BY <1>3, <2>1, <2>4, FrameAt DEF LoadSave, At, Top, Loading, Job
    <3>2. job' = [job EXCEPT ![j].loaded_on = Top.ship, ![j].assigned_to = v]
      BY <1>6, <2>1, <2>4 DEF LoadSave, Job
    <3> HIDE DEF v, j
    <3>3. job' = [job EXCEPT ![j] = [job[j] EXCEPT !.loaded_on = Top.ship,
                                                   !.assigned_to = v]]
      BY <1>6, <2>1, <3>2 DEF Job
    <3>4. [job[j] EXCEPT !.loaded_on = Top.ship, !.assigned_to = v] \in Job
      BY <2>1, <3>1, LoadedJob
    <3> QED
      BY <3>3, <3>4
  <2>5. CASE DeliverSave
    <3>1. job' = [job EXCEPT ![j] = [job[j] EXCEPT !.completed = TRUE]]
      BY <2>1, <2>5 DEF DeliverSave, Job
    <3> QED
      BY <2>1, <3>1 DEF Job
  <2>6. CASE TransferSave
    <3>1. Top.ship \in Ships
      BY <1>3, <2>6, FrameAt DEF TransferSave, At, Top, Moving
    <3>2. job' = [job EXCEPT ![j] = [job[j] EXCEPT !.loaded_on = Top.ship]]
      BY <2>1, <2>6 DEF TransferSave, Job
    <3> QED
      BY <2>1, <3>1, <3>2 DEF Job
  <2> QED
    BY <2>2, <2>3, <2>4, <2>5, <2>6
<1>7. CASE j \in DOMAIN job
  BY <1>2, <1>6, <1>7, KeepJob
<1> QED
  BY <1>5, <1>7

(* Commands of cargojobs.rb.                                               *)
LEMMA CargoStepInv ==
  ASSUME IInv, CargoStep, UNCHANGED <<world, account, raceVars>>
  PROVE  IInv'
<1>1. AccountInv' /\ RaceInv'
  BY DEF IInv, AccountInv, RaceInv, raceVars
<1>2. WalletInv /\ JobInv /\ StackInv
  BY DEF IInv, StackInv
<1>3. SUFFICES JobInv' /\ WalletInv' /\ StackInv'
  BY <1>1 DEF IInv, StackInv
<1>4. CASE DeliverPay
  <2>1. calls # <<>> /\ Top \in Delivering
    BY <1>2, <1>4, PopFrame, FrameAt DEF DeliverPay, At, Top, StackInv
  <2>2. Exempt' = Exempt /\ JobInv'
    BY <1>2, <1>4 DEF DeliverPay, Exempt, JobInv
  <2>3. Top.pays \in People /\ Price \in Nat
    BY <1>4, <2>1, CargoJobsAssumption DEF DeliverPay, Delivering
  <2>4. WalletInv'
    BY <1>2, <1>4, <2>2, <2>3 DEF DeliverPay, WalletInv
  <2>5. [Top EXCEPT !.at = "unloading"] \in Frame(Exempt)
    BY <2>1 DEF Frame, Delivering
  <2> QED
    BY <1>2, <1>4, <2>1, <2>2, <2>4, <2>5, GoStack DEF DeliverPay, StackInv
<1>5. CASE CargoCommand
  <2>1. CASE \E j \in Jobs \cap world : Generate(j)
    BY <1>2, <2>1, CargoAtOnceInv
  <2>2. CASE \E j \in DOMAIN job, p \in Persons :
               Unclaim(p, j) \/ \E v \in Persons : Assign(p, j, v)
    BY <1>2, <2>2, CargoAtOnceInv
  <2>3. CASE \E j \in DOMAIN job, p \in Persons :
               \/ Claim(p, j) \/ Unassign(p, j)
               \/ \E s \in Ships : Load(p, j, s)
    BY <1>2, <2>3, CargoBeginInv
  <2>4. CASE \E j \in DOMAIN job : Deliver(j) \/ \E s \in Ships : Transfer(j, s)
    BY <1>2, <2>4, CargoBeginInv
  <2> QED
    BY <1>5, <2>1, <2>2, <2>3, <2>4 DEF CargoCommand
<1>6. CASE \E j \in DOMAIN job : Expire(j)
  BY <1>2, <1>6, CargoAtOnceInv
<1> QED
  BY <1>2, <1>4, <1>5, <1>6, CargoGoInv, CargoSaveInv DEF CargoStep

-----------------------------------------------------------------------------
(* The specification.                                                      *)

(* In the beginning nothing was ever granted.                              *)
LEMMA InitInv == Init => IInv
<1> SUFFICES ASSUME Init PROVE IInv
  OBVIOUS
<1>1. WalletInv
  BY DEF Init, WalletsInit, WalletInv
<1>2. AccountInv
  BY DEF Init, AccountsInit, AccountInv
<1>3. RaceInv
  BY DEF Init, ShipRacesInit, RaceInv
<1>4. JobInv
  BY DEF Init, CargoInit, JobInv
<1>5. calls \in Seq(Frame(Exempt))
  BY EmptySeq DEF Init, WalletsInit
<1> QED
  BY <1>1, <1>2, <1>3, <1>4, <1>5 DEF IInv

(* No step, and no failure, disturbs the invariant.                        *)
LEMMA NextInv == IInv /\ [Next]_vars => IInv'
<1> SUFFICES ASSUME IInv, [Next]_vars PROVE IInv'
  OBVIOUS
<1>1. WalletInv /\ AccountInv /\ RaceInv /\ JobInv /\ StackInv
  BY DEF IInv, StackInv
<1>2. ASSUME UNCHANGED <<wallet, overdrawn, account, job, raceVars>>,
             calls' \in Seq(Frame(Exempt))
      PROVE  IInv'
  <2>1. AccountInv' /\ RaceInv' /\ JobInv'
    BY <1>1, <1>2 DEF AccountInv, RaceInv, JobInv, raceVars
  <2>2. WalletInv' /\ StackInv'
    BY <1>1, <1>2, QuietInv
  <2> QED
    BY <2>1, <2>2 DEF IInv, StackInv
<1>3. CASE WalletStep /\ UNCHANGED <<world, account, cargoVars, raceVars>>
  BY <1>3, WalletStepInv
<1>4. CASE AccountStep /\ UNCHANGED <<world, cargoVars, raceVars>>
  BY <1>4, AccountStepInv
<1>5. CASE CargoStep /\ UNCHANGED <<world, account, raceVars>>
  BY <1>5, CargoStepInv
<1>6. CASE RaceStep /\ UNCHANGED <<world, account, cargoVars>>
  BY <1>6, RaceStepInv
<1>7. CASE Abort
  <2>1. UNCHANGED <<wallet, overdrawn, account, job, raceVars>>
    BY <1>7 DEF Abort, Lost
  <2>2. calls' \in Seq(Frame(Exempt))
    BY <1>1, <1>7, EndStack DEF Abort, StackInv
  <2> QED
    BY <1>2, <2>1, <2>2
<1>8. CASE Crash
  <2>1. UNCHANGED <<wallet, overdrawn, account, job, raceVars>>
    BY <1>8 DEF Crash, Lost
  <2>2. calls' \in Seq(Frame(Exempt))
    BY <1>8, EmptySeq DEF Crash
  <2> QED
    BY <1>2, <2>1, <2>2
<1>9. CASE UNCHANGED vars
  <2>1. UNCHANGED <<wallet, overdrawn, account, job, raceVars, calls>>
    BY <1>9 DEF vars, cargoVars
  <2> QED
    BY <1>1, <1>2, <2>1 DEF StackInv
<1> QED
  BY <1>3, <1>4, <1>5, <1>6, <1>7, <1>8, <1>9 DEF Next, Step

(* No one spends more than he has and no account is overdrawn, whatever    *)
(* commands of the economy run within each other and wherever they fail.   *)
THEOREM NoOneOverdraws == Spec => []NoOverdraft
<1>1. IInv => NoOverdraft
  BY DEF IInv, WalletInv, AccountInv, NoOverdraft
<1> QED
  BY <1>1, InitInv, NextInv, PTL DEF Spec

-----------------------------------------------------------------------------
(* The types of what the invariant does not need.                          *)

BooksInv ==
  /\ overdrawn \subseteq People
  /\ issued \in Int \cup {Unknown}
  /\ expired \subseteq DOMAIN job
  /\ onboard \in [Ships -> [Jobs -> Nat]]
  /\ cur \in [Ships -> Int]
  /\ paid \in [Jobs -> Nat]
  /\ disturbed \subseteq Jobs /\ repeated \subseteq Jobs

(* What was granted is a number, or it is not known any more.              *)
LEMMA IssuedType ==
  ASSUME issued \in Int \cup {Unknown},
         \/ UNCHANGED issued
         \/ \E p, read, balance : Save(p, read, balance)
         \/ \E n \in Int : Issue(n)
         \/ issued' = Unknown
  PROVE  issued' \in Int \cup {Unknown}
  BY DEF Save, Issue

(* The commands that save no cargo keep the types.                         *)
LEMMA PursesType ==
  ASSUME IInv, BooksInv, WalletStep \/ AccountStep \/ RaceStep, UNCHANGED cargoVars
  PROVE  BooksInv'
<1>1. SUFFICES overdrawn' \subseteq People /\ issued' \in Int \cup {Unknown}
  BY DEF BooksInv, cargoVars
<1>2. issued \in Int \cup {Unknown} /\ overdrawn \subseteq People
  BY DEF BooksInv
<1>3. CASE WalletStep
  <2>1. CASE WalletCommand
    BY <1>2, <2>1 DEF WalletCommand, Pay, Grant, PutDown, walletVars
  <2>2. CASE PayDebit
    BY <1>2, <2>2, IssuedType DEF PayDebit
  <2>3. CASE PayCredit
    BY <1>2, <2>3 DEF PayCredit
  <2>4. CASE GrantSave
    <3>1. Top \in Granting
      BY <2>4, PopFrame, FrameAt DEF GrantSave, At, Top, IInv
    <3>2. Top.who \in People /\ Top.n \in Int
      BY <3>1 DEF Granting
    <3> QED
      BY <1>2, <2>4, <3>2, IssuedType DEF GrantSave
  <2> QED
    BY <1>3, <2>1, <2>2, <2>3, <2>4 DEF WalletStep
<1>4. CASE AccountStep
  <2>1. CASE AccountCommand
    BY <1>2, <2>1 DEF AccountCommand, AccountDeposit, AccountWithdraw, VendorPurchase, AddAccess,
       RemAccess, AccountOwner, AccountClose, AccountOpen, walletVars
  <2>2. CASE DepositSave \/ WithdrawSave \/ PurchaseSave
    BY <1>2, <2>2, IssuedType DEF DepositSave, WithdrawSave, PurchaseSave
  <2>3. CASE ChangeOwner \/ PurchaseDeposit
    BY <1>2, <2>3 DEF ChangeOwner, PurchaseDeposit, walletVars
  <2> QED
    BY <1>4, <2>1, <2>2, <2>3 DEF AccountStep
<1>5. CASE RaceStep
  <2>1. CASE RaceCommand
    BY <1>2, <2>1 DEF RaceCommand, Purchase, RunRace, walletVars
  <2>2. CASE BetSave \/ BankSave
    BY <1>2, <2>2, IssuedType DEF BetSave, BankSave
  <2>3. CASE LoadWinners \/ PayWinner \/ DestroyTickets
    BY <1>2, <2>3 DEF LoadWinners, PayWinner, DestroyTickets, walletVars
  <2> QED
    BY <1>5, <2>1, <2>2, <2>3 DEF RaceStep
<1> QED
  BY <1>3, <1>4, <1>5

(* A list of cargo stays one, whatever is put on it or taken off.          *)
LEMMA ListType ==
  ASSUME onboard \in [Ships -> [Jobs -> Nat]], NEW s, NEW j \in Jobs,
         Listed(s, j) \/ Delisted(s, j)
  PROVE  onboard' \in [Ships -> [Jobs -> Nat]]
<1>1. CASE s \in Ships
  <2>1. onboard[s] \in [Jobs -> Nat] /\ onboard[s][j] \in Nat
    BY <1>1
  <2>2. PICK n \in Nat : onboard' = [onboard EXCEPT ![s] = [onboard[s] EXCEPT ![j] = n]]
    <3>1. CASE Listed(s, j)
      <4> DEFINE n == onboard[s][j] + 1
      <4>1. n \in Nat /\ onboard' = [onboard EXCEPT ![s][j] = n]
        BY <2>1, <3>1 DEF Listed
      <4> HIDE DEF n
      <4> QED
        BY <1>1, <2>1, <4>1
    <3>2. CASE Delisted(s, j)
      BY <1>1, <2>1, <3>2 DEF Delisted
    <3> QED
      BY <3>1, <3>2
  <2>3. [onboard[s] EXCEPT ![j] = n] \in [Jobs -> Nat]
    BY <2>1
  <2> QED
    BY <1>1, <2>2, <2>3
<1>2. CASE s \notin Ships
  BY <1>2 DEF Listed, Delisted
<1> QED
  BY <1>1, <1>2

(* So does the sum of its sizes.                                           *)
LEMMA WeightType ==
  ASSUME cur \in [Ships -> Int], NEW s, Heavier(s) \/ Lighter(s)
  PROVE  cur' \in [Ships -> Int]
  BY CargoJobsAssumption DEF Heavier, Lighter

(* The frame on top is of a job.                                           *)
LEMMA TopJob ==
  ASSUME IInv, calls # <<>>, Top.at \in Handling
  PROVE  Top.job \in Jobs
<1>1. Top \in Frame(Exempt)
  BY PopFrame DEF IInv, Top
<1>2. Top \in Loading \/ Top \in Delivering \/ Top \in Moving
  BY <1>1, FrameAt DEF Handling, Delivery, PaidFor
<1> QED
  BY <1>2 DEF Loading, Delivering, Moving

(* The commands of cargojobs.rb keep the types.                            *)
LEMMA CargoType ==
  ASSUME IInv, BooksInv, CargoStep
  PROVE  BooksInv'
<1>1. JobInv
  BY DEF IInv
<1>2. CASE CargoCommand
  <2>1. CASE \E j \in Jobs \cap world : Generate(j)
    BY <2>1 DEF Generate, BooksInv, hold, history, walletVars
  <2>2. CASE \E j \in DOMAIN job, p \in Persons : Claim(p, j) \/ Unassign(p, j)
    BY <2>2 DEF Claim, Unassign, BooksInv, cargoVars, walletVars
  <2>3. CASE \E j \in DOMAIN job, p \in Persons :
               Unclaim(p, j) \/ \E v \in Persons : Assign(p, j, v)
    <3>1. DOMAIN job' = DOMAIN job
      BY <1>1, <2>3 DEF Unclaim, Assign, JobInv
    <3> QED
      BY <2>3, <3>1 DEF Unclaim, Assign, BooksInv, hold, history, walletVars
  <2>4. ASSUME NEW j \in DOMAIN job,
               \/ \E p \in Persons, s \in Ships : Load(p, j, s)
               \/ Deliver(j)
               \/ \E s \in Ships : Transfer(j, s)
        PROVE  BooksInv'
    <3>1. disturbed' \subseteq disturbed \cup {j} /\ repeated' \subseteq repeated \cup {j}
      BY <2>4 DEF Load, Deliver, Transfer, Handle
    <3>2. UNCHANGED <<job, expired, hold, paid, walletVars>>
      BY <2>4 DEF Load, Deliver, Transfer
    <3>3. j \in Jobs
      BY <1>1 DEF JobInv
    <3> QED
      BY <3>1, <3>2, <3>3 DEF BooksInv, hold, walletVars
  <2> QED
    BY <1>2, <2>1, <2>2, <2>3, <2>4 DEF CargoCommand
<1>3. CASE \E j \in DOMAIN job : Expire(j)
  BY <1>3 DEF Expire, BooksInv, hold, history, walletVars
<1>4. CASE ClaimSave \/ UnassignSave \/ LoadSave \/ DeliverSave \/ TransferSave
  <2>1. DOMAIN job' = DOMAIN job
    BY <1>1, <1>4 DEF ClaimSave, UnassignSave, LoadSave, DeliverSave, TransferSave, JobInv
  <2> QED
    BY <1>4, <2>1 DEF ClaimSave, UnassignSave, LoadSave, DeliverSave, TransferSave, BooksInv,
       hold, history, walletVars
<1>5. CASE LoadRefused \/ DeliverRefused \/ DeliverLand \/ TransferRefused
  BY <1>5 DEF LoadRefused, DeliverRefused, DeliverLand, TransferRefused, BooksInv, cargoVars,
     walletVars
<1>6. CASE LoadList \/ DeliverList \/ TransferOnList \/ TransferOffList
  <2>1. calls # <<>> /\ Top.at \in Handling
    BY <1>6 DEF LoadList, DeliverList, TransferOnList, TransferOffList, At, Top, Handling,
       Delivery, PaidFor
  <2>2. Top.job \in Jobs
    BY <2>1, TopJob
  <2>3. onboard' \in [Ships -> [Jobs -> Nat]]
    BY <1>6, <2>2, ListType DEF LoadList, DeliverList, TransferOnList, TransferOffList, BooksInv
  <2> QED
    BY <1>6, <2>3 DEF LoadList, DeliverList, TransferOnList, TransferOffList, BooksInv,
       history, walletVars
<1>7. CASE LoadCur \/ DeliverCur \/ TransferOnCur \/ TransferOffCur
  <2>1. cur' \in [Ships -> Int]
    BY <1>7, WeightType DEF LoadCur, DeliverCur, TransferOnCur, TransferOffCur, BooksInv
  <2> QED
    BY <1>7, <2>1 DEF LoadCur, DeliverCur, TransferOnCur, TransferOffCur, BooksInv,
       history, walletVars
<1>8. CASE DeliverPay
  <2>1. Price \in Int
    BY CargoJobsAssumption
  <2>2. issued' \in Int \cup {Unknown}
    BY <1>8, <2>1, IssuedType DEF DeliverPay, BooksInv
  <2>3. paid' \in [Jobs -> Nat]
    <3>1. paid \in [Jobs -> Nat]
      BY DEF BooksInv
    <3>2. paid' = paid \/ paid' = [paid EXCEPT ![Top.job] = paid[Top.job] + 1]
      BY <1>8 DEF DeliverPay
    <3> QED
      BY <3>1, <3>2
  <2> QED
    BY <1>8, <2>2, <2>3 DEF DeliverPay, BooksInv, hold
<1> QED
  BY <1>2, <1>3, <1>4, <1>5, <1>6, <1>7, <1>8 DEF CargoStep

(* A failure keeps them: the frames that are lost are of jobs.             *)
LEMMA LostType ==
  ASSUME IInv, BooksInv, NEW lost \in SUBSET Frame(Exempt), Lost(lost)
  PROVE  BooksInv'
<1>1. ASSUME NEW f \in lost, f.at \in HalfDone PROVE f.job \in Jobs
  <2>1. f \in Loading \/ f \in Delivering \/ f \in Moving
    BY <1>1, FrameAt DEF HalfDone, PaidFor
  <2> QED
    BY <2>1 DEF Loading, Delivering, Moving
<1>2. disturbed' \subseteq Jobs /\ repeated' \subseteq Jobs
  BY <1>1 DEF Lost, BooksInv, HalfDone
<1>3. issued' \in Int \cup {Unknown}
  BY IssuedType DEF Lost, BooksInv
<1> QED
  BY <1>2, <1>3 DEF Lost, BooksInv, hold

(* Every step keeps the types.                                             *)
LEMMA BooksNext == IInv /\ BooksInv /\ [Next]_vars => BooksInv'
<1> SUFFICES ASSUME IInv, BooksInv, [Next]_vars PROVE BooksInv'
  OBVIOUS
<1>1. CASE WalletStep /\ UNCHANGED <<world, account, cargoVars, raceVars>>
  BY <1>1, PursesType
<1>2. CASE AccountStep /\ UNCHANGED <<world, cargoVars, raceVars>>
  BY <1>2, PursesType
<1>3. CASE RaceStep /\ UNCHANGED <<world, account, cargoVars>>
  BY <1>3, PursesType
<1>4. CASE CargoStep
  BY <1>4, CargoType
<1>5. CASE Abort
  <2>1. {Top} \subseteq Frame(Exempt)
    BY <1>5, PopFrame DEF Abort, Top, IInv
  <2> QED
    BY <1>5, <2>1, LostType DEF Abort
<1>6. CASE Crash
  <2>1. Range(calls) \subseteq Frame(Exempt)
    <3>1. \A i \in DOMAIN calls : calls[i] \in Frame(Exempt)
      BY DEF IInv
    <3> QED
      BY <3>1 DEF Range
  <2> QED
    BY <1>6, <2>1, LostType DEF Crash
<1>7. CASE UNCHANGED vars
  BY <1>7 DEF vars, cargoVars, BooksInv
<1> QED
  BY <1>1, <1>2, <1>3, <1>4, <1>5, <1>6, <1>7 DEF Next, Step

(* In the beginning nothing is on board.                                   *)
LEMMA BooksInit == Init => BooksInv
  BY DEF Init, WalletsInit, CargoInit, BooksInv

(* Every variable of the economy keeps its type: no wallet, account, hold  *)
(* or job is ever saved that is not one, also when a command fails.        *)
THEOREM BooksAreWellTyped == Spec => []TypeOK
<1>1. IInv /\ BooksInv => TypeOK
  BY DEF IInv, WalletInv, AccountInv, RaceInv, JobInv, BooksInv, TypeOK
<1> QED
  BY <1>1, InitInv, NextInv, BooksInit, BooksNext, PTL DEF Spec

-----------------------------------------------------------------------------
(* Money.  A step changes one of the sums by what it changes another by,   *)
(* or by what was granted, or the history says that it does not.           *)

(* What is bought is paid into an account that exists.                     *)
Fits(f) == f.at \in {"buying", "bought"} => f.acct \in DOMAIN account

ShopInv == \A i \in DOMAIN calls : Fits(calls[i])

MInv == ShopInv /\ MoneyConserved

(* What is in the hands of the commands in c.                              *)
Hand(c) == SumFunction([i \in DOMAIN c |-> InTransit(c[i])])

(* What a command has in its hands is a number.                            *)
LEMMA TransitType ==
  ASSUME NEW x, NEW f \in Frame(x)
  PROVE  InTransit(f) \in Int
<1>1. CASE f.at \in {"debited", "withdrawn", "bought"}
  <2>1. f.n \in Nat
    BY <1>1, FrameAt DEF Paying, Withdrawing, Buying
  <2> QED
    BY <1>1, <2>1 DEF InTransit
<1>2. CASE f.at \in {"deposited", "betting"}
  <2>1. f.n \in Nat
    BY <1>2, FrameAt DEF Spending
  <2> QED
    BY <1>2, <2>1 DEF InTransit
<1>3. CASE f.at \in {"racing", "raced"}
  <2>1. f.paid \in Nat /\ f.pot \in Nat
    BY <1>3, FrameAt DEF Racing
  <2> QED
    BY <1>3, <2>1 DEF InTransit
<1>4. CASE f.at \notin {"debited", "withdrawn", "bought", "deposited", "betting", "racing", "raced"}
  BY <1>4 DEF InTransit
<1> QED
  BY <1>1, <1>2, <1>3, <1>4

(* The commands have nothing in their hands when there are none.           *)
LEMMA HandEmpty == Hand(<<>>) = 0
<1> DEFINE F == [i \in DOMAIN <<>> |-> InTransit(<<>>[i])]
<1>1. DOMAIN F = {} /\ IsFiniteSet({})
  BY FS_EmptySet
<1>2. SumFunctionOnSet(F, {}) = 0
  BY <1>1, SumStep
<1> QED
  BY <1>1, <1>2 DEF Hand, SumFunction

(* One more command on the stack.                                          *)
LEMMA HandPush ==
  ASSUME NEW S, NEW c \in Seq(S), \A i \in DOMAIN c : InTransit(c[i]) \in Int,
         NEW f, InTransit(f) \in Int
  PROVE  Hand(c) \in Int /\ Hand(<<f>> \o c) = InTransit(f) + Hand(c)
<1> DEFINE d == <<f>> \o c
           F == [i \in DOMAIN c |-> InTransit(c[i])]
           G == [i \in DOMAIN d |-> InTransit(d[i])]
           h == [i \in DOMAIN c |-> i + 1]
           V == { h[i] : i \in DOMAIN c }
<1>1. /\ \A i \in DOMAIN d : i = 1 \/ (i - 1 \in DOMAIN c /\ d[i] = c[i - 1])
      /\ \A i \in DOMAIN c : i + 1 \in DOMAIN d /\ d[i + 1] = c[i]
      /\ 1 \in DOMAIN d /\ d[1] = f
      /\ DOMAIN d \subseteq Int /\ DOMAIN c \subseteq Nat \ {0}
  BY OnTop
<1>2. IsFiniteSet(DOMAIN c)
  <2>1. DOMAIN c = 1..Len(c) /\ Len(c) \in Nat
    OBVIOUS
  <2> QED
    BY <2>1, FS_Interval
<1> HIDE DEF d
<1>3. /\ \A x \in DOMAIN c : F[x] \in Int
      /\ \A x, y \in DOMAIN c : h[x] = h[y] => x = y
      /\ \A x \in DOMAIN c : G[h[x]] = F[x]
  BY <1>1
<1>4. \A i \in DOMAIN d : i = 1 \/ (i - 1 \in DOMAIN c /\ h[i - 1] = i)
  BY <1>1
<1>5. \A i \in DOMAIN c : h[i] \in DOMAIN d /\ h[i] # 1
  BY <1>1
<1>6. SumFunctionOnSet(F, DOMAIN c) = Hand(c) /\ SumFunctionOnSet(G, DOMAIN d) = Hand(d)
      /\ G[1] = InTransit(f)
  BY <1>1 DEF Hand, SumFunction
<1> HIDE DEF F, G, h
<1>7. V \cup {1} = DOMAIN d /\ 1 \notin V
  <2>1. ASSUME NEW i \in DOMAIN d, i # 1 PROVE i \in V
    BY <1>4, <2>1
  <2>2. ASSUME NEW v \in V PROVE v \in DOMAIN d /\ v # 1
    BY <1>5, <2>2
  <2> HIDE DEF V
  <2> QED
    BY <1>1, <2>1, <2>2
<1>8. IsFiniteSet(V) /\ SumFunctionOnSet(G, V) = SumFunctionOnSet(F, DOMAIN c)
  <2>1. SumFunctionOnSet(G, V) = SumFunctionOnSet(F, DOMAIN c)
    BY <1>2, <1>3, SumRenamed
  <2>2. IsFiniteSet(V)
    BY <1>2, NamesFinite
  <2> QED
    BY <2>1, <2>2
<1>9. \A x \in V \cup {1} : G[x] \in Int
  BY <1>3, <1>6
<1> HIDE DEF V
<1>10. SumFunctionOnSet(G, V) \in Int
       /\ SumFunctionOnSet(G, V \cup {1}) = G[1] + SumFunctionOnSet(G, V)
  BY <1>7, <1>8, <1>9, SumAdd
<1> QED
  BY <1>6, <1>7, <1>8, <1>10 DEF d

(* The top of the stack and the rest.                                      *)
LEMMA HandPop ==
  ASSUME NEW S, NEW c \in Seq(S), c # <<>>, \A i \in DOMAIN c : InTransit(c[i]) \in Int
  PROVE  /\ Hand(Tail(c)) \in Int
         /\ Hand(c) = InTransit(Head(c)) + Hand(Tail(c))
         /\ InTransit(Head(c)) \in Int
         /\ \A i \in DOMAIN Tail(c) : InTransit(Tail(c)[i]) \in Int
<1> DEFINE t == Tail(c)
<1>1. /\ t \in Seq(S)
      /\ \A i \in DOMAIN t : i + 1 \in DOMAIN c /\ t[i] = c[i + 1]
      /\ 1 \in DOMAIN c /\ Head(c) = c[1]
  BY OffTop
<1>2. c = <<Head(c)>> \o t
  BY HeadTailProperties
<1>3. InTransit(Head(c)) \in Int /\ \A i \in DOMAIN t : InTransit(t[i]) \in Int
  BY <1>1
<1> HIDE DEF t
<1>4. Hand(t) \in Int /\ Hand(<<Head(c)>> \o t) = InTransit(Head(c)) + Hand(t)
  BY <1>1, <1>3, HandPush
<1> QED
  BY <1>2, <1>3, <1>4 DEF t

(* How a command changes the stack, and by d what is in the hands.         *)
Hands(d) ==
  \/ UNCHANGED calls /\ d = 0
  \/ \E f : calls' = <<f>> \o calls /\ Fits(f) /\ d = InTransit(f)
  \/ calls # <<>> /\ End /\ d = -InTransit(Top)
  \/ /\ calls # <<>>
     /\ \E g : /\ calls' = <<g>> \o Tail(calls)
               /\ Fits(g) /\ InTransit(g) \in Int /\ d = InTransit(g) - InTransit(Top)

(* The sum of them after that.                                             *)
LEMMA HandsMoved ==
  ASSUME IInv, NEW d \in Int, Hands(d)
  PROVE  Hand(calls) \in Int /\ Hand(calls') = Hand(calls) + d
<1> DEFINE S == Frame(Exempt)
<1>1. calls \in Seq(S) /\ \A i \in DOMAIN calls : InTransit(calls[i]) \in Int
  BY TransitType DEF IInv
<1>2. Hand(calls) \in Int
  <2>1. PICK f : InTransit(f) \in Int
    <3>1. InTransit([at |-> "told"]) = 0
      BY DEF InTransit
    <3> QED
      BY <3>1
  <2> HIDE DEF S
  <2> QED
    BY <1>1, <2>1, HandPush
<1> HIDE DEF S
<1>3. CASE UNCHANGED calls /\ d = 0
  BY <1>2, <1>3
<1>4. CASE \E f : calls' = <<f>> \o calls /\ Fits(f) /\ d = InTransit(f)
  <2>1. PICK f : calls' = <<f>> \o calls /\ d = InTransit(f)
    BY <1>4
  <2>2. Hand(<<f>> \o calls) = InTransit(f) + Hand(calls)
    BY <1>1, <2>1, HandPush
  <2> QED
    BY <1>2, <2>1, <2>2
<1>5. ASSUME calls # <<>>
      PROVE  /\ Hand(Tail(calls)) \in Int
             /\ Hand(calls) = InTransit(Top) + Hand(Tail(calls))
             /\ InTransit(Top) \in Int
             /\ Tail(calls) \in Seq(S)
             /\ \A i \in DOMAIN Tail(calls) : InTransit(Tail(calls)[i]) \in Int
  BY <1>1, <1>5, HandPop, OffTop DEF Top
<1>6. CASE calls # <<>> /\ End /\ d = -InTransit(Top)
  BY <1>5, <1>6 DEF End
<1>7. CASE calls # <<>> /\ \E g : /\ calls' = <<g>> \o Tail(calls)
                                 /\ Fits(g) /\ InTransit(g) \in Int
                                 /\ d = InTransit(g) - InTransit(Top)
  <2>1. PICK g : /\ calls' = <<g>> \o Tail(calls)
                 /\ InTransit(g) \in Int /\ d = InTransit(g) - InTransit(Top)
    BY <1>7
  <2> DEFINE t == Tail(calls)
             n == InTransit(Top)
             m == InTransit(g)
  <2>2. Hand(t) \in Int /\ Hand(calls) = n + Hand(t) /\ n \in Int
        /\ t \in Seq(S) /\ \A i \in DOMAIN t : InTransit(t[i]) \in Int
    BY <1>5, <1>7
  <2>3. calls' = <<g>> \o t /\ d = m - n /\ m \in Int
    BY <2>1
  <2> HIDE DEF t, n
  <2>4. Hand(<<g>> \o t) = m + Hand(t)
    BY <2>1, <2>2, HandPush
  <2> HIDE DEF m
  <2>5. Hand(calls') = m + Hand(t)
    BY <2>3, <2>4
  <2>6. m + Hand(t) = (n + Hand(t)) + (m - n)
    BY <2>2, <2>3
  <2> QED
    BY <1>2, <2>2, <2>3, <2>5, <2>6
<1> QED
  BY <1>2, <1>3, <1>4, <1>6, <1>7 DEF Hands

(* What was bought still fits.                                             *)
LEMMA ShopMoved ==
  ASSUME IInv, ShopInv, NEW d, Hands(d), DOMAIN account \subseteq DOMAIN account'
  PROVE  ShopInv'
<1>1. SUFFICES \A i \in DOMAIN calls' : Fits(calls'[i])
  BY DEF ShopInv, Fits
<1>2. calls \in Seq(Frame(Exempt))
  BY DEF IInv
<1>3. CASE UNCHANGED calls
  BY <1>3 DEF ShopInv
<1>4. CASE \E f : calls' = <<f>> \o calls /\ Fits(f)
  <2>1. PICK f : calls' = <<f>> \o calls /\ Fits(f)
    BY <1>4
  <2> DEFINE t == <<f>> \o calls
  <2>2. /\ \A i \in DOMAIN t : i = 1 \/ (i - 1 \in DOMAIN calls /\ t[i] = calls[i - 1])
        /\ t[1] = f
    BY <1>2, OnTop
  <2> HIDE DEF t
  <2>3. \A i \in DOMAIN t : Fits(t[i])
    BY <2>1, <2>2 DEF ShopInv
  <2> QED
    BY <2>1, <2>3 DEF t
<1>5. CASE calls # <<>> /\ End
  <2>1. \A i \in DOMAIN Tail(calls) : i + 1 \in DOMAIN calls /\ Tail(calls)[i] = calls[i + 1]
    BY <1>2, <1>5, OffTop
  <2> QED
    BY <1>5, <2>1 DEF ShopInv, End
<1>6. CASE calls # <<>> /\ \E g : calls' = <<g>> \o Tail(calls) /\ Fits(g)
  <2>1. PICK g : calls' = <<g>> \o Tail(calls) /\ Fits(g)
    BY <1>6
  <2> DEFINE t == <<g>> \o Tail(calls)
  <2>2. DOMAIN t = DOMAIN calls /\ \A i \in DOMAIN calls : t[i] = IF i = 1 THEN g ELSE calls[i]
    BY <1>2, <1>6, NewTop
  <2> HIDE DEF t
  <2>3. \A i \in DOMAIN t : Fits(t[i])
    BY <2>1, <2>2 DEF ShopInv
  <2> QED
    BY <2>1, <2>3 DEF t
<1> QED
  BY <1>3, <1>4, <1>5, <1>6 DEF Hands

(* The sums, of which one is of what is in the hands.                      *)
LEMMA MoneyParts ==
  ASSUME IInv
  PROVE  /\ SumFunction(wallet) \in Int
         /\ SumFunction(Balances) \in Int
         /\ pot \in Nat
         /\ SumFunction(InHands) = Hand(calls)
<1>1. SumFunction(wallet) \in Int
  <2>1. DOMAIN wallet = People /\ \A p \in People : wallet[p] \in Int
    BY DEF IInv, WalletInv
  <2> QED
    BY <2>1, WalletsAssumption, SumAny DEF SumFunction
<1>2. SumFunction(Balances) \in Int
  <2>1. IsFiniteSet(DOMAIN account) /\ \A a \in DOMAIN account : account[a].balance \in Int
    BY AccountsAssumption, FS_Subset DEF IInv, AccountInv, Account
  <2>2. DOMAIN Balances = DOMAIN account /\ \A a \in DOMAIN account : Balances[a] \in Int
    BY <2>1 DEF Balances
  <2> QED
    BY <2>1, <2>2, SumAny DEF SumFunction
<1> QED
  BY <1>1, <1>2 DEF IInv, RaceInv, InHands, Hand

(* A wallet is saved.                                                      *)
LEMMA CashSaved ==
  ASSUME IInv, NEW p \in People, NEW n \in Int, wallet' = [wallet EXCEPT ![p] = n]
  PROVE  SumFunction(wallet') = SumFunction(wallet) + (n - wallet[p])
<1> DEFINE w == wallet'
<1>1. /\ DOMAIN wallet = People /\ DOMAIN w = People
      /\ \A x \in People : wallet[x] \in Int
      /\ w[p] = n /\ \A x \in People \ {p} : w[x] = wallet[x]
  BY DEF IInv, WalletInv
<1> HIDE DEF w
<1>2. /\ SumFunctionOnSet(wallet, People) \in Int
      /\ SumFunctionOnSet(w, People) = SumFunctionOnSet(wallet, People) - wallet[p] + w[p]
  BY <1>1, WalletsAssumption, SumChanged
<1>3. SumFunction(w) = SumFunctionOnSet(w, People)
      /\ SumFunction(wallet) = SumFunctionOnSet(wallet, People)
  BY <1>1 DEF SumFunction
<1>4. wallet[p] \in Int
  BY <1>1
<1> QED
  BY <1>1, <1>2, <1>3, <1>4 DEF w

(* An account is saved.                                                    *)
LEMMA BalanceBooked ==
  ASSUME IInv, NEW a \in DOMAIN account, NEW n \in Int, Book(a, n)
  PROVE  /\ SumFunction(Balances') = SumFunction(Balances) + (n - account[a].balance)
         /\ DOMAIN account' = DOMAIN account
<1> DEFINE D == DOMAIN account
           b == Balances'
<1>1. IsFiniteSet(D) /\ \A x \in D : account[x].balance \in Int
  BY AccountsAssumption, FS_Subset DEF IInv, AccountInv, Account
<1>2. DOMAIN account' = D /\ account'[a].balance = n
      /\ \A x \in D \ {a} : account'[x] = account[x]
  BY DEF Book, IInv, AccountInv, Account
<1>3. /\ DOMAIN Balances = D /\ DOMAIN b = D
      /\ \A x \in D : Balances[x] \in Int
      /\ b[a] = n /\ \A x \in D \ {a} : b[x] = Balances[x]
      /\ Balances[a] = account[a].balance
  BY <1>1, <1>2 DEF Balances
<1> HIDE DEF b, D
<1>4. a \in D
  BY DEF D
<1>5. /\ SumFunctionOnSet(Balances, D) \in Int
      /\ SumFunctionOnSet(b, D) = SumFunctionOnSet(Balances, D) - Balances[a] + b[a]
  BY <1>1, <1>3, <1>4, SumChanged
<1>6. SumFunction(b) = SumFunctionOnSet(b, D)
      /\ SumFunction(Balances) = SumFunctionOnSet(Balances, D)
  BY <1>3 DEF SumFunction
<1>7. Balances[a] \in Int
  BY <1>3, <1>4
<1> QED
  BY <1>2, <1>3, <1>5, <1>6, <1>7 DEF b, D

(* An account is opened, with nothing in it.                               *)
LEMMA BalanceOpened ==
  ASSUME IInv, NEW p, NEW a, AccountOpen(p, a)
  PROVE  /\ SumFunction(Balances') = SumFunction(Balances)
         /\ DOMAIN account \subseteq DOMAIN account'
<1> DEFINE D == DOMAIN account
           b == Balances'
<1>1. IsFiniteSet(D) /\ \A x \in D : account[x].balance \in Int
  BY AccountsAssumption, FS_Subset DEF IInv, AccountInv, Account
<1>2. /\ a \notin D /\ DOMAIN account' = D \cup {a} /\ account'[a].balance = 0
      /\ \A x \in D : account'[x] = account[x]
  BY DEF AccountOpen
<1>3. /\ DOMAIN Balances = D /\ DOMAIN b = D \cup {a}
      /\ \A x \in D : Balances[x] \in Int
      /\ b[a] = 0 /\ \A x \in D : b[x] = Balances[x]
  BY <1>1, <1>2 DEF Balances
<1> HIDE DEF b
<1>4. SumFunction(b) = SumFunctionOnSet(b, D \cup {a})
      /\ SumFunction(Balances) = SumFunctionOnSet(Balances, D)
  BY <1>3 DEF SumFunction
<1> HIDE DEF D
<1>5. \A x \in D \cup {a} : b[x] \in Int
  BY <1>3
<1>6. /\ SumFunctionOnSet(b, D) \in Int
      /\ SumFunctionOnSet(b, D \cup {a}) = b[a] + SumFunctionOnSet(b, D)
  BY <1>1, <1>2, <1>5, SumAdd
<1>7. SumFunctionOnSet(b, D) = SumFunctionOnSet(Balances, D)
  BY <1>1, <1>3, SumSame
<1>8. SumFunction(b) = SumFunction(Balances)
  BY <1>3, <1>4, <1>6, <1>7
<1> QED
  BY <1>2, <1>8 DEF b, D

(* The books balance when the sums change by what is granted.              *)
LEMMA Balanced ==
  ASSUME IInv, MInv, NEW dw \in Int, NEW db \in Int, NEW dp \in Int, NEW dh \in Int,
         SumFunction(wallet') = SumFunction(wallet) + dw,
         SumFunction(Balances') = SumFunction(Balances) + db,
         pot' = pot + dp,
         Hands(dh),
         DOMAIN account \subseteq DOMAIN account',
         issued' # Unknown => issued # Unknown /\ issued' = issued + (dw + db + dp + dh)
  PROVE  MInv'
<1>1. ShopInv'
  BY ShopMoved DEF MInv
<1>2. Hand(calls) \in Int /\ Hand(calls') = Hand(calls) + dh
  BY HandsMoved
<1>3. SumFunction(InHands') = Hand(calls')
  BY DEF InHands, Hand
<1> DEFINE W == SumFunction(wallet)
           B == SumFunction(Balances)
           H == Hand(calls)
<1>4. W \in Int /\ B \in Int /\ H \in Int /\ pot \in Int
  BY <1>2, MoneyParts
<1>5. Money = W + B + pot + H
  BY MoneyParts DEF Money
<1>6. Money' = (W + dw) + (B + db) + (pot + dp) + (H + dh)
  <2>1. Money' = SumFunction(wallet') + SumFunction(Balances') + pot' + SumFunction(InHands')
    BY DEF Money
  <2> QED
    BY <1>2, <1>3, <2>1
<1>7. issued # Unknown => issued = Money
  BY DEF MInv, MoneyConserved
<1> HIDE DEF W, B, H
<1>8. Money' = Money + (dw + db + dp + dh)
  BY <1>4, <1>5, <1>6
<1>9. MoneyConserved'
  <2> SUFFICES ASSUME issued' # Unknown PROVE Money' = issued'
    BY DEF MoneyConserved
  <2>1. issued = Money /\ issued' = issued + (dw + db + dp + dh)
    BY <1>7
  <2> QED
    BY <1>8, <2>1
<1> QED
  BY <1>1, <1>9 DEF MInv

(* Where the books are the same.                                           *)
SameBooks == UNCHANGED account /\ UNCHANGED pot

(* No money goes anywhere.                                                 *)
LEMMA MoneyKept ==
  ASSUME IInv, MInv, UNCHANGED <<wallet, pot>>, Hands(0),
         DOMAIN account \subseteq DOMAIN account',
         SumFunction(Balances') = SumFunction(Balances),
         issued' # Unknown => issued' = issued
  PROVE  MInv'
<1>1. /\ SumFunction(wallet') = SumFunction(wallet) + 0
      /\ SumFunction(Balances') = SumFunction(Balances) + 0
      /\ pot' = pot + 0
  BY MoneyParts
<1>2. issued' # Unknown => issued # Unknown /\ issued' = issued + (0 + 0 + 0 + 0)
  <2> SUFFICES ASSUME issued' # Unknown PROVE issued' = issued + 0
    OBVIOUS
  <2>1. issued' = issued /\ issued \in Int
    BY MoneyParts, HandsMoved DEF MInv, MoneyConserved, Money
  <2> QED
    BY <2>1
<1> QED
  BY <1>1, <1>2, Balanced

(* A wallet is saved with what was read and what is paid.                  *)
LEMMA MoneySaved ==
  ASSUME IInv, MInv, SameBooks, NEW p \in People, NEW read \in Int, NEW n \in Int,
         NEW d \in Int, Save(p, read, read + n), Hands(d), n + d = 0
  PROVE  MInv'
<1>1. wallet[p] \in Int /\ read + n \in Int
  BY DEF IInv, WalletInv
<1>2. CASE read + n = read
  <2>1. n = 0 /\ d = 0
    BY <1>2
  <2>2. UNCHANGED <<wallet, issued>>
    BY <1>2 DEF Save
  <2>3. UNCHANGED pot /\ DOMAIN account \subseteq DOMAIN account'
        /\ SumFunction(Balances') = SumFunction(Balances)
    BY DEF SameBooks, Balances
  <2>4. Hands(0)
    BY <2>1
  <2> QED
    BY <2>2, <2>3, <2>4, MoneyKept
<1>3. CASE read + n # read
  <2> DEFINE m == read + n
             dw == m - wallet[p]
  <2>1. wallet' = [wallet EXCEPT ![p] = m]
    BY <1>3 DEF Save
  <2>2. issued' # Unknown => wallet[p] = read /\ issued' = issued /\ issued # Unknown
    BY <1>3 DEF Save
  <2>3. issued' # Unknown => issued # Unknown /\ issued' = issued + (dw + 0 + 0 + d)
    <3> SUFFICES ASSUME issued' # Unknown PROVE issued' = issued + (dw + 0 + 0 + d)
      BY <2>2
    <3>1. dw + 0 + 0 + d = 0
      BY <1>1, <2>2
    <3>2. issued' = issued /\ issued \in Int
      BY <2>2, MoneyParts, HandsMoved DEF MInv, MoneyConserved, Money
    <3> QED
      BY <3>1, <3>2
  <2>4. dw \in Int /\ m \in Int
    BY <1>1
  <2> HIDE DEF m
  <2>5. SumFunction(wallet') = SumFunction(wallet) + dw
    BY <2>1, <2>4, CashSaved
  <2>6. /\ SumFunction(Balances') = SumFunction(Balances) + 0
        /\ pot' = pot + 0
        /\ DOMAIN account \subseteq DOMAIN account'
    BY MoneyParts DEF SameBooks, Balances
  <2> HIDE DEF dw
  <2> QED
    BY <2>3, <2>4, <2>5, <2>6, Balanced
<1> QED
  BY <1>2, <1>3

(* A wallet is saved with more or less than there is.                      *)
LEMMA MoneyAdded ==
  ASSUME IInv, MInv, SameBooks, NEW p \in People, NEW n \in Int,
         wallet' = [wallet EXCEPT ![p] = wallet[p] + n],
         NEW d \in Int, Hands(d),
         issued' # Unknown => issued # Unknown /\ issued' = issued + (n + d)
  PROVE  MInv'
<1>1. wallet[p] \in Int
  BY DEF IInv, WalletInv
<1> DEFINE m == wallet[p] + n
<1>2. m \in Int /\ m - wallet[p] = n /\ wallet' = [wallet EXCEPT ![p] = m]
  BY <1>1
<1> HIDE DEF m
<1>3. SumFunction(wallet') = SumFunction(wallet) + n
  BY <1>2, CashSaved
<1>4. ASSUME NEW z \in Int, z = 0 PROVE MInv'
  <2>1. /\ SumFunction(Balances') = SumFunction(Balances) + z
        /\ pot' = pot + z
        /\ DOMAIN account \subseteq DOMAIN account'
    BY <1>4, MoneyParts DEF SameBooks, Balances
  <2>2. n + z + z + d = n + d
    BY <1>4
  <2> QED
    BY <1>3, <1>4, <2>1, <2>2, Balanced
<1> QED
  BY <1>4

(* An account is saved, and what it gains is taken from the hands.         *)
LEMMA MoneyBooked ==
  ASSUME IInv, MInv, UNCHANGED <<wallet, pot>>, NEW a \in DOMAIN account, NEW read \in Int,
         NEW n \in Int, Book(a, read + n), NEW d \in Int, Hands(d), n + d = 0,
         issued' # Unknown => issued' = issued /\ account[a].balance = read
  PROVE  MInv'
<1>1. account[a].balance \in Int /\ read + n \in Int
  BY DEF IInv, AccountInv, Account
<1> DEFINE m == read + n
           db == m - account[a].balance
<1>2. m \in Int /\ db \in Int /\ Book(a, m)
  BY <1>1
<1>3. issued' # Unknown => issued # Unknown /\ issued' = issued + (0 + db + 0 + d)
  <2> SUFFICES ASSUME issued' # Unknown PROVE issued' = issued + (0 + db + 0 + d)
    OBVIOUS
  <2>1. 0 + db + 0 + d = 0
    BY <1>1
  <2>2. issued' = issued /\ issued \in Int
    BY MoneyParts, HandsMoved DEF MInv, MoneyConserved, Money
  <2> QED
    BY <2>1, <2>2
<1> HIDE DEF m
<1>4. /\ SumFunction(Balances') = SumFunction(Balances) + db
      /\ DOMAIN account' = DOMAIN account
  BY <1>2, BalanceBooked
<1>5. SumFunction(wallet') = SumFunction(wallet) + 0 /\ pot' = pot + 0
  BY MoneyParts
<1> HIDE DEF db
<1> QED
  BY <1>2, <1>3, <1>4, <1>5, Balanced

(* Nothing is nothing, also when it is owed.                               *)
LEMMA MinusZero == -0 = 0
<1>1. ASSUME NEW m \in Int, m + m = m PROVE -m = m
  BY <1>1
<1>2. 0 \in Int /\ 0 + 0 = 0
  OBVIOUS
<1> QED
  BY <1>1, <1>2, Zenon

(* A command ends with nothing in its hands.                               *)
LEMMA HandsOff ==
  ASSUME calls # <<>>, End, InTransit(Top) = 0, NEW z \in Int, z = 0
  PROVE  Hands(z)
<1>1. z = -InTransit(Top)
  BY MinusZero, Zenon
<1> QED
  BY <1>1 DEF Hands

(* Commands of wallets.rb conserve money.                                  *)
LEMMA MoneyWallets ==
  ASSUME IInv, MInv, WalletStep, UNCHANGED <<world, account, cargoVars, raceVars>>
  PROVE  MInv'
<1>1. SameBooks /\ UNCHANGED Balances
  BY DEF SameBooks, raceVars, Balances
<1>2. calls # <<>> => Top \in Frame(Exempt)
  BY PopFrame DEF Top, IInv
<1>3. CASE WalletCommand
  <2>1. PICK f : f.at \in {"told", "granting"} /\ Begin(f) /\ UNCHANGED walletVars
    BY <1>3 DEF WalletCommand, Pay, Grant, PutDown
  <2>2. InTransit(f) = 0 /\ Fits(f)
    BY <2>1 DEF InTransit, Fits
  <2>3. Hands(0)
    BY <2>1, <2>2 DEF Begin, Hands
  <2> QED
    BY <1>1, <2>1, <2>3, MoneyKept DEF walletVars, SameBooks
<1>4. CASE PayDebit
  <2>1. calls # <<>> /\ Top \in Paying(Exempt) /\ Top.at = "told"
    BY <1>2, <1>4, FrameAt DEF PayDebit, At, Top
  <2>2. Top.who \in People /\ Top.cash \in Int /\ Top.n \in Int /\ -Top.n \in Int
    BY <2>1 DEF Paying
  <2> DEFINE g == [Top EXCEPT !.at = "debited"]
  <2>3. g.at = "debited" /\ g.n = Top.n
    BY <2>1 DEF Paying
  <2>4. InTransit(g) = Top.n /\ InTransit(Top) = 0 /\ Fits(g)
    BY <2>1, <2>3 DEF InTransit, Fits
  <2>5. calls' = <<g>> \o Tail(calls)
    BY <1>4 DEF PayDebit, Go
  <2> HIDE DEF g
  <2>6. Hands(Top.n)
    BY <2>1, <2>2, <2>4, <2>5 DEF Hands
  <2>7. Top.cash - Top.n = Top.cash + (-Top.n) /\ -Top.n + Top.n = 0
    BY <2>2
  <2>8. Save(Top.who, Top.cash, Top.cash + (-Top.n))
    BY <1>4, <2>7 DEF PayDebit
  <2> QED
    BY <1>1, <2>2, <2>6, <2>7, <2>8, MoneySaved
<1>5. CASE PayCredit
  <2>1. calls # <<>> /\ Top \in Paying(Exempt) /\ Top.at = "debited" /\ End
    BY <1>2, <1>5, FrameAt DEF PayCredit, At, Top
  <2>2. Top.to \in People /\ Top.n \in Int /\ -Top.n \in Int
    BY <2>1 DEF Paying
  <2>3. Hands(-Top.n)
    BY <2>1 DEF Hands, InTransit
  <2>4. wallet' = [wallet EXCEPT ![Top.to] = wallet[Top.to] + Top.n] /\ issued' = issued
    BY <1>5 DEF PayCredit
  <2>5. issued' # Unknown => issued # Unknown /\ issued' = issued + (Top.n + (-Top.n))
    <3>1. issued # Unknown => issued \in Int
      BY MoneyParts, HandsMoved, <2>2, <2>3 DEF MInv, MoneyConserved, Money
    <3> QED
      BY <2>2, <2>4, <3>1
  <2> QED
    BY <1>1, <2>2, <2>3, <2>4, <2>5, MoneyAdded
<1>6. CASE GrantSave
  <2>1. calls # <<>> /\ Top \in Granting /\ Top.at = "granting" /\ End
    BY <1>2, <1>6, FrameAt DEF GrantSave, At, Top
  <2>2. Top.who \in People /\ Top.n \in Int
    BY <2>1 DEF Granting
  <2>3. ASSUME NEW z \in Int, z = 0 PROVE Hands(z)
    <3>1. InTransit(Top) = 0
      BY <2>1 DEF InTransit
    <3> QED
      BY <2>1, <2>3, <3>1, HandsOff
  <2>4. wallet' = [wallet EXCEPT ![Top.who] = wallet[Top.who] + Top.n]
    BY <1>6 DEF GrantSave
  <2>5. issued' # Unknown => issued # Unknown /\ issued' = issued + Top.n
    BY <1>6, <2>2 DEF GrantSave, Issue
  <2>6. ASSUME NEW z \in Int, z = 0 PROVE MInv'
    <3>1. Top.n + z = Top.n
      BY <2>2, <2>6
    <3> QED
      BY <1>1, <2>2, <2>3, <2>4, <2>5, <2>6, <3>1, MoneyAdded
  <2> QED
    BY <2>6
<1> QED
  BY <1>3, <1>4, <1>5, <1>6 DEF WalletStep

(* Commands of accounts.rb and purchases conserve money.                   *)
LEMMA MoneyAccounts ==
  ASSUME IInv, MInv, AccountStep, UNCHANGED <<world, cargoVars, raceVars>>
  PROVE  MInv'
<1>1. UNCHANGED pot
  BY DEF raceVars
<1>2. calls # <<>> => Top \in Frame(Exempt)
  BY PopFrame DEF Top, IInv
<1>3. \A a \in DOMAIN account : account[a] \in Account /\ account[a].balance \in Int
  BY DEF IInv, AccountInv, Account
<1>4. \A n \in Typed : n \in Int /\ -n \in Int
  BY InputTypes
<1>5. ASSUME NEW p \in Persons, NEW a \in DOMAIN account, NEW n \in Typed,
             AccountDeposit(p, a, n)
      PROVE  MInv'
  <2> DEFINE f == [at |-> "deposited", who |-> p, n |-> n, cash |-> wallet[p]]
  <2>1. InTransit(f) = -n /\ Fits(f)
    BY DEF InTransit, Fits
  <2>2. calls' = <<f>> \o calls
    BY <1>5 DEF AccountDeposit, Begin
  <2> HIDE DEF f
  <2>3. Hands(-n)
    BY <2>1, <2>2 DEF Hands
  <2>4. Book(a, account[a].balance + n) /\ UNCHANGED walletVars
    BY <1>5 DEF AccountDeposit
  <2>5. n \in Int /\ -n \in Int /\ n + (-n) = 0
    BY <1>4
  <2> QED
    BY <1>1, <1>3, <2>3, <2>4, <2>5, MoneyBooked DEF walletVars
<1>6. ASSUME NEW p \in Persons, NEW a \in DOMAIN account, NEW n \in Typed,
             AccountWithdraw(p, a, n)
      PROVE  MInv'
  <2> DEFINE f == [at |-> "withdrawn", who |-> p, n |-> n, cash |-> wallet[p]]
  <2>1. InTransit(f) = n /\ Fits(f)
    BY DEF InTransit, Fits
  <2>2. calls' = <<f>> \o calls
    BY <1>6 DEF AccountWithdraw, Begin
  <2> HIDE DEF f
  <2>3. Hands(n)
    BY <2>1, <2>2 DEF Hands
  <2>4. n \in Int /\ -n \in Int /\ -n + n = 0
    BY <1>4
  <2>5. account[a].balance - n = account[a].balance + (-n)
    BY <1>3, <2>4
  <2>6. Book(a, account[a].balance + (-n)) /\ UNCHANGED walletVars
    BY <1>6, <2>5 DEF AccountWithdraw
  <2> QED
    BY <1>1, <1>3, <2>3, <2>4, <2>6, MoneyBooked DEF walletVars
<1>7. ASSUME NEW p \in Persons, NEW a \in DOMAIN account, NEW n \in Sums,
             VendorPurchase(p, a, n)
      PROVE  MInv'
  <2> DEFINE f == [at |-> "buying", who |-> p, n |-> n, cash |-> wallet[p],
                   acct |-> a, had |-> account[a].balance]
  <2>1. InTransit(f) = 0 /\ Fits(f)
    BY DEF InTransit, Fits
  <2>2. calls' = <<f>> \o calls /\ UNCHANGED <<account, walletVars>>
    BY <1>7 DEF VendorPurchase, Begin
  <2> HIDE DEF f
  <2>3. Hands(0)
    BY <2>1, <2>2 DEF Hands
  <2> QED
    BY <1>1, <2>2, <2>3, MoneyKept DEF walletVars, Balances
<1>8. ASSUME NEW p \in Persons, NEW a \in DOMAIN account, NEW v \in Persons,
             AccountOwner(p, a, v)
      PROVE  MInv'
  <2> DEFINE f == [at |-> "transferring", acct |-> a, to |-> v,
                   had |-> account[a].owner, knows |-> account[a].accessors]
  <2>1. InTransit(f) = 0 /\ Fits(f)
    BY DEF InTransit, Fits
  <2>2. calls' = <<f>> \o calls /\ UNCHANGED <<account, walletVars>>
    BY <1>8 DEF AccountOwner, Begin
  <2> HIDE DEF f
  <2>3. Hands(0)
    BY <2>1, <2>2 DEF Hands
  <2> QED
    BY <1>1, <2>2, <2>3, MoneyKept DEF walletVars, Balances
<1>9. ASSUME NEW p \in Persons, NEW a \in DOMAIN account,
             \/ \E v \in Persons : AddAccess(p, a, v) \/ RemAccess(p, a, v)
             \/ AccountClose(p, a)
      PROVE  MInv'
  <2>1. UNCHANGED <<calls, walletVars>>
    BY <1>9 DEF AddAccess, RemAccess, AccountClose, AtOnce
  <2>2. DOMAIN account' = DOMAIN account
        /\ \A b \in DOMAIN account : account'[b].balance = account[b].balance
    BY <1>3, <1>9 DEF AddAccess, RemAccess, AccountClose, Account
  <2>3. Balances' = Balances
    BY <2>2 DEF Balances
  <2>4. Hands(0)
    BY <2>1 DEF Hands
  <2> QED
    BY <1>1, <2>1, <2>2, <2>3, <2>4, MoneyKept DEF walletVars
<1>10. ASSUME NEW p \in Persons, NEW a \in AccountIds \cap world, AccountOpen(p, a)
       PROVE  MInv'
  <2>1. UNCHANGED <<calls, walletVars>>
    BY <1>10 DEF AccountOpen, AtOnce
  <2>2. SumFunction(Balances') = SumFunction(Balances) /\ DOMAIN account \subseteq DOMAIN account'
    BY <1>10, BalanceOpened
  <2>3. Hands(0)
    BY <2>1 DEF Hands
  <2> QED
    BY <1>1, <2>1, <2>2, <2>3, MoneyKept DEF walletVars
<1>11. CASE DepositSave
  <2>1. calls # <<>> /\ Top \in Spending(Exempt) /\ Top.at = "deposited" /\ End
    BY <1>2, <1>11, FrameAt DEF DepositSave, At, Top
  <2>2. Top.who \in People /\ Top.cash \in Int /\ Top.n \in Int /\ -Top.n \in Int
    BY <2>1 DEF Spending
  <2>3. InTransit(Top) = -Top.n /\ -(-Top.n) = Top.n
    BY <2>1, <2>2 DEF InTransit
  <2>4. Hands(Top.n)
    BY <2>1, <2>3 DEF Hands
  <2>5. Top.cash - Top.n = Top.cash + (-Top.n) /\ -Top.n + Top.n = 0
    BY <2>2
  <2>6. Save(Top.who, Top.cash, Top.cash + (-Top.n)) /\ SameBooks
    BY <1>1, <1>11, <2>5 DEF DepositSave, SameBooks
  <2> QED
    BY <2>2, <2>4, <2>5, <2>6, MoneySaved
<1>12. CASE WithdrawSave
  <2>1. calls # <<>> /\ Top \in Withdrawing(Exempt) /\ Top.at = "withdrawn" /\ End
    BY <1>2, <1>12, FrameAt DEF WithdrawSave, At, Top
  <2>2. Top.who \in People /\ Top.cash \in Int /\ Top.n \in Int /\ -Top.n \in Int
    BY <2>1 DEF Withdrawing
  <2>3. InTransit(Top) = Top.n
    BY <2>1, <2>2 DEF InTransit
  <2>4. Hands(-Top.n)
    BY <2>1, <2>3 DEF Hands
  <2>5. Top.n + (-Top.n) = 0
    BY <2>2
  <2>6. Save(Top.who, Top.cash, Top.cash + Top.n) /\ SameBooks
    BY <1>1, <1>12 DEF WithdrawSave, SameBooks
  <2> QED
    BY <2>2, <2>4, <2>5, <2>6, MoneySaved
<1>13. CASE ChangeOwner
  <2>1. calls # <<>> /\ Top.at = "transferring" /\ End /\ UNCHANGED walletVars
    BY <1>13 DEF ChangeOwner, At, Top
  <2>2. InTransit(Top) = 0
    BY <2>1 DEF InTransit
  <2>3. DOMAIN account' = DOMAIN account
        /\ \A b \in DOMAIN account : account'[b].balance = account[b].balance
    <3> DEFINE o == IF Top.to = Top.had THEN account[Top.acct].owner ELSE Top.to
               A == IF Top.to \in Top.knows THEN account[Top.acct].accessors
                    ELSE Top.knows \cup {Top.to}
    <3>1. CASE Top.acct \in DOMAIN account
      <4>1. account' = [account EXCEPT ![Top.acct].owner = o, ![Top.acct].accessors = A]
        BY <1>13, <3>1 DEF ChangeOwner
      <4> HIDE DEF o, A
      <4>2. account' = [account EXCEPT ![Top.acct] =
                          [account[Top.acct] EXCEPT !.owner = o, !.accessors = A]]
        BY <1>3, <3>1, <4>1 DEF Account
      <4>3. [account[Top.acct] EXCEPT !.owner = o, !.accessors = A].balance
              = account[Top.acct].balance
        BY <1>3, <3>1 DEF Account
      <4> QED
        BY <3>1, <4>2, <4>3
    <3>2. CASE Top.acct \notin DOMAIN account
      BY <1>13, <3>2 DEF ChangeOwner, IInv, AccountInv
    <3> QED
      BY <3>1, <3>2
  <2>4. Balances' = Balances
    BY <2>3 DEF Balances
  <2>5. Hands(0)
    BY <2>1, <2>2, HandsOff
  <2> QED
    BY <1>1, <2>1, <2>3, <2>4, <2>5, MoneyKept DEF walletVars
<1>14. CASE PurchaseSave
  <2>1. calls # <<>> /\ Top \in Buying(Exempt) /\ Top.at = "buying"
    BY <1>2, <1>14, FrameAt DEF PurchaseSave, At, Top
  <2>2. Top.who \in People /\ Top.cash \in Int /\ Top.n \in Int /\ -Top.n \in Int
    BY <2>1 DEF Buying
  <2> DEFINE g == [Top EXCEPT !.at = "bought"]
  <2>3. g.at = "bought" /\ g.n = Top.n /\ g.acct = Top.acct
    BY <2>1 DEF Buying
  <2>4. Fits(g)
    <3>1. 1 \in DOMAIN calls /\ Top = calls[1]
      BY <2>1, OffTop DEF Top, IInv
    <3>2. Fits(Top)
      BY <3>1 DEF MInv, ShopInv
    <3> QED
      BY <2>1, <2>3, <3>2 DEF Fits
  <2>5. InTransit(g) = Top.n /\ InTransit(Top) = 0
    BY <2>1, <2>3 DEF InTransit
  <2>6. calls' = <<g>> \o Tail(calls)
    BY <1>14 DEF PurchaseSave, Go
  <2> HIDE DEF g
  <2>7. Hands(Top.n)
    BY <2>1, <2>2, <2>4, <2>5, <2>6 DEF Hands
  <2>8. Top.cash - Top.n = Top.cash + (-Top.n) /\ -Top.n + Top.n = 0
    BY <2>2
  <2>9. Save(Top.who, Top.cash, Top.cash + (-Top.n)) /\ SameBooks
    BY <1>1, <1>14, <2>8 DEF PurchaseSave, SameBooks
  <2> QED
    BY <2>2, <2>7, <2>8, <2>9, MoneySaved
<1>15. CASE PurchaseDeposit
  <2>1. calls # <<>> /\ Top \in Buying(Exempt) /\ Top.at = "bought" /\ End
    BY <1>2, <1>15, FrameAt DEF PurchaseDeposit, At, Top
  <2>2. Top.had \in Int /\ Top.n \in Int /\ -Top.n \in Int
    BY <2>1 DEF Buying
  <2>3. Top.acct \in DOMAIN account
    <3>1. 1 \in DOMAIN calls /\ Top = calls[1]
      BY <2>1, OffTop DEF Top, IInv
    <3>2. Fits(Top)
      BY <3>1 DEF MInv, ShopInv
    <3> QED
      BY <2>1, <3>2 DEF Fits
  <2>4. InTransit(Top) = Top.n
    BY <2>1 DEF InTransit
  <2>5. Hands(-Top.n)
    BY <2>1, <2>4 DEF Hands
  <2>6. Top.n + (-Top.n) = 0
    BY <2>2
  <2>7. /\ Book(Top.acct, Top.had + Top.n) /\ UNCHANGED wallet
        /\ issued' # Unknown => issued' = issued /\ account[Top.acct].balance = Top.had
    BY <1>15 DEF PurchaseDeposit
  <2> QED
    BY <1>1, <2>2, <2>3, <2>5, <2>6, <2>7, MoneyBooked
<1> QED
  BY <1>5, <1>6, <1>7, <1>8, <1>9, <1>10, <1>11, <1>12, <1>13, <1>14, <1>15
  DEF AccountStep, AccountCommand

(* The frame of a race after a winner was paid, and what it says.          *)
LEMMA PaidOutFrame ==
  ASSUME NEW r \in Racing, NEW rest, NEW n \in Nat
  PROVE  LET g == [r EXCEPT !.won = rest, !.paid = r.paid + n]
         IN g.at = r.at /\ g.paid = r.paid + n /\ r.paid \in Nat
  BY DEF Racing

(* Commands of lib-shiprace.rb conserve money.                             *)
LEMMA MoneyRaces ==
  ASSUME IInv, MInv, RaceStep, UNCHANGED <<world, account, cargoVars>>
  PROVE  MInv'
<1>1. UNCHANGED Balances
  BY DEF Balances
<1>2. calls # <<>> => Top \in Frame(Exempt)
  BY PopFrame DEF Top, IInv
<1>3. ASSUME NEW p \in Persons \ {RaceObj}, NEW n \in Typed, Purchase(p, n)
      PROVE  MInv'
  <2> DEFINE f == [at |-> "betting", who |-> p, n |-> n, cash |-> wallet[p]]
  <2>1. InTransit(f) = -n /\ Fits(f)
    BY DEF InTransit, Fits
  <2>2. calls' = <<f>> \o calls /\ UNCHANGED walletVars /\ pot' = pot + n
    BY <1>3 DEF Purchase, Begin, Ticket
  <2> HIDE DEF f
  <2>3. Hands(-n)
    BY <2>1, <2>2 DEF Hands
  <2>4. n \in Int /\ -n \in Int
    BY InputTypes
  <2>5. ASSUME NEW z \in Int, z = 0 PROVE MInv'
    <3>1. /\ SumFunction(wallet') = SumFunction(wallet) + z
          /\ SumFunction(Balances') = SumFunction(Balances) + z
          /\ DOMAIN account \subseteq DOMAIN account'
      BY <1>1, <2>2, <2>5, MoneyParts DEF walletVars
    <3>2. issued' # Unknown => issued # Unknown /\ issued' = issued + (z + z + n + (-n))
      <4>1. issued' = issued /\ z + z + n + (-n) = 0
        BY <2>2, <2>4, <2>5 DEF walletVars
      <4>2. issued # Unknown => issued \in Int
        BY MoneyParts, HandsMoved, <2>3, <2>4 DEF MInv, MoneyConserved, Money
      <4> QED
        BY <4>1, <4>2
    <3> QED
      BY <2>2, <2>3, <2>4, <2>5, <3>1, <3>2, Balanced
  <2> QED
    BY <2>5
<1>4. CASE BetSave
  <2>1. calls # <<>> /\ Top \in Spending(Exempt) /\ Top.at = "betting" /\ End
    BY <1>2, <1>4, FrameAt DEF BetSave, At, Top
  <2>2. Top.who \in People /\ Top.cash \in Int /\ Top.n \in Int /\ -Top.n \in Int
    BY <2>1 DEF Spending
  <2>3. InTransit(Top) = -Top.n /\ -(-Top.n) = Top.n
    BY <2>1, <2>2 DEF InTransit
  <2>4. Hands(Top.n)
    BY <2>1, <2>3 DEF Hands
  <2>5. Top.cash - Top.n = Top.cash + (-Top.n) /\ -Top.n + Top.n = 0
    BY <2>2
  <2>6. Save(Top.who, Top.cash, Top.cash + (-Top.n)) /\ SameBooks
    BY <1>4, <2>5 DEF BetSave, SameBooks, raceVars
  <2> QED
    BY <2>2, <2>4, <2>5, <2>6, MoneySaved
<1>5. ASSUME NEW odds \in Odds, RunRace(odds)
      PROVE  MInv'
  <2> DEFINE f == [at |-> "starting", odds |-> odds, pot |-> pot, bank |-> wallet[RaceObj]]
  <2>1. InTransit(f) = 0 /\ Fits(f)
    BY DEF InTransit, Fits
  <2>2. calls' = <<f>> \o calls /\ UNCHANGED <<raceVars, walletVars>>
    BY <1>5 DEF RunRace, Begin
  <2> HIDE DEF f
  <2>3. Hands(0)
    BY <2>1, <2>2 DEF Hands
  <2> QED
    BY <1>1, <2>2, <2>3, MoneyKept DEF walletVars, raceVars
<1>9. CASE LoadWinners
  <2>1. calls # <<>> /\ Top \in Starting /\ Top.at = "starting"
    BY <1>2, <1>9, FrameAt DEF LoadWinners, At, Top
  <2>2. PICK winners \in SUBSET DOMAIN tickets :
          calls' = <<[at |-> "racing", won |-> [p \in winners |-> tickets[p] * Top.odds],
                      pot |-> Top.pot, bank |-> Top.bank, paid |-> 0]>> \o Tail(calls)
    BY <1>9 DEF LoadWinners
  <2> DEFINE g == [at |-> "racing", won |-> [p \in winners |-> tickets[p] * Top.odds],
                   pot |-> Top.pot, bank |-> Top.bank, paid |-> 0]
  <2>3. InTransit(g) = -g.paid /\ g.paid = 0 /\ Fits(g)
    BY DEF InTransit, Fits
  <2>4. calls' = <<g>> \o Tail(calls)
    BY <2>2
  <2> HIDE DEF g
  <2>5. InTransit(g) = 0 /\ InTransit(Top) = 0
    <3>1. InTransit(Top) = 0
      BY <2>1 DEF InTransit
    <3> QED
      BY <2>3, <3>1, MinusZero, Zenon
  <2>6. 0 = InTransit(g) - InTransit(Top) /\ InTransit(g) \in Int
    BY <2>5
  <2>7. Hands(0)
    BY <2>1, <2>3, <2>4, <2>6 DEF Hands
  <2>8. UNCHANGED <<wallet, pot, issued>>
    BY <1>9 DEF LoadWinners, raceVars, walletVars
  <2> QED
    BY <1>1, <2>7, <2>8, MoneyKept
<1>6. CASE PayWinner
  <2>1. calls # <<>> /\ Top \in Racing /\ Top.at = "racing"
    BY <1>2, <1>6, FrameAt DEF PayWinner, At, Top
  <2>2. PICK p \in DOMAIN Top.won :
          /\ wallet' = [wallet EXCEPT ![p] = @ + Top.won[p]]
          /\ calls' = <<[Top EXCEPT !.won = [x \in DOMAIN @ \ {p} |-> @[x]],
                                   !.paid = @ + Top.won[p]]>> \o Tail(calls)
    BY <1>6 DEF PayWinner
  <2>3. p \in People /\ Top.won[p] \in Nat
    BY <2>1, <2>2 DEF Racing, Prizes
  <2>4. PICK n \in Nat : n = Top.won[p]
    BY <2>3
  <2> DEFINE rest == [x \in DOMAIN Top.won \ {p} |-> Top.won[x]]
             g == [Top EXCEPT !.won = rest, !.paid = Top.paid + n]
  <2>5. calls' = <<g>> \o Tail(calls)
    BY <2>1, <2>2, <2>4 DEF Racing
  <2> HIDE DEF rest
  <2>6. g.at = "racing" /\ g.paid = Top.paid + n /\ Top.paid \in Nat
    BY <2>1, PaidOutFrame
  <2> HIDE DEF g
  <2>7. InTransit(g) = -(Top.paid + n) /\ InTransit(Top) = -Top.paid /\ Fits(g)
    BY <2>1, <2>6 DEF InTransit, Fits
  <2>8. InTransit(g) \in Int /\ -n = InTransit(g) - InTransit(Top)
    BY <2>6, <2>7
  <2>9. Hands(-n)
    BY <2>1, <2>5, <2>7, <2>8 DEF Hands
  <2>10. wallet' = [wallet EXCEPT ![p] = wallet[p] + n] /\ SameBooks /\ issued' = issued
    BY <1>6, <2>2, <2>4 DEF PayWinner, SameBooks, raceVars
  <2>11. issued' # Unknown => issued # Unknown /\ issued' = issued + (n + (-n))
    <3>1. issued # Unknown => issued \in Int
      BY MoneyParts, HandsMoved, <2>9 DEF MInv, MoneyConserved, Money
    <3> QED
      BY <2>10, <3>1
  <2>12. n \in Int /\ -n \in Int
    OBVIOUS
  <2> QED
    BY <2>3, <2>9, <2>10, <2>11, <2>12, MoneyAdded
<1>7. CASE BankSave
  <2>1. calls # <<>> /\ Top \in Racing /\ Top.at = "racing"
    BY <1>2, <1>7, FrameAt DEF BankSave, At, Top
  <2>2. Top.bank \in Int /\ Top.pot \in Int /\ Top.paid \in Int /\ RaceObj \in People
    BY <2>1, ShipRacesAssumption DEF Racing
  <2> DEFINE g == [Top EXCEPT !.at = "raced"]
             n == Top.pot - Top.paid
  <2>3. g.at = "raced" /\ g.pot = Top.pot
    BY <2>1 DEF Racing
  <2>4. calls' = <<g>> \o Tail(calls)
    BY <1>7 DEF BankSave, Go
  <2> HIDE DEF g
  <2>5. InTransit(g) = -Top.pot /\ InTransit(Top) = -Top.paid /\ Fits(g)
    BY <2>1, <2>3 DEF InTransit, Fits
  <2>6. InTransit(g) \in Int /\ -n = InTransit(g) - InTransit(Top) /\ n \in Int
    BY <2>2, <2>5
  <2>7. Top.bank + Top.pot - Top.paid = Top.bank + n /\ n + (-n) = 0
    BY <2>2
  <2>8. Save(RaceObj, Top.bank, Top.bank + n) /\ SameBooks
    BY <1>7, <2>7 DEF BankSave, SameBooks, raceVars
  <2> HIDE DEF n
  <2>9. Hands(-n)
    BY <2>1, <2>4, <2>5, <2>6 DEF Hands
  <2>10. -n \in Int
    BY <2>6
  <2> QED
    BY <2>2, <2>6, <2>7, <2>8, <2>9, <2>10, MoneySaved
<1>8. CASE DestroyTickets
  <2>1. calls # <<>> /\ Top \in Racing /\ Top.at = "raced" /\ End
    BY <1>2, <1>8, FrameAt DEF DestroyTickets, At, Top
  <2>2. Top.pot \in Int /\ pot \in Int
    BY <2>1 DEF Racing, IInv, RaceInv
  <2>3. InTransit(Top) = -Top.pot /\ -(-Top.pot) = Top.pot
    BY <2>1, <2>2 DEF InTransit
  <2>4. Hands(Top.pot)
    BY <2>1, <2>3 DEF Hands
  <2>5. /\ pot' = pot + (-pot) /\ -pot \in Int
        /\ UNCHANGED wallet
        /\ issued' # Unknown => issued' = issued /\ pot = Top.pot
    BY <1>8, <2>2 DEF DestroyTickets
  <2>6. ASSUME NEW z \in Int, z = 0 PROVE MInv'
    <3>1. /\ SumFunction(wallet') = SumFunction(wallet) + z
          /\ SumFunction(Balances') = SumFunction(Balances) + z
          /\ DOMAIN account \subseteq DOMAIN account'
      BY <1>1, <2>5, <2>6, MoneyParts
    <3>2. issued' # Unknown => issued # Unknown /\ issued' = issued + (z + z + (-pot) + Top.pot)
      <4>1. issued # Unknown => issued \in Int
        BY MoneyParts, HandsMoved, <2>2, <2>4 DEF MInv, MoneyConserved, Money
      <4> QED
        BY <2>2, <2>5, <2>6, <4>1
    <3> QED
      BY <2>2, <2>4, <2>5, <2>6, <3>1, <3>2, Balanced
  <2> QED
    BY <2>6
<1> QED
  BY <1>3, <1>4, <1>5, <1>6, <1>7, <1>8, <1>9 DEF RaceStep, RaceCommand

(* Of the commands of cargojobs.rb only a delivery pays.                   *)
LEMMA MoneyCargo ==
  ASSUME IInv, MInv, CargoStep, UNCHANGED <<world, account, raceVars>>
  PROVE  MInv'
<1>1. SameBooks /\ UNCHANGED Balances
  BY DEF SameBooks, raceVars, Balances
<1>2. calls # <<>> => Top \in Frame(Exempt)
  BY PopFrame DEF Top, IInv
<1> DEFINE Cargo == Handling \cup {"claiming", "unassigning"}
<1>3. \A f : f.at \in Cargo => InTransit(f) = 0 /\ Fits(f)
  BY DEF Handling, Delivery, PaidFor, InTransit, Fits
<1>4. ASSUME UNCHANGED walletVars,
             \/ UNCHANGED calls
             \/ \E f : f.at \in Cargo /\ Begin(f)
             \/ calls # <<>> /\ Top.at \in Cargo /\ End
             \/ \E point \in Cargo : calls # <<>> /\ Top.at \in Cargo /\ Go(point)
      PROVE  MInv'
  <2>1. Hands(0)
    <3>1. CASE UNCHANGED calls
      BY <3>1 DEF Hands
    <3>2. CASE \E f : f.at \in Cargo /\ Begin(f)
      BY <1>3, <3>2 DEF Begin, Hands
    <3>3. CASE calls # <<>> /\ Top.at \in Cargo /\ End
      BY <1>3, <3>3, HandsOff
    <3>4. CASE \E point \in Cargo : calls # <<>> /\ Top.at \in Cargo /\ Go(point)
      <4>1. PICK point \in Cargo : calls # <<>> /\ Top.at \in Cargo /\ Go(point)
        BY <3>4
      <4> DEFINE g == [Top EXCEPT !.at = point]
      <4>2. Top \in Claiming \cup Unassigning \cup Loading \cup Delivering \cup Moving
        BY <1>2, <4>1, FrameAt DEF Handling, Delivery, PaidFor
      <4>3. g.at = point
        BY <4>2 DEF Claiming, Unassigning, Loading, Delivering, Moving
      <4>4. calls' = <<g>> \o Tail(calls)
        BY <4>1 DEF Go
      <4> HIDE DEF g
      <4>5. InTransit(g) = 0 /\ InTransit(Top) = 0 /\ Fits(g)
        BY <1>3, <4>1, <4>3
      <4>6. 0 = InTransit(g) - InTransit(Top) /\ InTransit(g) \in Int
        BY <4>5
      <4> QED
        BY <4>1, <4>4, <4>5, <4>6 DEF Hands
    <3> QED
      BY <1>4, <3>1, <3>2, <3>3, <3>4
  <2> QED
    BY <1>1, <1>4, <2>1, MoneyKept DEF SameBooks, walletVars
<1>5. CASE DeliverPay
  <2>1. calls # <<>> /\ Top \in Delivering /\ Top.at = "paying"
    BY <1>2, <1>5, FrameAt DEF DeliverPay, At, Top
  <2>2. Top.pays \in People /\ Price \in Int
    BY <1>5, <2>1, CargoJobsAssumption DEF DeliverPay, Delivering
  <2> DEFINE g == [Top EXCEPT !.at = "unloading"]
  <2>3. g.at = "unloading"
    BY <2>1 DEF Delivering
  <2>4. calls' = <<g>> \o Tail(calls)
    BY <1>5 DEF DeliverPay, Go
  <2> HIDE DEF g
  <2>5. InTransit(g) = 0 /\ InTransit(Top) = 0 /\ Fits(g)
    BY <2>1, <2>3 DEF InTransit, Fits
  <2>6. wallet' = [wallet EXCEPT ![Top.pays] = wallet[Top.pays] + Price]
    BY <1>5 DEF DeliverPay
  <2>7. issued' # Unknown => issued # Unknown /\ issued' = issued + Price
    BY <1>5 DEF DeliverPay, Issue
  <2>8. ASSUME NEW z \in Int, z = 0 PROVE MInv'
    <3>1. z = InTransit(g) - InTransit(Top) /\ InTransit(g) \in Int
      BY <2>5, <2>8
    <3>2. Hands(z)
      BY <2>1, <2>4, <2>5, <3>1 DEF Hands
    <3>3. Price + z = Price
      BY <2>2, <2>8
    <3> QED
      BY <1>1, <2>2, <2>6, <2>7, <2>8, <3>2, <3>3, MoneyAdded
  <2> QED
    BY <2>8
<1>6. CASE CargoCommand
  <2>1. CASE \E j \in Jobs \cap world : Generate(j)
    BY <1>4, <2>1 DEF Generate, AtOnce
  <2>2. CASE \E j \in DOMAIN job, p \in Persons :
               Unclaim(p, j) \/ \E v \in Persons : Assign(p, j, v)
    BY <1>4, <2>2 DEF Unclaim, Assign, AtOnce
  <2>3. CASE \E j \in DOMAIN job, p \in Persons : Claim(p, j) \/ Unassign(p, j)
    <3>1. \E f : f.at \in Cargo /\ Begin(f) /\ UNCHANGED walletVars
      BY <2>3 DEF Claim, Unassign
    <3> QED
      BY <1>4, <3>1
  <2>4. CASE \E j \in DOMAIN job : \/ \E p \in Persons, s \in Ships : Load(p, j, s)
                                  \/ Deliver(j) \/ \E s \in Ships : Transfer(j, s)
    <3>1. PICK j \in DOMAIN job : \/ \E p \in Persons, s \in Ships : Load(p, j, s)
                                 \/ Deliver(j) \/ \E s \in Ships : Transfer(j, s)
      BY <2>4
    <3>2. CASE \E p \in Persons, s \in Ships : Load(p, j, s)
      <4>1. \E f : f.at \in Cargo /\ Begin(f) /\ UNCHANGED walletVars
        BY <3>2 DEF Load, Handle, Handling, Delivery, PaidFor
      <4> QED
        BY <1>4, <4>1
    <3>3. CASE Deliver(j)
      <4>1. \E f : f.at \in Cargo /\ Begin(f) /\ UNCHANGED walletVars
        BY <3>3 DEF Deliver, Handle, Handling, Delivery, PaidFor
      <4> QED
        BY <1>4, <4>1
    <3>4. CASE \E s \in Ships : Transfer(j, s)
      <4>1. \E f : f.at \in Cargo /\ Begin(f) /\ UNCHANGED walletVars
        BY <3>4 DEF Transfer, Handle, Handling, Delivery, PaidFor
      <4> QED
        BY <1>4, <4>1
    <3> QED
      BY <3>1, <3>2, <3>3, <3>4
  <2> QED
    BY <1>6, <2>1, <2>2, <2>3, <2>4 DEF CargoCommand
<1>7. CASE \E j \in DOMAIN job : Expire(j)
  BY <1>4, <1>7 DEF Expire
<1>8. CASE \/ ClaimSave \/ UnassignSave \/ LoadSave \/ DeliverSave \/ TransferSave
           \/ LoadRefused \/ DeliverRefused \/ TransferRefused
  <2>1. calls # <<>> /\ Top.at \in Cargo /\ End /\ UNCHANGED walletVars
    BY <1>8 DEF ClaimSave, UnassignSave, LoadSave, DeliverSave, TransferSave,
       LoadRefused, DeliverRefused, TransferRefused, At, Top, Handling, Delivery, PaidFor
  <2> QED
    BY <1>4, <2>1
<1>9. CASE \/ LoadList \/ LoadCur \/ DeliverLand \/ DeliverList \/ DeliverCur
           \/ TransferOnList \/ TransferOnCur \/ TransferOffList \/ TransferOffCur
  <2>1. \E point \in Cargo : /\ calls # <<>> /\ Top.at \in Cargo /\ Go(point)
                             /\ UNCHANGED walletVars
    BY <1>9 DEF LoadList, LoadCur, DeliverLand, DeliverList, DeliverCur, TransferOnList,
       TransferOnCur, TransferOffList, TransferOffCur, At, Top, Handling, Delivery, PaidFor
  <2> QED
    BY <1>4, <2>1
<1> QED
  BY <1>5, <1>6, <1>7, <1>8, <1>9 DEF CargoStep

(* A command that fails has nothing in its hands, or the history says so.  *)
LEMMA MoneyNext == IInv /\ MInv /\ [Next]_vars => MInv'
<1> SUFFICES ASSUME IInv, MInv, [Next]_vars PROVE MInv'
  OBVIOUS
<1>1. CASE WalletStep /\ UNCHANGED <<world, account, cargoVars, raceVars>>
  BY <1>1, MoneyWallets
<1>2. CASE AccountStep /\ UNCHANGED <<world, cargoVars, raceVars>>
  BY <1>2, MoneyAccounts
<1>3. CASE RaceStep /\ UNCHANGED <<world, account, cargoVars>>
  BY <1>3, MoneyRaces
<1>4. CASE CargoStep /\ UNCHANGED <<world, account, raceVars>>
  BY <1>4, MoneyCargo
<1>5. CASE Abort
  <2>1. /\ UNCHANGED <<wallet, pot, account, Balances>> /\ calls # <<>> /\ End
        /\ issued' = IF InTransit(Top) # 0 THEN Unknown ELSE issued
    BY <1>5 DEF Abort, Lost, raceVars, Balances
  <2>2. CASE InTransit(Top) = 0
    <3>1. Hands(0)
      BY <2>1, <2>2, HandsOff
    <3> QED
      BY <2>1, <2>2, <3>1, MoneyKept
  <2>3. CASE InTransit(Top) # 0
    <3>1. Hands(-InTransit(Top))
      BY <2>1 DEF Hands
    <3>2. ShopInv'
      BY <2>1, <3>1, ShopMoved DEF MInv
    <3> QED
      BY <2>1, <2>3, <3>2 DEF MInv, MoneyConserved
  <2> QED
    BY <2>2, <2>3
<1>6. CASE Crash
  <2>1. /\ UNCHANGED <<wallet, pot, account, Balances>> /\ calls' = <<>>
        /\ issued' = IF \E f \in Range(calls) : InTransit(f) # 0 THEN Unknown ELSE issued
    BY <1>6 DEF Crash, Lost, raceVars, Balances
  <2>2. ShopInv'
    BY <2>1 DEF ShopInv
  <2>3. ASSUME issued' # Unknown PROVE Money' = issued'
    <3>1. issued' = issued /\ \A i \in DOMAIN calls : InTransit(calls[i]) = 0
      BY <2>1, <2>3 DEF Range
    <3>2. Hand(calls) = 0
      <4> DEFINE F == [i \in DOMAIN calls |-> InTransit(calls[i])]
      <4>1. IsFiniteSet(DOMAIN calls)
        <5>1. DOMAIN calls = 1..Len(calls) /\ Len(calls) \in Nat
          BY DEF IInv
        <5> QED
          BY <5>1, FS_Interval
      <4>2. DOMAIN F = DOMAIN calls /\ \A i \in DOMAIN calls : F[i] = 0
        BY <3>1
      <4>3. Hand(calls) = SumFunctionOnSet(F, DOMAIN F)
        BY DEF Hand, SumFunction
      <4> HIDE DEF F
      <4> QED
        BY <4>1, <4>2, <4>3, SumZero
    <3>3. SumFunction(InHands') = 0
      <4>1. SumFunction(InHands') = Hand(calls')
        BY DEF InHands, Hand
      <4> QED
        BY <2>1, <4>1, HandEmpty
    <3>4. Money' = Money
      <4>1. SumFunction(InHands) = SumFunction(InHands')
        BY <3>2, <3>3, MoneyParts
      <4> QED
        BY <2>1, <4>1 DEF Money
    <3> QED
      BY <3>1, <3>4, <2>3 DEF MInv, MoneyConserved
  <2> QED
    BY <2>2, <2>3 DEF MInv, MoneyConserved
<1>7. CASE UNCHANGED vars
  BY <1>7 DEF vars, raceVars, MInv, ShopInv, Fits, MoneyConserved, Money, Balances, InHands
<1> QED
  BY <1>1, <1>2, <1>3, <1>4, <1>5, <1>6, <1>7 DEF Next, Step

(* In the beginning there is no money.                                     *)
LEMMA MoneyInit == Init => MInv
<1> SUFFICES ASSUME Init PROVE MInv
  OBVIOUS
<1>1. /\ wallet = [p \in People |-> 0] /\ issued = 0 /\ calls = <<>> /\ pot = 0
      /\ DOMAIN account = {}
  BY DEF Init, WalletsInit, AccountsInit, ShipRacesInit
<1>2. SumFunction(wallet) = 0
  <2>1. DOMAIN wallet = People /\ \A p \in People : wallet[p] = 0
    BY <1>1
  <2> QED
    BY <2>1, WalletsAssumption, SumZero DEF SumFunction
<1>3. SumFunction(Balances) = 0
  <2>1. DOMAIN Balances = {} /\ IsFiniteSet({})
    BY <1>1, FS_EmptySet DEF Balances
  <2>2. SumFunctionOnSet(Balances, {}) = 0
    BY <2>1, SumStep
  <2> QED
    BY <2>1, <2>2 DEF SumFunction
<1>4. SumFunction(InHands) = 0
  <2>1. SumFunction(InHands) = Hand(calls)
    BY DEF InHands, Hand
  <2> QED
    BY <1>1, <2>1, HandEmpty
<1>5. Money = 0
  BY <1>1, <1>2, <1>3, <1>4 DEF Money
<1> QED
  BY <1>1, <1>5 DEF MInv, ShopInv, MoneyConserved

(* No money is lost or made, in the economy of any size and for commands   *)
(* nested to any depth, but by the three ways the history marks.           *)
THEOREM MoneyIsConserved == Spec => []MoneyConserved
<1>1. MInv => MoneyConserved
  BY DEF MInv
<1> QED
  BY <1>1, InitInv, NextInv, MoneyInit, MoneyNext, PTL DEF Spec
=============================================================================
