-------------------------- MODULE CargoJobs_proofs --------------------------
(***************************************************************************)
(* A job is paid once, and a hold is what the jobs say it is, in the       *)
(* economy of any size.  As long as no delivery of it is begun within      *)
(* another and none fails after it paid, a job that was paid is completed, *)
(* or the delivery that paid it is still on the stack and will complete    *)
(* it.  And as long as no two commands move the same cargo at a time and   *)
(* none fails half-way the frames say how far the holds and the jobs are   *)
(* apart.                                                                  *)
(***************************************************************************)
EXTENDS Economy_proofs

(* Where a delivery has not paid.                                          *)
Unpaid == {"landing", "paying"}

(* The command in frame i moves the cargo of job j.                        *)
Moves(i, j) == i \in DOMAIN calls /\ calls[i].at \in Handling /\ calls[i].job = j

(* It delivers it.                                                         *)
Delivers(i, j) == i \in DOMAIN calls /\ calls[i].at \in Delivery /\ calls[i].job = j

(* Its job exists, and is not completed while its delivery is not paid.    *)
FrameInv ==
  \A i \in DOMAIN calls :
    /\ calls[i].at \in Handling => calls[i].job \in DOMAIN job
    /\ calls[i].at \in Unpaid /\ calls[i].job \notin repeated
         => ~job[calls[i].job].completed

(* Two commands move cargo that is not counted as disturbed, or deliver    *)
(* what is not counted as repeated.                                        *)
Overlap(i, k, j) ==
  \/ j \notin disturbed /\ Moves(i, j) /\ Moves(k, j)
  \/ j \notin repeated /\ Delivers(i, j) /\ Delivers(k, j)

(* There are no two.                                                       *)
AloneInv == \A i, k \in DOMAIN calls : \A j : Overlap(i, k, j) => i = k

Finished(j) == j \in DOMAIN job /\ job[j].completed

Finishing(j) == \E i \in DOMAIN calls : calls[i].at \in PaidFor /\ calls[i].job = j

PaidInv ==
  /\ paid \in [Jobs -> {0, 1}]
  /\ \A j \in Jobs \ repeated : paid[j] = 1 => Finished(j) \/ Finishing(j)

PInv == FrameInv /\ AloneInv /\ PaidInv

-----------------------------------------------------------------------------
(* The ways in which a step may change the stack and the jobs.             *)

(* No job is completed or taken back.                                      *)
JobsKept ==
  \A j \in DOMAIN job : j \in DOMAIN job' /\ job'[j].completed = job[j].completed

(* No command begins, goes on or ends.                                     *)
LEMMA SameStack ==
  ASSUME PInv, UNCHANGED <<calls, paid, disturbed, repeated>>, JobsKept
  PROVE  PInv'
<1>1. FrameInv'
  <2> SUFFICES ASSUME NEW i \in DOMAIN calls
               PROVE  /\ calls[i].at \in Handling => calls[i].job \in DOMAIN job'
                      /\ calls[i].at \in Unpaid /\ calls[i].job \notin repeated
                           => ~job'[calls[i].job].completed
    BY DEF FrameInv
  <2>1. Unpaid \subseteq Delivery /\ Delivery \subseteq Handling
    BY DEF Unpaid, Handling, Delivery, PaidFor
  <2> QED
    BY <2>1 DEF PInv, FrameInv, JobsKept
<1>2. AloneInv'
  BY DEF PInv, AloneInv, Overlap, Moves, Delivers
<1>3. PaidInv'
  BY DEF PInv, PaidInv, Finished, Finishing, JobsKept
<1> QED
  BY <1>1, <1>2, <1>3 DEF PInv

(* A command begins that moves no cargo.                                   *)
LEMMA PushedOther ==
  ASSUME IInv, PInv, NEW f, f.at \notin Handling, calls' = <<f>> \o calls,
         UNCHANGED <<paid, disturbed, repeated>>, JobsKept
  PROVE  PInv'
<1> DEFINE t == calls'
<1>1. /\ \A i \in DOMAIN t : i = 1 \/ (i - 1 \in DOMAIN calls /\ t[i] = calls[i - 1])
      /\ \A i \in DOMAIN calls : i + 1 \in DOMAIN t /\ t[i + 1] = calls[i]
      /\ t[1] = f
      /\ DOMAIN t \subseteq Int
  BY OnTop DEF IInv
<1>2. Unpaid \subseteq Delivery /\ PaidFor \subseteq Delivery /\ Delivery \subseteq Handling
  BY DEF Unpaid, PaidFor, Handling, Delivery
<1>3. FrameInv'
  <2> SUFFICES ASSUME NEW i \in DOMAIN t
               PROVE  /\ t[i].at \in Handling => t[i].job \in DOMAIN job'
                      /\ t[i].at \in Unpaid /\ t[i].job \notin repeated
                           => ~job'[t[i].job].completed
    BY DEF FrameInv
  <2>1. CASE t[i] = f
    BY <1>2, <2>1
  <2>2. CASE i - 1 \in DOMAIN calls /\ t[i] = calls[i - 1]
    BY <1>2, <2>2 DEF PInv, FrameInv, JobsKept
  <2> QED
    BY <1>1, <2>1, <2>2
<1>4. AloneInv'
  <2> SUFFICES ASSUME NEW i \in DOMAIN t, NEW k \in DOMAIN t, NEW j, t[i].job = j, t[k].job = j,
                      \/ /\ j \notin disturbed
                         /\ t[i].at \in Handling /\ t[k].at \in Handling
                      \/ /\ j \notin repeated
                         /\ t[i].at \in Delivery /\ t[k].at \in Delivery
               PROVE  i = k
    BY DEF AloneInv, Overlap, Moves, Delivers
  <2>1. /\ i - 1 \in DOMAIN calls /\ t[i] = calls[i - 1]
        /\ k - 1 \in DOMAIN calls /\ t[k] = calls[k - 1]
    BY <1>1, <1>2
  <2>2. i - 1 = k - 1
    BY <2>1 DEF PInv, AloneInv, Overlap, Moves, Delivers
  <2>3. i \in Int /\ k \in Int
    BY <1>1
  <2> QED
    BY <2>2, <2>3
<1>5. PaidInv'
  <2> SUFFICES ASSUME NEW j \in Jobs \ repeated, paid[j] = 1
               PROVE  Finished(j)' \/ Finishing(j)'
    BY DEF PInv, PaidInv
  <2>1. CASE Finished(j)
    BY <2>1 DEF Finished, JobsKept
  <2>2. CASE Finishing(j)
    <3>1. PICK i \in DOMAIN calls : calls[i].at \in PaidFor /\ calls[i].job = j
      BY <2>2 DEF Finishing
    <3>2. i + 1 \in DOMAIN t /\ t[i + 1] = calls[i]
      BY <1>1
    <3> QED
      BY <3>1, <3>2 DEF Finishing
  <2> QED
    BY <2>1, <2>2 DEF PInv, PaidInv
<1> QED
  BY <1>3, <1>4, <1>5 DEF PInv

(* A command begins that moves cargo.                                      *)
LEMMA PushedMover ==
  ASSUME IInv, PInv, NEW f, f.at \in {"boarding", "landing", "mooring"}, Handle(f),
         f.job \in DOMAIN job, f.at = "landing" => ~job[f.job].completed,
         UNCHANGED <<job, paid>>
  PROVE  PInv'
<1> DEFINE t == calls'
<1>1. /\ \A i \in DOMAIN t : i = 1 \/ (i - 1 \in DOMAIN calls /\ t[i] = calls[i - 1])
      /\ \A i \in DOMAIN calls : i + 1 \in DOMAIN t /\ t[i + 1] = calls[i]
      /\ t[1] = f
      /\ DOMAIN t \subseteq Int
  <2>1. t = <<f>> \o calls
    BY DEF Handle, Begin
  <2> QED
    BY <2>1, OnTop DEF IInv
<1>2. /\ Unpaid \subseteq Delivery /\ PaidFor \subseteq Delivery /\ Delivery \subseteq Handling
      /\ f.at \in Delivery => f.at = "landing"
  BY DEF Unpaid, PaidFor, Handling, Delivery
<1>3. /\ disturbed \subseteq disturbed' /\ repeated \subseteq repeated'
      /\ f.job \in disturbed' \/ \A i : ~Moves(i, f.job)
      /\ f.at \in Delivery => f.job \in repeated' \/ \A i : ~Delivers(i, f.job)
  BY DEF Handle, Busy, Moves, Delivers
<1>4. FrameInv'
  <2> SUFFICES ASSUME NEW i \in DOMAIN t
               PROVE  /\ t[i].at \in Handling => t[i].job \in DOMAIN job
                      /\ t[i].at \in Unpaid /\ t[i].job \notin repeated'
                           => ~job[t[i].job].completed
    BY DEF FrameInv
  <2>1. CASE i = 1
    BY <1>1, <1>2, <2>1
  <2>2. CASE i - 1 \in DOMAIN calls /\ t[i] = calls[i - 1]
    BY <1>3, <2>2 DEF PInv, FrameInv
  <2> QED
    BY <1>1, <2>1, <2>2
<1>5. AloneInv'
  <2> SUFFICES ASSUME NEW i \in DOMAIN t, NEW k \in DOMAIN t, NEW j, t[i].job = j, t[k].job = j,
                      \/ /\ j \notin disturbed'
                         /\ t[i].at \in Handling /\ t[k].at \in Handling
                      \/ /\ j \notin repeated'
                         /\ t[i].at \in Delivery /\ t[k].at \in Delivery
               PROVE  i = k
    BY DEF AloneInv, Overlap, Moves, Delivers
  <2>1. CASE i = 1
    <3>1. j = f.job
      BY <1>1, <2>1
    <3>2. ~(k - 1 \in DOMAIN calls /\ t[k] = calls[k - 1])
      BY <1>1, <1>3, <2>1, <3>1 DEF Moves, Delivers
    <3> QED
      BY <1>1, <2>1, <3>2
  <2>2. CASE k = 1
    <3>1. j = f.job
      BY <1>1, <2>2
    <3>2. ~(i - 1 \in DOMAIN calls /\ t[i] = calls[i - 1])
      BY <1>1, <1>3, <2>2, <3>1 DEF Moves, Delivers
    <3> QED
      BY <1>1, <2>2, <3>2
  <2>3. CASE i # 1 /\ k # 1
    <3>1. /\ i - 1 \in DOMAIN calls /\ t[i] = calls[i - 1]
          /\ k - 1 \in DOMAIN calls /\ t[k] = calls[k - 1]
      BY <1>1, <2>3
    <3>2. i - 1 = k - 1
      BY <1>3, <3>1 DEF PInv, AloneInv, Overlap, Moves, Delivers
    <3>3. i \in Int /\ k \in Int
      BY <1>1
    <3> QED
      BY <3>2, <3>3
  <2> QED
    BY <2>1, <2>2, <2>3
<1>6. PaidInv'
  <2> SUFFICES ASSUME NEW j \in Jobs \ repeated', paid[j] = 1
               PROVE  Finished(j)' \/ Finishing(j)'
    BY DEF PInv, PaidInv
  <2>1. Finished(j) \/ Finishing(j)
    BY <1>3 DEF PInv, PaidInv
  <2>2. CASE Finished(j)
    BY <2>2 DEF Finished
  <2>3. CASE Finishing(j)
    <3>1. PICK i \in DOMAIN calls : calls[i].at \in PaidFor /\ calls[i].job = j
      BY <2>3 DEF Finishing
    <3>2. i + 1 \in DOMAIN t /\ t[i + 1] = calls[i]
      BY <1>1
    <3> QED
      BY <3>1, <3>2 DEF Finishing
  <2> QED
    BY <2>1, <2>2, <2>3
<1> QED
  BY <1>4, <1>5, <1>6 DEF PInv

(* A command goes on: it moves what it moved, and has paid if it had.      *)
LEMMA Replaced ==
  ASSUME IInv, PInv, calls # <<>>, NEW g, calls' = <<g>> \o Tail(calls),
         g.at \in Handling => Top.at \in Handling /\ g.job = Top.job,
         Top.at \in PaidFor => g.at \in PaidFor /\ g.job = Top.job,
         g.at \in Unpaid => Top.at \in Unpaid,
         g.at \in Delivery => Top.at \in Delivery,
         UNCHANGED <<paid, disturbed, repeated>>, JobsKept
  PROVE  PInv'
<1> DEFINE t == calls'
<1>1. /\ DOMAIN t = DOMAIN calls
      /\ \A i \in DOMAIN calls : t[i] = IF i = 1 THEN g ELSE calls[i]
      /\ 1 \in DOMAIN calls /\ Top = calls[1]
  BY NewTop DEF IInv, Top
<1>2. Unpaid \subseteq Delivery /\ Delivery \subseteq Handling
  BY DEF Unpaid, Handling, Delivery, PaidFor
<1>3. \A i \in DOMAIN calls : t[i].at \in Handling =>
        /\ calls[i].at \in Handling /\ t[i].job = calls[i].job
        /\ t[i].at \in Unpaid => calls[i].at \in Unpaid
        /\ t[i].at \in Delivery => calls[i].at \in Delivery
  BY <1>1
<1>4. \A i \in DOMAIN calls : calls[i].at \in PaidFor =>
        t[i].at \in PaidFor /\ t[i].job = calls[i].job
  BY <1>1
<1> HIDE DEF t
<1>5. FrameInv'
  <2> SUFFICES ASSUME NEW i \in DOMAIN calls
               PROVE  /\ t[i].at \in Handling => t[i].job \in DOMAIN job'
                      /\ t[i].at \in Unpaid /\ t[i].job \notin repeated
                           => ~job'[t[i].job].completed
    BY <1>1 DEF FrameInv, t
  <2> QED
    BY <1>2, <1>3 DEF PInv, FrameInv, JobsKept
<1>6. AloneInv'
  <2> SUFFICES ASSUME NEW i \in DOMAIN calls, NEW k \in DOMAIN calls, NEW j, t[i].job = j, t[k].job = j,
                      \/ /\ j \notin disturbed
                         /\ t[i].at \in Handling /\ t[k].at \in Handling
                      \/ /\ j \notin repeated
                         /\ t[i].at \in Delivery /\ t[k].at \in Delivery
               PROVE  i = k
    BY <1>1 DEF AloneInv, Overlap, Moves, Delivers, t
  <2> QED
    BY <1>2, <1>3 DEF PInv, AloneInv, Overlap, Moves, Delivers
<1>7. PaidInv'
  <2> SUFFICES ASSUME NEW j \in Jobs \ repeated, paid[j] = 1
               PROVE  Finished(j)' \/ Finishing(j)'
    BY DEF PInv, PaidInv
  <2>1. CASE Finished(j)
    BY <2>1 DEF Finished, JobsKept
  <2>2. CASE Finishing(j)
    <3>1. PICK i \in DOMAIN calls : calls[i].at \in PaidFor /\ calls[i].job = j
      BY <2>2 DEF Finishing
    <3>2. i \in DOMAIN t /\ t[i].at \in PaidFor /\ t[i].job = j
      BY <1>1, <1>4, <3>1
    <3> QED
      BY <3>2 DEF Finishing, t
  <2> QED
    BY <2>1, <2>2 DEF PInv, PaidInv
<1> QED
  BY <1>5, <1>6, <1>7 DEF PInv

(* A command ends, and one that has paid ends with the job completed, or   *)
(* leaves it repeated.                                                     *)
LEMMA Popped ==
  ASSUME IInv, PInv, calls # <<>>, End, UNCHANGED paid,
         disturbed \subseteq disturbed', repeated \subseteq repeated',
         \A j \in DOMAIN job : j \in DOMAIN job' /\ (job[j].completed => job'[j].completed),
         \A j \in DOMAIN job : job'[j].completed =>
           job[j].completed \/ (Top.at \in Delivery /\ Top.job = j),
         Top.at \in PaidFor =>
           Top.job \in repeated' \/ (Top.job \in DOMAIN job' /\ job'[Top.job].completed)
  PROVE  PInv'
<1> DEFINE t == calls'
<1>1. /\ \A i \in DOMAIN t : i + 1 \in DOMAIN calls /\ t[i] = calls[i + 1]
      /\ \A i \in DOMAIN calls : i = 1 \/ (i - 1 \in DOMAIN t /\ t[i - 1] = calls[i])
      /\ 1 \in DOMAIN calls /\ Top = calls[1]
      /\ DOMAIN t \subseteq Nat \ {0}
  <2>1. t = Tail(calls)
    BY DEF End
  <2> QED
    BY <2>1, OffTop DEF IInv, Top
<1>2. Unpaid \subseteq Delivery /\ Delivery \subseteq Handling
  BY DEF Unpaid, Handling, Delivery, PaidFor
<1> HIDE DEF t
<1>3. FrameInv'
  <2> SUFFICES ASSUME NEW i \in DOMAIN t
               PROVE  /\ t[i].at \in Handling => t[i].job \in DOMAIN job'
                      /\ t[i].at \in Unpaid /\ t[i].job \notin repeated'
                           => ~job'[t[i].job].completed
    BY DEF FrameInv, t
  <2>1. i + 1 \in DOMAIN calls /\ t[i] = calls[i + 1] /\ i + 1 # 1
    BY <1>1
  <2>2. t[i].at \in Handling => t[i].job \in DOMAIN job /\ t[i].job \in DOMAIN job'
    BY <2>1 DEF PInv, FrameInv
  <2>3. ASSUME t[i].at \in Unpaid, t[i].job \notin repeated', job'[t[i].job].completed
        PROVE  FALSE
    <3>1. t[i].job \notin repeated /\ t[i].job \in DOMAIN job
      BY <1>2, <2>2, <2>3
    <3>2. ~job[t[i].job].completed
      BY <2>1, <2>3, <3>1 DEF PInv, FrameInv
    <3>3. Top.at \in Delivery /\ Top.job = t[i].job
      BY <2>3, <3>1, <3>2
    <3>4. Delivers(1, t[i].job) /\ Delivers(i + 1, t[i].job)
      BY <1>1, <1>2, <2>1, <2>3, <3>3 DEF Delivers
    <3> QED
      BY <1>1, <2>1, <3>1, <3>4 DEF PInv, AloneInv, Overlap
  <2> QED
    BY <2>2, <2>3
<1>4. AloneInv'
  <2> SUFFICES ASSUME NEW i \in DOMAIN t, NEW k \in DOMAIN t, NEW j, t[i].job = j, t[k].job = j,
                      \/ /\ j \notin disturbed'
                         /\ t[i].at \in Handling /\ t[k].at \in Handling
                      \/ /\ j \notin repeated'
                         /\ t[i].at \in Delivery /\ t[k].at \in Delivery
               PROVE  i = k
    BY DEF AloneInv, Overlap, Moves, Delivers, t
  <2>1. /\ i + 1 \in DOMAIN calls /\ t[i] = calls[i + 1]
        /\ k + 1 \in DOMAIN calls /\ t[k] = calls[k + 1]
        /\ i \in Nat /\ k \in Nat
    BY <1>1
  <2>2. i + 1 = k + 1
    BY <2>1 DEF PInv, AloneInv, Overlap, Moves, Delivers
  <2> QED
    BY <2>1, <2>2
<1>5. PaidInv'
  <2> SUFFICES ASSUME NEW j \in Jobs \ repeated', paid[j] = 1
               PROVE  Finished(j)' \/ Finishing(j)'
    BY DEF PInv, PaidInv
  <2>1. Finished(j) \/ Finishing(j)
    BY DEF PInv, PaidInv
  <2>2. CASE Finished(j)
    BY <2>2 DEF Finished
  <2>3. CASE Finishing(j)
    <3>1. PICK i \in DOMAIN calls : calls[i].at \in PaidFor /\ calls[i].job = j
      BY <2>3 DEF Finishing
    <3>2. CASE i = 1
      BY <1>1, <3>1, <3>2 DEF Finished
    <3>3. CASE i # 1
      <4>1. i - 1 \in DOMAIN t /\ t[i - 1] = calls[i]
        BY <1>1, <3>3
      <4> QED
        BY <3>1, <4>1 DEF Finishing, t
    <3> QED
      BY <3>2, <3>3
  <2> QED
    BY <2>1, <2>2, <2>3
<1> QED
  BY <1>3, <1>4, <1>5 DEF PInv

-----------------------------------------------------------------------------
(* The steps.                                                              *)

(* Points that move no cargo.                                              *)
LEMMA OtherPoints ==
  \A at \in {"told", "debited", "granting", "deposited", "withdrawn", "buying", "bought",
             "transferring", "betting", "starting", "racing", "raced", "claiming", "unassigning"} :
    at \notin Handling /\ at \notin Delivery /\ at \notin PaidFor /\ at \notin Unpaid
  BY DEF Handling, Delivery, PaidFor, Unpaid

(* What a command that moves no cargo does to the stack.                   *)
Aside ==
  \/ UNCHANGED calls
  \/ \E f : f.at \notin Handling /\ Begin(f)
  \/ calls # <<>> /\ Top.at \notin Handling /\ End
  \/ calls # <<>> /\ Top.at \notin Handling
       /\ \E g : g.at \notin Handling /\ calls' = <<g>> \o Tail(calls)

(* A step of a command that moves no cargo.                                *)
LEMMA OtherStep ==
  ASSUME IInv, PInv, UNCHANGED <<paid, disturbed, repeated>>, JobsKept, Aside
  PROVE  PInv'
<1>1. PaidFor \subseteq Delivery /\ Unpaid \subseteq Delivery /\ Delivery \subseteq Handling
  BY DEF PaidFor, Unpaid, Handling, Delivery
<1>2. CASE UNCHANGED calls
  BY <1>2, SameStack
<1>3. CASE \E f : f.at \notin Handling /\ Begin(f)
  BY <1>3, PushedOther DEF Begin
<1>4. CASE calls # <<>> /\ Top.at \notin Handling /\ End
  BY <1>1, <1>4, Popped DEF JobsKept
<1>5. CASE calls # <<>> /\ Top.at \notin Handling
             /\ \E g : g.at \notin Handling /\ calls' = <<g>> \o Tail(calls)
  BY <1>1, <1>5, Replaced
<1> QED
  BY <1>2, <1>3, <1>4, <1>5 DEF Aside

(* The top frame with another point is at that point, and is of its job.   *)
LEMMA Gone ==
  ASSUME IInv, calls # <<>>, NEW point, Top.at \in Handling \cup {"told", "buying", "racing"}
  PROVE  [Top EXCEPT !.at = point].at = point /\ [Top EXCEPT !.at = point].job = Top.job
<1>1. Top \in Frame(Exempt)
  BY PopFrame DEF IInv, Top
<1> HIDE DEF Top
<1>2. \/ Top \in Paying(Exempt) \/ Top \in Buying(Exempt) \/ Top \in Racing
      \/ Top \in Loading \/ Top \in Delivering \/ Top \in Moving
  BY <1>1, FrameAt DEF Handling, Delivery, PaidFor
<1> QED
  BY <1>2 DEF Paying, Buying, Racing, Loading, Delivering, Moving

(* Steps of wallets.rb, accounts.rb and lib-shiprace.rb.                   *)
LEMMA ElsewhereAside ==
  ASSUME IInv, WalletStep \/ AccountStep \/ RaceStep
  PROVE  Aside
<1>2. CASE WalletStep
  <2>1. CASE WalletCommand
    BY <2>1, OtherPoints DEF Aside, WalletCommand, Pay, Grant, PutDown
  <2>2. CASE PayDebit
    BY <2>2, Gone, OtherPoints DEF Aside, PayDebit, At, Go, Top
  <2>3. CASE PayCredit \/ GrantSave
    BY <2>3, OtherPoints DEF Aside, PayCredit, GrantSave, At, Top
  <2> QED
    BY <1>2, <2>1, <2>2, <2>3 DEF WalletStep
<1>3. CASE AccountStep
  <2>1. CASE AccountCommand
    BY <2>1, OtherPoints DEF Aside, AccountCommand, AccountDeposit, AccountWithdraw,
       VendorPurchase, AddAccess, RemAccess, AccountOwner, AccountClose, AccountOpen, AtOnce
  <2>2. CASE DepositSave \/ WithdrawSave \/ ChangeOwner \/ PurchaseDeposit
    BY <2>2, OtherPoints
    DEF Aside, DepositSave, WithdrawSave, ChangeOwner, PurchaseDeposit, At, Top
  <2>3. CASE PurchaseSave
    BY <2>3, Gone, OtherPoints DEF Aside, PurchaseSave, At, Go, Top
  <2> QED
    BY <1>3, <2>1, <2>2, <2>3 DEF AccountStep
<1>4. CASE RaceStep
  <2>1. CASE RaceCommand
    BY <2>1, OtherPoints DEF Aside, RaceCommand, Purchase, RunRace
  <2>2. CASE BetSave \/ DestroyTickets
    BY <2>2, OtherPoints DEF Aside, BetSave, DestroyTickets, At, Top
  <2>3. CASE BankSave
    BY <2>3, Gone, OtherPoints DEF Aside, BankSave, At, Go, Top
  <2>5. CASE LoadWinners
    <3>1. calls # <<>> /\ Top.at = "starting"
      BY <2>5 DEF LoadWinners, At, Top
    <3>2. \E g : g.at = "racing" /\ calls' = <<g>> \o Tail(calls)
      BY <2>5 DEF LoadWinners
    <3> QED
      BY <3>1, <3>2, OtherPoints DEF Aside
  <2>4. CASE PayWinner
    <3>1. calls # <<>> /\ Top.at = "racing" /\ Top \in Racing
      BY <2>4, PopFrame, FrameAt DEF IInv, PayWinner, At, Top
    <3>2. \E won, n : calls' = <<[Top EXCEPT !.won = won, !.paid = n]>> \o Tail(calls)
      BY <2>4 DEF PayWinner
    <3>3. \A won, n : [Top EXCEPT !.won = won, !.paid = n].at = "racing"
      BY <3>1 DEF Racing
    <3> QED
      BY <3>1, <3>2, <3>3, OtherPoints DEF Aside
  <2> QED
    BY <1>4, <2>1, <2>2, <2>3, <2>4, <2>5 DEF RaceStep
<1> QED
  BY <1>2, <1>3, <1>4

(* They move no cargo.                                                     *)
LEMMA ElsewhereStep ==
  ASSUME IInv, PInv, WalletStep \/ AccountStep \/ RaceStep, UNCHANGED cargoVars
  PROVE  PInv'
<1>1. UNCHANGED <<paid, disturbed, repeated>> /\ JobsKept
  BY DEF cargoVars, JobsKept
<1> QED
  BY <1>1, ElsewhereAside, OtherStep

(* What is saved of a job, but that it was delivered, keeps it.            *)
LEMMA SavedJob ==
  ASSUME JobInv, NEW j,
         \/ \E v : job' = [job EXCEPT ![j].claimed_by = v]
         \/ \E v : job' = [job EXCEPT ![j].assigned_to = v]
         \/ \E v : job' = [job EXCEPT ![j].loaded_on = v]
         \/ \E v, w : job' = [job EXCEPT ![j].claimed_by = v, ![j].assigned_to = w]
         \/ \E v, w : job' = [job EXCEPT ![j].loaded_on = v, ![j].assigned_to = w]
  PROVE  JobsKept
<1>1. job \in [DOMAIN job -> Job]
  BY DEF JobInv
<1>2. DOMAIN job' = DOMAIN job
  OBVIOUS
<1>3. ASSUME NEW i \in DOMAIN job PROVE job'[i].completed = job[i].completed
  <2>1. job[i] \in Job
    BY <1>1, <1>3
  <2>2. CASE i = j
    BY <1>3, <2>1, <2>2 DEF Job
  <2>3. CASE i # j
    BY <1>3, <2>3
  <2> QED
    BY <2>2, <2>3
<1> QED
  BY <1>2, <1>3 DEF JobsKept

(* Every job stays where it is, and new ones are nowhere.                  *)
JobsStay ==
  /\ \A j \in DOMAIN job : /\ j \in DOMAIN job'
                           /\ job'[j].completed = job[j].completed
                           /\ job'[j].loaded_on = job[j].loaded_on
  /\ \A j \in DOMAIN job' \ DOMAIN job : ~job'[j].completed /\ job'[j].loaded_on = Nobody

(* What is saved of the claim to a job leaves the job where it is.         *)
LEMMA ClaimedJob ==
  ASSUME JobInv, NEW j,
         \/ \E v : job' = [job EXCEPT ![j].claimed_by = v]
         \/ \E v : job' = [job EXCEPT ![j].assigned_to = v]
         \/ \E v, w : job' = [job EXCEPT ![j].claimed_by = v, ![j].assigned_to = w]
  PROVE  JobsStay
<1>1. job \in [DOMAIN job -> Job]
  BY DEF JobInv
<1>2. DOMAIN job' = DOMAIN job
  OBVIOUS
<1>3. ASSUME NEW i \in DOMAIN job
      PROVE  job'[i].completed = job[i].completed /\ job'[i].loaded_on = job[i].loaded_on
  <2>1. job[i] \in Job
    BY <1>1, <1>3
  <2>2. CASE i = j
    BY <1>3, <2>1, <2>2 DEF Job
  <2>3. CASE i # j
    BY <1>3, <2>3
  <2> QED
    BY <2>2, <2>3
<1> QED
  BY <1>2, <1>3 DEF JobsStay

(* The commands of cargojobs.rb that move no cargo.                        *)
BooksCommand ==
  \/ \E j \in Jobs : Generate(j)
  \/ \E j \in DOMAIN job : Expire(j)
  \/ \E j \in DOMAIN job, p \in Persons :
       \/ Claim(p, j) \/ Unassign(p, j) \/ Unclaim(p, j)
       \/ \E v \in Persons : Assign(p, j, v)
  \/ ClaimSave \/ UnassignSave

(* They leave the holds and the jobs as they are.                          *)
LEMMA BooksAside ==
  ASSUME IInv, BooksCommand
  PROVE  Aside /\ JobsStay /\ UNCHANGED <<onboard, cur, paid, disturbed, repeated>>
<1>1. JobInv
  BY DEF IInv
<1>2. CASE \E j \in Jobs : Generate(j)
  <2>1. PICK j : Generate(j)
    BY <1>2
  <2>2. /\ DOMAIN job' = DOMAIN job \cup {j}
        /\ \A x \in DOMAIN job : job'[x] = job[x]
        /\ ~job'[j].completed /\ job'[j].loaded_on = Nobody
    BY <2>1 DEF Generate
  <2>3. JobsStay
    BY <2>2 DEF JobsStay
  <2> QED
    BY <1>2, <2>3 DEF Generate, AtOnce, Aside, hold, history
<1>3. CASE \E j \in DOMAIN job : Expire(j)
  BY <1>3 DEF Expire, Aside, JobsStay, hold, history
<1>4. CASE \E j \in DOMAIN job, p \in Persons : Claim(p, j) \/ Unassign(p, j)
  BY <1>4, OtherPoints DEF Claim, Unassign, Aside, JobsStay, cargoVars
<1>5. CASE \E j \in DOMAIN job, p \in Persons :
             Unclaim(p, j) \/ \E v \in Persons : Assign(p, j, v)
  <2>1. PICK j : \E p \in Persons : Unclaim(p, j) \/ \E v \in Persons : Assign(p, j, v)
    BY <1>5
  <2>2. \/ \E v, w : job' = [job EXCEPT ![j].claimed_by = v, ![j].assigned_to = w]
        \/ \E v : job' = [job EXCEPT ![j].assigned_to = v]
    BY <2>1 DEF Unclaim, Assign
  <2>3. JobsStay
    BY <1>1, <2>2, ClaimedJob
  <2> QED
    BY <1>5, <2>3 DEF Unclaim, Assign, AtOnce, Aside, hold, history
<1>6. CASE ClaimSave \/ UnassignSave
  <2>1. JobsStay
    BY <1>1, <1>6, ClaimedJob DEF ClaimSave, UnassignSave
  <2> QED
    BY <1>6, <2>1, OtherPoints DEF ClaimSave, UnassignSave, At, Top, Aside, hold, history
<1> QED
  BY <1>2, <1>3, <1>4, <1>5, <1>6 DEF BooksCommand

(* They pay nothing.                                                       *)
LEMMA BooksStep ==
  ASSUME IInv, PInv, BooksCommand
  PROVE  PInv'
<1>1. Aside /\ JobsStay /\ UNCHANGED <<paid, disturbed, repeated>>
  BY BooksAside
<1> QED
  BY <1>1, OtherStep DEF JobsStay, JobsKept

(* A command that moves cargo begins.                                      *)
LEMMA MoverBegins ==
  ASSUME IInv, PInv, NEW j \in DOMAIN job,
         \/ \E p \in Persons, s \in Ships : Load(p, j, s)
         \/ Deliver(j)
         \/ \E s \in Ships : Transfer(j, s)
  PROVE  PInv'
<1>1. ASSUME NEW p \in Persons, NEW s \in Ships, Load(p, j, s) PROVE PInv'
  <2> DEFINE f == [at |-> "boarding", who |-> p, job |-> j, ship |-> s,
                   took |-> job[j].assigned_to \notin {Nobody, p}]
  <2>1. Handle(f) /\ UNCHANGED <<job, paid>>
    BY <1>1 DEF Load
  <2>2. f.at = "boarding" /\ f.job = j
    OBVIOUS
  <2> HIDE DEF f
  <2> QED
    BY <2>1, <2>2, PushedMover
<1>2. CASE Deliver(j)
  <2> DEFINE f == [at |-> "landing", job |-> j, pays |-> job[j].claimed_by,
                   ship |-> job[j].loaded_on]
  <2>1. Handle(f) /\ UNCHANGED <<job, paid>> /\ ~job[j].completed
    BY <1>2 DEF Deliver
  <2>2. f.at = "landing" /\ f.job = j
    OBVIOUS
  <2> HIDE DEF f
  <2> QED
    BY <2>1, <2>2, PushedMover
<1>3. ASSUME NEW s \in Ships, Transfer(j, s) PROVE PInv'
  <2> DEFINE f == [at |-> "mooring", job |-> j, from |-> job[j].loaded_on, ship |-> s]
  <2>1. Handle(f) /\ UNCHANGED <<job, paid>>
    BY <1>3 DEF Transfer
  <2>2. f.at = "mooring" /\ f.job = j
    OBVIOUS
  <2> HIDE DEF f
  <2> QED
    BY <2>1, <2>2, PushedMover
<1> QED
  BY <1>1, <1>2, <1>3

(* A command that moves cargo goes on, and pays nothing.                   *)
LEMMA MoverGoes ==
  ASSUME IInv, PInv,
         \/ LoadList \/ LoadCur \/ DeliverLand \/ DeliverList \/ DeliverCur
         \/ TransferOnList \/ TransferOnCur \/ TransferOffList \/ TransferOffCur
  PROVE  PInv'
<1>1. UNCHANGED <<job, paid, disturbed, repeated>> /\ calls # <<>>
  BY DEF LoadList, LoadCur, DeliverLand, DeliverList, DeliverCur, TransferOnList,
     TransferOnCur, TransferOffList, TransferOffCur, cargoVars, history, At
<1>2. JobsKept
  BY <1>1 DEF JobsKept
<1>3. PICK point :
        /\ Go(point)
        /\ Top.at \in Handling /\ point \in Handling
        /\ Top.at \in PaidFor => point \in PaidFor
        /\ point \in Unpaid => Top.at \in Unpaid
        /\ point \in Delivery => Top.at \in Delivery
  <2>1. CASE LoadList \/ LoadCur
    BY <2>1 DEF LoadList, LoadCur, At, Top, Handling, Delivery, PaidFor, Unpaid
  <2>2. CASE DeliverLand
    BY <2>2 DEF DeliverLand, At, Top, Handling, Delivery, PaidFor, Unpaid
  <2>3. CASE DeliverList \/ DeliverCur
    BY <2>3 DEF DeliverList, DeliverCur, At, Top, Handling, Delivery, PaidFor, Unpaid
  <2>4. CASE TransferOnList \/ TransferOnCur \/ TransferOffList \/ TransferOffCur
    BY <2>4 DEF TransferOnList, TransferOnCur, TransferOffList, TransferOffCur, At, Top,
       Handling, Delivery, PaidFor, Unpaid
  <2> QED
    BY <2>1, <2>2, <2>3, <2>4
<1> DEFINE g == [Top EXCEPT !.at = point]
<1>4. g.at = point /\ g.job = Top.job
  BY <1>1, <1>3, Gone
<1>5. calls' = <<g>> \o Tail(calls)
  BY <1>3 DEF Go
<1> HIDE DEF g
<1> QED
  BY <1>1, <1>2, <1>3, <1>4, <1>5, Replaced

(* A command that moves cargo ends.                                        *)
LEMMA MoverEnds ==
  ASSUME IInv, PInv,
         \/ LoadRefused \/ DeliverRefused \/ TransferRefused
         \/ LoadSave \/ TransferSave \/ DeliverSave
  PROVE  PInv'
<1>1. UNCHANGED <<paid, disturbed, repeated>> /\ calls # <<>> /\ End
  BY DEF LoadRefused, DeliverRefused, TransferRefused, LoadSave, TransferSave, DeliverSave,
     cargoVars, history, At
<1>2. JobInv
  BY DEF IInv
<1>3. CASE LoadRefused \/ DeliverRefused \/ TransferRefused \/ LoadSave \/ TransferSave
  <2>1. JobsKept
    <3>1. CASE LoadRefused \/ DeliverRefused \/ TransferRefused
      BY <3>1 DEF LoadRefused, DeliverRefused, TransferRefused, cargoVars, JobsKept
    <3>2. CASE LoadSave \/ TransferSave
      BY <1>2, <3>2, SavedJob DEF LoadSave, TransferSave
    <3> QED
      BY <1>3, <3>1, <3>2
  <2>2. Top.at \notin PaidFor
    BY <1>3 DEF LoadRefused, DeliverRefused, TransferRefused, LoadSave, TransferSave,
       At, Top, PaidFor
  <2> QED
    BY <1>1, <2>1, <2>2, Popped DEF JobsKept
<1>4. CASE DeliverSave
  <2> DEFINE j == Top.job
  <2>1. Top.at = "lightened" /\ job' = [job EXCEPT ![j].completed = TRUE]
    BY <1>4 DEF DeliverSave, At, Top
  <2>2. "lightened" \in Handling /\ "lightened" \in Delivery /\ "lightened" \in PaidFor
    BY DEF Handling, Delivery, PaidFor
  <2>3. j \in DOMAIN job
    <3>1. 1 \in DOMAIN calls /\ Top = calls[1]
      BY <1>1, OffTop DEF IInv, Top
    <3> QED
      BY <2>1, <2>2, <3>1 DEF PInv, FrameInv
  <2> HIDE DEF j
  <2>4. /\ DOMAIN job' = DOMAIN job
        /\ \A i \in DOMAIN job : job'[i].completed = (IF i = j THEN TRUE ELSE job[i].completed)
    <3>1. job \in [DOMAIN job -> Job]
      BY <1>2 DEF JobInv
    <3>2. job[j] \in Job
      BY <2>3, <3>1
    <3>3. job' = [job EXCEPT ![j] = [job[j] EXCEPT !.completed = TRUE]]
      BY <2>1, <2>3, <3>2 DEF Job
    <3>4. [job[j] EXCEPT !.completed = TRUE].completed = TRUE
      BY <3>2 DEF Job
    <3> QED
      BY <2>3, <3>3, <3>4
  <2> QED
    BY <1>1, <2>1, <2>2, <2>3, <2>4, Popped DEF j
<1> QED
  BY <1>3, <1>4

(* A delivery pays.                                                        *)
LEMMA DeliverPays ==
  ASSUME IInv, PInv, DeliverPay
  PROVE  PInv'
<1> DEFINE j == Top.job
           g == [Top EXCEPT !.at = "unloading"]
           t == calls'
<1>1. /\ calls # <<>> /\ Top.at = "paying" /\ UNCHANGED <<job, disturbed, repeated>>
      /\ t = <<g>> \o Tail(calls)
      /\ paid' = IF j \in repeated THEN paid ELSE [paid EXCEPT ![j] = @ + 1]
  BY DEF DeliverPay, At, Top, Go
<1>2. /\ DOMAIN t = DOMAIN calls
      /\ \A i \in DOMAIN calls : t[i] = IF i = 1 THEN g ELSE calls[i]
      /\ 1 \in DOMAIN calls /\ Top = calls[1]
  BY <1>1, NewTop DEF IInv, Top
<1>3. /\ "paying" \in Handling /\ "unloading" \in Handling
      /\ "paying" \in Unpaid /\ "unloading" \notin Unpaid /\ Unpaid \subseteq Delivery /\ Delivery \subseteq Handling
      /\ "paying" \notin PaidFor /\ "unloading" \in PaidFor /\ PaidFor \subseteq Delivery
  BY DEF Handling, Delivery, Unpaid, PaidFor
<1>4. g.at = "unloading" /\ g.job = j
  BY <1>1, <1>3, Gone
<1> HIDE DEF g, t
<1>5. j \in Jobs /\ j \in DOMAIN job
  <2>1. j \in DOMAIN job
    BY <1>1, <1>2, <1>3 DEF PInv, FrameInv
  <2> QED
    BY <2>1 DEF IInv, JobInv
<1>6. j \notin repeated => paid[j] = 0
  <2> SUFFICES ASSUME j \notin repeated, paid[j] = 1 PROVE FALSE
    BY <1>5 DEF PInv, PaidInv
  <2>1. ~Finished(j)
    BY <1>1, <1>2, <1>3 DEF PInv, FrameInv, Finished
  <2>2. PICK i \in DOMAIN calls : calls[i].at \in PaidFor /\ calls[i].job = j
    BY <1>5, <2>1 DEF PInv, PaidInv, Finishing
  <2>3. i = 1
    BY <1>1, <1>2, <1>3, <2>2 DEF PInv, AloneInv, Overlap, Moves, Delivers
  <2> QED
    BY <1>1, <1>2, <1>3, <2>2, <2>3
<1> HIDE DEF j
<1>7. \A i \in DOMAIN calls : t[i].at \in Handling =>
        /\ calls[i].at \in Handling /\ t[i].job = calls[i].job
        /\ t[i].at \in Unpaid => calls[i].at \in Unpaid
        /\ t[i].at \in Delivery => calls[i].at \in Delivery
  BY <1>1, <1>2, <1>3, <1>4 DEF j
<1>8. FrameInv'
  <2> SUFFICES ASSUME NEW i \in DOMAIN calls
               PROVE  /\ t[i].at \in Handling => t[i].job \in DOMAIN job
                      /\ t[i].at \in Unpaid /\ t[i].job \notin repeated
                           => ~job[t[i].job].completed
    BY <1>1, <1>2 DEF FrameInv, t
  <2> QED
    BY <1>3, <1>7 DEF PInv, FrameInv
<1>9. AloneInv'
  <2> SUFFICES ASSUME NEW i \in DOMAIN calls, NEW k \in DOMAIN calls, NEW x, t[i].job = x, t[k].job = x,
                      \/ /\ x \notin disturbed
                         /\ t[i].at \in Handling /\ t[k].at \in Handling
                      \/ /\ x \notin repeated
                         /\ t[i].at \in Delivery /\ t[k].at \in Delivery
               PROVE  i = k
    BY <1>1, <1>2 DEF AloneInv, Overlap, Moves, Delivers, t
  <2> QED
    BY <1>3, <1>7 DEF PInv, AloneInv, Overlap, Moves, Delivers
<1>10. PaidInv'
  <2>1. paid' \in [Jobs -> {0, 1}]
    BY <1>1, <1>5, <1>6 DEF PInv, PaidInv
  <2>2. ASSUME NEW x \in Jobs \ repeated, paid'[x] = 1
        PROVE  Finished(x)' \/ Finishing(x)'
    <3>1. CASE x = j
      <4>1. 1 \in DOMAIN t /\ t[1].at \in PaidFor /\ t[1].job = x
        BY <1>2, <1>3, <1>4, <3>1
      <4> QED
        BY <4>1 DEF Finishing, t
    <3>2. CASE x # j
      <4>1. paid[x] = 1
        BY <1>1, <2>2, <3>2 DEF PInv, PaidInv
      <4>2. CASE Finished(x)
        BY <1>1, <4>2 DEF Finished
      <4>3. CASE Finishing(x)
        <5>1. PICK i \in DOMAIN calls : calls[i].at \in PaidFor /\ calls[i].job = x
          BY <4>3 DEF Finishing
        <5>2. i \in DOMAIN t /\ t[i] = calls[i]
          BY <1>1, <1>2, <1>3, <5>1
        <5> QED
          BY <5>1, <5>2 DEF Finishing, t
      <4> QED
        BY <2>2, <4>1, <4>2, <4>3 DEF PInv, PaidInv
    <3> QED
      BY <3>1, <3>2
  <2> QED
    BY <1>1, <2>1, <2>2 DEF PaidInv
<1> QED
  BY <1>8, <1>9, <1>10 DEF PInv

(* An exception ends the innermost command.                                *)
LEMMA AbortStep ==
  ASSUME IInv, PInv, Abort
  PROVE  PInv'
<1>1. calls # <<>> /\ End /\ UNCHANGED <<job, paid>>
  BY DEF Abort, Lost
<1>2. /\ disturbed \subseteq disturbed'
      /\ repeated' = repeated \cup { f.job : f \in { g \in {Top} : g.at \in PaidFor } }
  BY DEF Abort, Lost
<1>3. repeated \subseteq repeated' /\ (Top.at \in PaidFor => Top.job \in repeated')
  BY <1>2
<1> QED
  BY <1>1, <1>2, <1>3, Popped

(* The process ends.                                                       *)
LEMMA CrashStep ==
  ASSUME IInv, PInv, Crash
  PROVE  PInv'
<1>1. calls' = <<>> /\ UNCHANGED <<job, paid>>
  BY DEF Crash, Lost
<1>2. repeated' = repeated \cup { f.job : f \in { g \in Range(calls) : g.at \in PaidFor } }
  BY DEF Crash, Lost
<1>3. DOMAIN calls' = {}
  BY <1>1
<1>4. FrameInv' /\ AloneInv'
  BY <1>3 DEF FrameInv, AloneInv
<1>5. PaidInv'
  <2> SUFFICES ASSUME NEW j \in Jobs \ repeated', paid[j] = 1
               PROVE  Finished(j)'
    BY <1>1 DEF PInv, PaidInv
  <2>1. j \notin repeated
    BY <1>2
  <2>2. ~Finishing(j)
    <3> SUFFICES ASSUME NEW i \in DOMAIN calls, calls[i].at \in PaidFor, calls[i].job = j
                 PROVE  FALSE
      BY DEF Finishing
    <3>1. calls[i] \in Range(calls)
      BY DEF Range
    <3> QED
      BY <1>2, <3>1
  <2> QED
    BY <1>1, <2>1, <2>2 DEF PInv, PaidInv, Finished
<1> QED
  BY <1>4, <1>5 DEF PInv

(* Every step keeps the books of the jobs.                                 *)
LEMMA PaidNext == IInv /\ PInv /\ [Next]_vars => PInv'
<1> SUFFICES ASSUME IInv, PInv, [Next]_vars PROVE PInv'
  OBVIOUS
<1>1. CASE WalletStep /\ UNCHANGED <<world, account, cargoVars, raceVars>>
  BY <1>1, ElsewhereStep
<1>2. CASE AccountStep /\ UNCHANGED <<world, cargoVars, raceVars>>
  BY <1>2, ElsewhereStep
<1>3. CASE RaceStep /\ UNCHANGED <<world, account, cargoVars>>
  BY <1>3, ElsewhereStep
<1>4. CASE CargoStep
  <2>1. CASE CargoCommand
    BY <2>1, BooksStep, MoverBegins DEF CargoCommand, BooksCommand
  <2> QED
    BY <1>4, <2>1, BooksStep, MoverGoes, MoverEnds, DeliverPays DEF CargoStep, BooksCommand
<1>5. CASE UNCHANGED vars
  <2>1. UNCHANGED <<calls, paid, disturbed, repeated>> /\ JobsKept
    BY <1>5 DEF vars, cargoVars, JobsKept
  <2> QED
    BY <2>1, SameStack
<1> QED
  BY <1>1, <1>2, <1>3, <1>4, <1>5, AbortStep, CrashStep DEF Next, Step

(* In the beginning no job was paid.                                       *)
LEMMA PaidInit == Init => PInv
<1> SUFFICES ASSUME Init PROVE PInv
  OBVIOUS
<1>1. DOMAIN calls = {}
  BY DEF Init, WalletsInit
<1> QED
  BY <1>1 DEF Init, CargoInit, PInv, FrameInv, AloneInv, PaidInv

(* No job is paid twice, unless a delivery of it is begun within another,  *)
(* or fails after it paid: cargojob_deliver() of cargojobs.rb.  Loads and  *)
(* transfers that overlap with it or fail do not make it pay twice.        *)
THEOREM NoJobPaidTwice == Spec => []JobPaidOnce
<1>1. PInv => JobPaidOnce
  BY DEF PInv, PaidInv, JobPaidOnce
<1> QED
  BY <1>1, InitInv, PaidInit, NextInv, PaidNext, PTL DEF Spec

-----------------------------------------------------------------------------
(* The holds.  The list and the sum of a ship are attributes of PennMUSH,  *)
(* and what is on board is in the jobs too; the frames say how far the     *)
(* three are apart.                                                        *)

(* The points of the three commands that move cargo.                       *)
LoadPoints == {"boarding", "listed", "weighed"}

(* Between the list of a ship and its sum.                                 *)
Uneven == {"listed", "on_list", "delisted", "off_list"}

(* The ship the job of a command is on, by the job.                        *)
Source(f) ==
  IF f.at \in LoadPoints THEN Nobody ELSE IF f.at \in Delivery THEN f.ship ELSE f.from

(* The ships that list it.                                                 *)
Listing(f) ==
  CASE f.at \in {"listed", "weighed", "landing", "paying", "unloading", "off_list", "moved"} ->
         {f.ship}
    [] f.at = "mooring" -> {f.from}
    [] f.at \in {"on_list", "on_scales"} -> {f.from, f.ship}
    [] OTHER -> {}

(* Just these ships list job j, and once.                                  *)
ListedOn(j, ships) == \A s \in Ships : onboard[s][j] = IF s \in ships THEN 1 ELSE 0

Carrier(j) == { s \in Ships : j \in Aboard(s) }

(* A job and the lists, as the command in frame f has left them.           *)
InHand(f) ==
  /\ job[f.job].loaded_on = Source(f)
  /\ ~job[f.job].completed
  /\ f.at \notin LoadPoints => Source(f) \in Ships
  /\ f.at \in {"on_list", "on_scales", "off_list", "moved"} => f.ship # f.from
  /\ ListedOn(f.job, Listing(f))

(* What is listed on ship s and not weighed yet.                           *)
Offset(s) ==
  IF calls = <<>> THEN 0
  ELSE IF Top.at \in {"listed", "on_list"} /\ Top.ship = s THEN Size
  ELSE IF \/ Top.at = "delisted" /\ Top.ship = s
          \/ Top.at = "off_list" /\ Top.from = s THEN -Size
  ELSE 0

MoversInv == \A i \in DOMAIN calls : calls[i].at \in Handling => InHand(calls[i])

RestInv ==
  \A j \in Jobs : (\A i \in DOMAIN calls : ~Moves(i, j)) => ListedOn(j, Carrier(j))

DoneInv == \A j \in DOMAIN job : job[j].completed => job[j].loaded_on # Nobody

WeightInv ==
  \A s \in Ships :
    /\ IsFiniteSet(Manifest(s))
    /\ Size * Cardinality(Manifest(s)) = cur[s] + Offset(s)

HInv == disturbed = {} => MoversInv /\ RestInv /\ DoneInv /\ WeightInv

(* Only the command on top of the stack is where it evaluates no softcode. *)
DeepInv == \A i \in DOMAIN calls : i # 1 => calls[i].at \in Softcode

RoomInv ==
  \A s \in Ships :
    /\ cur[s] <= Capacity
    /\ calls # <<>> /\ Top.at \in {"listed", "on_list"} /\ Top.ship = s => HasRoom(s)

(* Points at which nothing that moves cargo has begun to move it.          *)
Settled == {"boarding", "landing", "paying", "mooring"}

(* What the points have to do with each other.                             *)
LEMMA Points ==
  /\ Uneven \cap Softcode = {} /\ Uneven \subseteq Handling
  /\ Handling = LoadPoints \cup Delivery
                  \cup {"mooring", "on_list", "on_scales", "off_list", "moved"}
  /\ LoadPoints \cap Delivery = {}
  /\ Settled = Handling \ HalfDone
  /\ Settled \cap Uneven = {}
  BY DEF Uneven, Softcode, Handling, PaidFor, LoadPoints, Delivery, Settled, HalfDone

(* A step changes the stack at its top.                                    *)
AtTop ==
  \/ UNCHANGED calls
  \/ \E f : Begin(f)
  \/ calls # <<>> /\ End
  \/ calls # <<>> /\ \E g : calls' = <<g>> \o Tail(calls)
  \/ calls' = <<>>

(* Below the top is softcode, that is why another command is on top.       *)
LEMMA DeepStep ==
  ASSUME IInv, DeepInv, AtTop
  PROVE  DeepInv'
<1>1. CASE UNCHANGED calls
  BY <1>1 DEF DeepInv
<1>2. ASSUME NEW f, Begin(f) PROVE DeepInv'
  <2> DEFINE t == calls'
  <2>1. t = <<f>> \o calls /\ (calls # <<>> => Head(calls).at \in Softcode)
    BY <1>2 DEF Begin, MayBegin
  <2>2. \A i \in DOMAIN t : i = 1 \/ (i - 1 \in DOMAIN calls /\ t[i] = calls[i - 1])
    BY <2>1, OnTop DEF IInv
  <2> HIDE DEF t
  <2>3. \A k \in DOMAIN calls : calls[k].at \in Softcode
    <3> SUFFICES ASSUME NEW k \in DOMAIN calls PROVE calls[k].at \in Softcode
      OBVIOUS
    <3>1. calls # <<>> /\ Head(calls) = calls[1]
      BY DEF IInv
    <3> QED
      BY <2>1, <3>1 DEF DeepInv
  <2> QED
    BY <2>2, <2>3 DEF DeepInv, t
<1>3. CASE calls # <<>> /\ End
  <2> DEFINE t == calls'
  <2>1. /\ \A i \in DOMAIN t : i + 1 \in DOMAIN calls /\ t[i] = calls[i + 1]
        /\ DOMAIN t \subseteq Nat \ {0}
    <3>1. t = Tail(calls)
      BY <1>3 DEF End
    <3> QED
      BY <1>3, <3>1, OffTop DEF IInv
  <2> HIDE DEF t
  <2>2. \A i \in DOMAIN t : i + 1 # 1
    BY <2>1
  <2> QED
    BY <2>1, <2>2 DEF DeepInv, t
<1>4. CASE calls # <<>> /\ \E g : calls' = <<g>> \o Tail(calls)
  <2> DEFINE t == calls'
  <2>1. DOMAIN t = DOMAIN calls /\ \A i \in DOMAIN calls : i # 1 => t[i] = calls[i]
    BY <1>4, NewTop DEF IInv
  <2> QED
    BY <2>1 DEF DeepInv
<1>5. CASE calls' = <<>>
  BY <1>5 DEF DeepInv
<1> QED
  BY <1>1, <1>2, <1>3, <1>4, <1>5 DEF AtTop

(* While a command is uneven none begins, and when one ends or begins the  *)
(* others are not.                                                         *)
LEMMA EvenTop ==
  ASSUME IInv, DeepInv
  PROVE  /\ \A f : Begin(f) => calls = <<>> \/ Top.at \notin Uneven
         /\ calls # <<>> /\ End /\ calls' # <<>> => Top'.at \notin Uneven
         /\ \A f : Begin(f) => calls' # <<>> /\ Top' = f
         /\ \A g : calls # <<>> /\ calls' = <<g>> \o Tail(calls) => calls' # <<>> /\ Top' = g
<1>1. \A f : Begin(f) => calls = <<>> \/ Top.at \notin Uneven
  BY Points DEF Begin, MayBegin, Top
<1>2. ASSUME calls # <<>>, End, calls' # <<>> PROVE Top'.at \notin Uneven
  <2> DEFINE t == calls'
  <2>1. t = Tail(calls)
    BY <1>2 DEF End
  <2>2. t \in Seq(Frame(Exempt)) /\ \A i \in DOMAIN t : i + 1 \in DOMAIN calls /\ t[i] = calls[i + 1]
    BY <1>2, <2>1, OffTop DEF IInv
  <2> HIDE DEF t
  <2>3. 1 \in DOMAIN t /\ Head(t) = t[1]
    BY <1>2, <2>2 DEF t
  <2>4. 1 + 1 \in DOMAIN calls /\ 1 + 1 # 1 /\ t[1] = calls[1 + 1]
    BY <2>2, <2>3
  <2>5. t[1].at \in Softcode
    BY <2>4 DEF DeepInv
  <2> QED
    BY <2>3, <2>5, Points DEF Top, t
<1>3. \A f, s : s \in Seq(Frame(Exempt)) => <<f>> \o s # <<>> /\ Head(<<f>> \o s) = f
  <2> SUFFICES ASSUME NEW f, NEW s \in Seq(Frame(Exempt))
               PROVE  <<f>> \o s # <<>> /\ Head(<<f>> \o s) = f
    OBVIOUS
  <2>1. 1 \in DOMAIN (<<f>> \o s) /\ (<<f>> \o s)[1] = f
    BY OnTop
  <2> QED
    BY <2>1
<1>4. calls \in Seq(Frame(Exempt)) /\ (calls # <<>> => Tail(calls) \in Seq(Frame(Exempt)))
  BY PopFrame DEF IInv
<1>5. \A f : Begin(f) => calls' # <<>> /\ Top' = f
  BY <1>3, <1>4 DEF Begin, Top
<1>6. \A g : calls # <<>> /\ calls' = <<g>> \o Tail(calls) => calls' # <<>> /\ Top' = g
  BY <1>3, <1>4 DEF Top
<1> QED
  BY <1>1, <1>2, <1>5, <1>6

(* The command on top moves the same job between the same ships when it    *)
(* goes on.                                                                *)
LEMMA MoverGone ==
  ASSUME IInv, calls # <<>>, Top.at \in Handling, NEW point, Go(point)
  PROVE  LET g == [Top EXCEPT !.at = point]
         IN /\ calls' = <<g>> \o Tail(calls) /\ calls' # <<>> /\ Top' = g
            /\ g.at = point /\ g.job = Top.job /\ g.ship = Top.ship
            /\ Top \in Moving => g.from = Top.from
<1> DEFINE g == [Top EXCEPT !.at = point]
<1>1. Top \in Frame(Exempt)
  BY PopFrame DEF IInv, Top
<1>2. Top \in Loading \/ Top \in Delivering \/ Top \in Moving
  BY <1>1, FrameAt DEF Handling, Delivery, PaidFor
<1>3. calls' = <<g>> \o Tail(calls)
  BY DEF Go
<1>4. calls' # <<>> /\ Top' = g
  <2>1. \E r : calls' = <<g>> \o r /\ r \in Seq(Frame(Exempt))
    BY <1>3, PopFrame DEF IInv
  <2>2. 1 \in DOMAIN calls' /\ calls'[1] = g
    BY <2>1, OnTop
  <2>3. calls' # <<>> /\ Head(calls') = g
    BY <2>1, <2>2
  <2> QED
    BY <2>3 DEF Top
<1>5. /\ g.at = point /\ g.job = Top.job /\ g.ship = Top.ship
      /\ Top \in Moving => g.from = Top.from
  <2> HIDE DEF Top
  <2> QED
    BY <1>2 DEF Loading, Delivering, Moving
<1> QED
  BY <1>3, <1>4, <1>5

(* The top of a stack moves cargo between ships.                           *)
LEMMA TopMover ==
  ASSUME IInv, calls # <<>>
  PROVE  /\ 1 \in DOMAIN calls /\ Top = calls[1]
         /\ Top.at \in Handling => Top.job \in Jobs
         /\ Top.at \in LoadPoints => Top \in Loading /\ Top.ship \in Ships
         /\ Top.at \in Delivery => Top \in Delivering
         /\ Top.at \in {"mooring", "on_list", "on_scales", "off_list", "moved"} =>
              Top \in Moving /\ Top.ship \in Ships
<1>1. Top \in Frame(Exempt) /\ 1 \in DOMAIN calls /\ Top = calls[1]
  BY PopFrame, OffTop DEF IInv, Top
<1> HIDE DEF Top
<1> QED
  BY <1>1, FrameAt, TopJob DEF LoadPoints, Delivery, PaidFor, Loading, Delivering, Moving

-----------------------------------------------------------------------------
(* The capacity.                                                           *)

(* Nothing is listed, and no sum grows.                                    *)
LEMMA RoomKept ==
  ASSUME IInv, BooksInv, DeepInv, RoomInv, \A s \in Ships : cur'[s] \in Int /\ cur'[s] <= cur[s],
         \/ UNCHANGED calls
         \/ \E f : f.at \notin Uneven /\ Begin(f)
         \/ calls # <<>> /\ End
         \/ calls # <<>> /\ \E g : g.at \notin {"listed", "on_list"}
                                   /\ calls' = <<g>> \o Tail(calls)
         \/ calls' = <<>>
  PROVE  RoomInv'
<1>1. {"listed", "on_list"} \subseteq Uneven
  BY DEF Uneven
<1>2. /\ \A s \in Ships : cur[s] \in Int
      /\ Size \in Int /\ Capacity \in Int
  BY CargoJobsAssumption DEF BooksInv
<1>3. \A s \in Ships : cur'[s] <= Capacity
  BY <1>2 DEF RoomInv
<1>4. CASE UNCHANGED calls
  BY <1>2, <1>3, <1>4 DEF RoomInv, HasRoom, Top
<1>5. CASE ~UNCHANGED calls
  <2>1. calls' # <<>> => Top'.at \notin {"listed", "on_list"}
    BY <1>1, <1>5, EvenTop
  <2> QED
    BY <1>3, <2>1 DEF RoomInv
<1> QED
  BY <1>4, <1>5

(* A command that moves no cargo fills no hold.                            *)
LEMMA AsideRoom ==
  ASSUME IInv, BooksInv, DeepInv, RoomInv, UNCHANGED cur, Aside
  PROVE  RoomInv' /\ AtTop
<1>1. \A s \in Ships : cur'[s] \in Int /\ cur'[s] <= cur[s]
  BY DEF BooksInv
<1>2. \A x : x \notin Handling => x \notin Uneven /\ x \notin {"listed", "on_list"}
  BY Points DEF Uneven
<1>3. CASE UNCHANGED calls
  BY <1>1, <1>3, RoomKept DEF AtTop
<1>4. CASE \E f : f.at \notin Handling /\ Begin(f)
  BY <1>1, <1>2, <1>4, RoomKept DEF AtTop
<1>5. CASE calls # <<>> /\ End
  BY <1>1, <1>5, RoomKept DEF AtTop
<1>6. CASE calls # <<>> /\ \E g : g.at \notin Handling /\ calls' = <<g>> \o Tail(calls)
  <2>1. PICK g : g.at \notin Handling /\ calls' = <<g>> \o Tail(calls)
    BY <1>6
  <2> QED
    BY <1>1, <1>2, <1>6, <2>1, RoomKept DEF AtTop
<1> QED
  BY <1>3, <1>4, <1>5, <1>6 DEF Aside

(* What is listed had room, and is weighed before anything else is listed. *)
LEMMA RoomStep ==
  ASSUME IInv, BooksInv, DeepInv, RoomInv, CargoStep
  PROVE  RoomInv' /\ AtTop
<1>1. /\ \A s \in Ships : cur[s] \in Int
      /\ Size \in Nat /\ Capacity \in Int
  BY CargoJobsAssumption DEF BooksInv
<1>2. CASE BooksCommand
  BY <1>2, BooksAside, AsideRoom
<1>3. ASSUME NEW j \in DOMAIN job,
             \/ \E p \in Persons, s \in Ships : Load(p, j, s)
             \/ Deliver(j)
             \/ \E s \in Ships : Transfer(j, s)
      PROVE  RoomInv' /\ AtTop
  <2>1. UNCHANGED cur
    BY <1>3 DEF Load, Deliver, Transfer, hold
  <2>2. \E f : f.at \notin Uneven /\ Begin(f)
    BY <1>3 DEF Load, Deliver, Transfer, Handle, Uneven
  <2> QED
    BY <1>1, <2>1, <2>2, RoomKept DEF AtTop
<1>4. CASE LoadRefused \/ DeliverRefused \/ TransferRefused
             \/ LoadSave \/ DeliverSave \/ TransferSave
  <2>1. UNCHANGED cur /\ calls # <<>> /\ End
    BY <1>4 DEF LoadRefused, DeliverRefused, TransferRefused, LoadSave, DeliverSave,
       TransferSave, At, cargoVars, hold
  <2> QED
    BY <1>1, <2>1, RoomKept DEF AtTop
<1>5. CASE DeliverLand \/ DeliverPay \/ DeliverList \/ DeliverCur
             \/ TransferOffList \/ TransferOffCur
  <2>1. calls # <<>> /\ Top.at \in Handling
    BY <1>5 DEF DeliverLand, DeliverPay, DeliverList, DeliverCur, TransferOffList,
       TransferOffCur, At, Top, Handling, Delivery, PaidFor
  <2>2. \E point : point \notin {"listed", "on_list"} /\ Go(point)
    BY <1>5 DEF DeliverLand, DeliverPay, DeliverList, DeliverCur, TransferOffList, TransferOffCur
  <2>3. \E g : g.at \notin {"listed", "on_list"} /\ calls' = <<g>> \o Tail(calls)
    BY <2>1, <2>2, MoverGone
  <2>4. UNCHANGED cur \/ \E s : Lighter(s)
    BY <1>5 DEF DeliverLand, DeliverPay, DeliverList, DeliverCur, TransferOffList,
       TransferOffCur, cargoVars, hold
  <2>5. \A s \in Ships : cur'[s] \in Int /\ cur'[s] <= cur[s]
    BY <1>1, <2>4 DEF Lighter, BooksInv
  <2> QED
    BY <2>1, <2>3, <2>5, RoomKept DEF AtTop
<1>6. CASE LoadList \/ TransferOnList
  <2>1. calls # <<>> /\ Top.at \in Handling /\ HasRoom(Top.ship) /\ UNCHANGED cur
    BY <1>6 DEF LoadList, TransferOnList, At, Top, Handling, Delivery, PaidFor
  <2>2. \E point : Go(point)
    BY <1>6 DEF LoadList, TransferOnList
  <2>3. AtTop /\ calls' # <<>> /\ Top'.ship = Top.ship
    <3>1. PICK point : Go(point)
      BY <2>2
    <3> DEFINE g == [Top EXCEPT !.at = point]
    <3>2. calls' = <<g>> \o Tail(calls) /\ calls' # <<>> /\ Top' = g /\ g.ship = Top.ship
      BY <2>1, <3>1, MoverGone
    <3> HIDE DEF g
    <3> QED
      BY <2>1, <3>2 DEF AtTop
  <2> QED
    BY <2>1, <2>3 DEF RoomInv, HasRoom
<1>7. CASE LoadCur \/ TransferOnCur
  <2>1. calls # <<>> /\ Top.at \in Handling /\ Top.at \in {"listed", "on_list"} /\ Heavier(Top.ship)
    BY <1>7 DEF LoadCur, TransferOnCur, At, Top, Handling, Delivery, PaidFor
  <2>2. \E point : point \in {"weighed", "on_scales"} /\ Go(point)
    BY <1>7 DEF LoadCur, TransferOnCur
  <2>3. AtTop /\ calls' # <<>> /\ Top'.at \in {"weighed", "on_scales"}
    BY <2>1, <2>2, MoverGone DEF AtTop
  <2>4. cur \in [Ships -> Int]
    BY DEF BooksInv
  <2>5. ASSUME NEW s \in Ships PROVE cur'[s] <= Capacity
    <3>1. cur' = [cur EXCEPT ![Top.ship] = cur[Top.ship] + Size]
      BY <2>1 DEF Heavier
    <3>2. CASE s = Top.ship
      <4>1. cur[s] + Size <= Capacity
        BY <2>1, <3>2 DEF RoomInv, HasRoom
      <4> QED
        BY <2>4, <3>1, <3>2, <4>1
    <3>3. CASE s # Top.ship
      BY <2>4, <3>1, <3>3 DEF RoomInv
    <3> QED
      BY <3>2, <3>3
  <2> QED
    BY <2>3, <2>5 DEF RoomInv
<1>8. CASE CargoCommand
  BY <1>2, <1>3, <1>8 DEF CargoCommand, BooksCommand
<1> QED
  BY <1>2, <1>4, <1>5, <1>6, <1>7, <1>8 DEF CargoStep, BooksCommand

(* Every step leaves room for what is listed.                              *)
LEMMA RoomNext ==
  IInv /\ BooksInv /\ DeepInv /\ RoomInv /\ [Next]_vars => DeepInv' /\ RoomInv'
<1> SUFFICES ASSUME IInv, BooksInv, DeepInv, RoomInv, [Next]_vars PROVE RoomInv' /\ AtTop
  BY DeepStep
<1>1. \A s \in Ships : cur[s] \in Int
  BY DEF BooksInv
<1>2. CASE (WalletStep \/ AccountStep \/ RaceStep) /\ UNCHANGED cargoVars
  BY <1>2, ElsewhereAside, AsideRoom DEF cargoVars
<1>3. CASE CargoStep
  BY <1>3, RoomStep
<1>4. CASE Abort
  BY <1>1, <1>4, RoomKept DEF Abort, Lost, hold, AtTop
<1>5. CASE Crash
  BY <1>1, <1>5, RoomKept DEF Crash, Lost, hold, AtTop
<1>6. CASE UNCHANGED vars
  BY <1>1, <1>6, RoomKept DEF vars, cargoVars, AtTop
<1> QED
  BY <1>2, <1>3, <1>4, <1>5, <1>6 DEF Next, Step

-----------------------------------------------------------------------------
(* The lists, the sums and the jobs.                                       *)

(* Where nothing is uneven the sums are those of the lists.                *)
LEMMA EvenOffset ==
  ASSUME calls = <<>> \/ Top.at \notin Uneven
  PROVE  \A s : Offset(s) = 0
  BY DEF Offset, Uneven

(* The ships that carry a job, by the job.                                 *)
LEMMA Carriers ==
  ASSUME IInv, NEW j
  PROVE  /\ j \notin DOMAIN job => Carrier(j) = {}
         /\ j \in DOMAIN job =>
              /\ job[j].loaded_on \in Ships \cup {Nobody}
              /\ job[j].completed \in BOOLEAN
              /\ job[j].completed \/ job[j].loaded_on \notin Ships => Carrier(j) = {}
              /\ ~job[j].completed /\ job[j].loaded_on \in Ships => Carrier(j) = {job[j].loaded_on}
<1>1. j \in DOMAIN job => job[j] \in Job
  BY DEF IInv, JobInv
<1> QED
  BY <1>1 DEF Job, Carrier, Aboard

(* The same commands are about to move the same cargo.                     *)
SameMovers ==
  /\ \A i \in DOMAIN calls' : calls'[i].at \in Handling =>
       \E k \in DOMAIN calls : calls'[i] = calls[k]
  /\ \A k \in DOMAIN calls : calls[k].at \in Handling =>
       \E i \in DOMAIN calls' : calls'[i] = calls[k]

(* No cargo is moved.                                                      *)
LEMMA HoldKept ==
  ASSUME IInv, PInv, HInv, IInv', SameMovers, JobsStay, \A s \in Ships : Offset(s)' = Offset(s),
         UNCHANGED <<onboard, cur, disturbed>>
  PROVE  HInv'
<1> SUFFICES ASSUME disturbed = {} PROVE (MoversInv /\ RestInv /\ DoneInv /\ WeightInv)'
  BY DEF HInv
<1>1. MoversInv /\ RestInv /\ DoneInv /\ WeightInv
  BY DEF HInv
<1>2. MoversInv'
  <2> SUFFICES ASSUME NEW i \in DOMAIN calls', calls'[i].at \in Handling
               PROVE  InHand(calls[i])'
    BY DEF MoversInv
  <2>1. PICK k \in DOMAIN calls : calls'[i] = calls[k]
    BY DEF SameMovers
  <2>2. InHand(calls[k]) /\ calls[k].job \in DOMAIN job
    BY <1>1, <2>1 DEF MoversInv, PInv, FrameInv
  <2> QED
    BY <2>1, <2>2 DEF InHand, ListedOn, Source, Listing, JobsStay
<1>3. RestInv'
  <2> SUFFICES ASSUME NEW j \in Jobs, \A i \in DOMAIN calls' : ~Moves(i, j)'
               PROVE  ListedOn(j, Carrier(j))'
    BY DEF RestInv
  <2>1. \A k \in DOMAIN calls : ~Moves(k, j)
    BY DEF Moves, SameMovers
  <2>2. ListedOn(j, Carrier(j))
    BY <1>1, <2>1 DEF RestInv
  <2>3. Carrier(j)' = Carrier(j)
    <3>1. \A s \in Ships : s # Nobody
      BY CargoJobsAssumption
    <3> QED
      BY <3>1 DEF Carrier, Aboard, JobsStay
  <2> QED
    BY <2>2, <2>3 DEF ListedOn
<1>4. DoneInv'
  BY <1>1 DEF DoneInv, JobsStay
<1>5. WeightInv'
  BY <1>1 DEF WeightInv, Manifest
<1> QED
  BY <1>2, <1>3, <1>4, <1>5

(* A command that moves no cargo.                                          *)
LEMMA AsideHold ==
  ASSUME IInv, PInv, HInv, DeepInv, IInv', Aside, JobsStay, UNCHANGED <<onboard, cur, disturbed>>
  PROVE  HInv'
<1> DEFINE t == calls'
<1>1. Uneven \subseteq Handling
  BY Points
<1>2. CASE UNCHANGED calls
  <2>1. SameMovers /\ \A s \in Ships : Offset(s)' = Offset(s)
    BY <1>2 DEF SameMovers, Offset, Top
  <2> QED
    BY <2>1, HoldKept
<1>3. CASE \E f : f.at \notin Handling /\ Begin(f)
  <2>1. PICK f : f.at \notin Handling /\ Begin(f)
    BY <1>3
  <2>2. /\ \A i \in DOMAIN t : i = 1 \/ (i - 1 \in DOMAIN calls /\ t[i] = calls[i - 1])
        /\ \A i \in DOMAIN calls : i + 1 \in DOMAIN t /\ t[i + 1] = calls[i]
        /\ t[1] = f
    BY <2>1, OnTop DEF Begin, IInv
  <2>3. calls = <<>> \/ Top.at \notin Uneven
    BY <2>1, EvenTop
  <2>4. t # <<>> /\ Top' = f
    BY <2>1, EvenTop
  <2> HIDE DEF t
  <2>5. SameMovers
    BY <2>1, <2>2 DEF SameMovers, t
  <2>6. \A s : Offset(s)' = 0
    BY <1>1, <2>1, <2>4 DEF Offset, Uneven, t
  <2>7. \A s \in Ships : Offset(s)' = Offset(s)
    BY <2>3, <2>6, EvenOffset
  <2> QED
    BY <2>5, <2>7, HoldKept
<1>4. CASE calls # <<>> /\ Top.at \notin Handling /\ End
  <2>1. /\ \A i \in DOMAIN t : i + 1 \in DOMAIN calls /\ t[i] = calls[i + 1]
        /\ \A i \in DOMAIN calls : i = 1 \/ (i - 1 \in DOMAIN t /\ t[i - 1] = calls[i])
        /\ Top = calls[1]
    <3>1. t = Tail(calls)
      BY <1>4 DEF End
    <3> QED
      BY <1>4, <3>1, OffTop DEF IInv, Top
  <2>2. t = <<>> \/ Top'.at \notin Uneven
    BY <1>4, EvenTop
  <2> HIDE DEF t
  <2>3. SameMovers
    BY <1>4, <2>1 DEF SameMovers, t
  <2>4. \A s : Offset(s)' = 0
    BY <2>2 DEF Offset, Uneven, t
  <2>5. \A s \in Ships : Offset(s)' = Offset(s)
    BY <1>1, <1>4, <2>4, EvenOffset
  <2> QED
    BY <2>3, <2>5, HoldKept
<1>5. CASE calls # <<>> /\ Top.at \notin Handling
             /\ \E g : g.at \notin Handling /\ calls' = <<g>> \o Tail(calls)
  <2>1. PICK g : g.at \notin Handling /\ calls' = <<g>> \o Tail(calls)
    BY <1>5
  <2>2. /\ DOMAIN t = DOMAIN calls
        /\ \A i \in DOMAIN calls : t[i] = IF i = 1 THEN g ELSE calls[i]
        /\ Top = calls[1]
    BY <1>5, <2>1, NewTop DEF IInv, Top
  <2>3. t # <<>> /\ Top' = g
    BY <1>5, <2>1, EvenTop
  <2> HIDE DEF t
  <2>4. SameMovers
    BY <1>5, <2>1, <2>2 DEF SameMovers, t
  <2>5. \A s : Offset(s)' = 0
    BY <1>1, <2>1, <2>3 DEF Offset, Uneven, t
  <2>6. \A s \in Ships : Offset(s)' = Offset(s)
    BY <1>1, <1>5, <2>5, EvenOffset
  <2> QED
    BY <2>4, <2>6, HoldKept
<1> QED
  BY <1>2, <1>3, <1>4, <1>5 DEF Aside

(* A command that will move cargo begins: the job is where its frame says. *)
LEMMA BeginHold ==
  ASSUME IInv, PInv, HInv, DeepInv, IInv', NEW f, f.at \in {"boarding", "landing", "mooring"},
         Handle(f), f.job \in DOMAIN job, UNCHANGED <<job, onboard, cur>>,
         f.at = "boarding" => job[f.job].loaded_on = Nobody,
         f.at # "boarding" => job[f.job].loaded_on # Nobody /\ ~job[f.job].completed,
         f.at = "landing" => f.ship = job[f.job].loaded_on,
         f.at = "mooring" => f.from = job[f.job].loaded_on
  PROVE  HInv'
<1> DEFINE t == calls'
<1> SUFFICES ASSUME disturbed' = {} PROVE (MoversInv /\ RestInv /\ DoneInv /\ WeightInv)'
  BY DEF HInv
<1>1. /\ MoversInv /\ RestInv /\ DoneInv /\ WeightInv
      /\ \A i \in DOMAIN calls : ~Moves(i, f.job)
  BY DEF HInv, Handle, Busy, Moves
<1>2. Begin(f)
  BY DEF Handle
<1>3. /\ \A i \in DOMAIN t : i = 1 \/ (i - 1 \in DOMAIN calls /\ t[i] = calls[i - 1])
      /\ \A i \in DOMAIN calls : i + 1 \in DOMAIN t /\ t[i + 1] = calls[i]
      /\ t[1] = f
  BY <1>2, OnTop DEF Begin, IInv
<1>4. /\ calls = <<>> \/ Top.at \notin Uneven
      /\ t # <<>> /\ Top' = f
  BY <1>2, EvenTop
<1> HIDE DEF t
<1>5. f.job \in Jobs /\ Nobody \notin Ships
  BY CargoJobsAssumption DEF IInv, JobInv
<1>6. InHand(f)'
  <2>1. ListedOn(f.job, Carrier(f.job))
    BY <1>1, <1>5 DEF RestInv
  <2>2. CASE f.at = "boarding"
    <3>1. Source(f) = Nobody /\ Listing(f) = {} /\ f.at \in LoadPoints
      BY <2>2 DEF Source, Listing, LoadPoints
    <3>2. Carrier(f.job) = {} /\ ~job[f.job].completed
      BY <1>1, <1>5, <2>2, Carriers DEF DoneInv
    <3> QED
      BY <2>1, <2>2, <3>1, <3>2 DEF InHand, ListedOn, Source, Listing
  <2>3. CASE f.at \in {"landing", "mooring"}
    <3>1. Source(f) = job[f.job].loaded_on /\ Listing(f) = {job[f.job].loaded_on}
      BY <2>3 DEF Source, Listing, LoadPoints, Delivery, PaidFor
    <3>2. job[f.job].loaded_on \in Ships /\ Carrier(f.job) = {job[f.job].loaded_on}
      BY <1>5, <2>3, Carriers
    <3> QED
      BY <2>1, <2>3, <3>1, <3>2 DEF InHand, ListedOn, Source, Listing
  <2> QED
    BY <2>2, <2>3
<1>7. MoversInv'
  <2> SUFFICES ASSUME NEW i \in DOMAIN t, t[i].at \in Handling
               PROVE  InHand(calls[i])'
    BY DEF MoversInv, t
  <2>1. CASE i = 1
    BY <1>3, <1>6, <2>1 DEF InHand, ListedOn, Source, Listing, t
  <2>2. CASE i - 1 \in DOMAIN calls /\ t[i] = calls[i - 1]
    <3>1. InHand(calls[i - 1])
      BY <1>1, <2>2 DEF MoversInv
    <3> QED
      BY <2>2, <3>1 DEF InHand, ListedOn, Source, Listing, t
  <2> QED
    BY <1>3, <2>1, <2>2
<1>8. RestInv'
  <2> SUFFICES ASSUME NEW j \in Jobs, \A i \in DOMAIN t : ~Moves(i, j)'
               PROVE  ListedOn(j, Carrier(j))'
    BY DEF RestInv, t
  <2>1. \A k \in DOMAIN calls : ~Moves(k, j)
    BY <1>3 DEF Moves, t
  <2>2. ListedOn(j, Carrier(j))
    BY <1>1, <2>1 DEF RestInv
  <2> QED
    BY <2>2 DEF ListedOn, Carrier, Aboard
<1>9. DoneInv'
  BY <1>1 DEF DoneInv
<1>10. WeightInv'
  <2>1. \A s : Offset(s)' = 0
    BY <1>4 DEF Offset, t
  <2>2. \A s : Offset(s) = 0
    BY <1>4, EvenOffset
  <2> QED
    BY <1>1, <2>1, <2>2 DEF WeightInv, Manifest
<1> QED
  BY <1>7, <1>8, <1>9, <1>10

(* The command on top goes on.                                             *)
LEMMA GoesHold ==
  ASSUME IInv, PInv, HInv, IInv', calls # <<>>, Top.at \in Handling, disturbed = {},
         NEW g, calls' = <<g>> \o Tail(calls), g.at \in Handling, g.job = Top.job,
         UNCHANGED <<job, disturbed>>, Source(g) = Source(Top),
         g.at \notin LoadPoints => Top.at \notin LoadPoints,
         g.at \in {"on_list", "on_scales", "off_list", "moved"} => g.ship # g.from,
         \A s \in Ships : \A j \in Jobs : j # g.job => onboard'[s][j] = onboard[s][j],
         \A s \in Ships : onboard'[s][g.job] = IF s \in Listing(g) THEN 1 ELSE 0,
         WeightInv'
  PROVE  HInv'
<1> DEFINE t == calls'
<1>1. MoversInv /\ RestInv /\ DoneInv
  BY DEF HInv
<1>2. /\ DOMAIN t = DOMAIN calls
      /\ \A i \in DOMAIN calls : t[i] = IF i = 1 THEN g ELSE calls[i]
      /\ 1 \in DOMAIN calls /\ Top = calls[1]
  BY NewTop DEF IInv, Top
<1> HIDE DEF t
<1>3. MoversInv'
  <2> SUFFICES ASSUME NEW i \in DOMAIN calls, t[i].at \in Handling
               PROVE  InHand(calls[i])'
    BY <1>2 DEF MoversInv, t
  <2>1. CASE i = 1
    <3>1. InHand(Top)
      BY <1>1, <1>2 DEF MoversInv
    <3>2. t[i] = g
      BY <1>2, <2>1
    <3>3. /\ job[g.job].loaded_on = Source(g)
          /\ ~job[g.job].completed
          /\ g.at \notin LoadPoints => Source(g) \in Ships
      BY <3>1 DEF InHand
    <3> QED
      BY <3>2, <3>3 DEF InHand, ListedOn, Source, Listing, t
  <2>2. CASE i # 1
    <3>1. t[i] = calls[i] /\ InHand(calls[i])
      BY <1>1, <1>2, <2>2 DEF MoversInv
    <3>2. calls[i].job # g.job
      BY <1>2, <2>2, <3>1 DEF PInv, AloneInv, Overlap, Moves
    <3>3. calls[i].job \in Jobs
      BY <3>1 DEF PInv, FrameInv, IInv, JobInv
    <3> QED
      BY <3>1, <3>2, <3>3 DEF InHand, ListedOn, Source, Listing, t
  <2> QED
    BY <2>1, <2>2
<1>4. RestInv'
  <2> SUFFICES ASSUME NEW j \in Jobs, \A i \in DOMAIN t : ~Moves(i, j)'
               PROVE  ListedOn(j, Carrier(j))'
    BY DEF RestInv, t
  <2>1. j # g.job
    BY <1>2 DEF Moves, t
  <2>2. \A k \in DOMAIN calls : ~Moves(k, j)
    BY <1>2, <2>1 DEF Moves, t
  <2>3. ListedOn(j, Carrier(j))
    BY <1>1, <2>2 DEF RestInv
  <2> QED
    BY <2>1, <2>3 DEF ListedOn, Carrier, Aboard
<1>5. DoneInv'
  BY <1>1 DEF DoneInv
<1> QED
  BY <1>3, <1>4, <1>5 DEF HInv

(* The command on top ends, and the job is on board of the ship that lists *)
(* it.                                                                     *)
LEMMA EndsHold ==
  ASSUME IInv, PInv, HInv, DeepInv, IInv', calls # <<>>, End, Top.at \in Handling,
         Top.at \notin Uneven, disturbed = {}, UNCHANGED <<onboard, cur, disturbed>>,
         NEW x, x = Top.job, DOMAIN job' = DOMAIN job,
         \A j \in DOMAIN job : j # x => job'[j] = job[j],
         job'[x].completed => job'[x].loaded_on # Nobody,
         Carrier(x)' = Listing(Top) \cap Ships
  PROVE  HInv'
<1> DEFINE t == calls'
<1>1. MoversInv /\ RestInv /\ DoneInv /\ WeightInv
  BY DEF HInv
<1>2. /\ \A i \in DOMAIN t : i + 1 \in DOMAIN calls /\ t[i] = calls[i + 1] /\ i + 1 # 1
      /\ \A i \in DOMAIN calls : i = 1 \/ (i - 1 \in DOMAIN t /\ t[i - 1] = calls[i])
      /\ 1 \in DOMAIN calls /\ Top = calls[1]
  <2>1. t = Tail(calls)
    BY DEF End
  <2> QED
    BY <2>1, OffTop DEF IInv, Top
<1>3. t = <<>> \/ Top'.at \notin Uneven
  BY EvenTop
<1> HIDE DEF t
<1>4. InHand(Top)
  BY <1>1, <1>2 DEF MoversInv
<1>5. MoversInv'
  <2> SUFFICES ASSUME NEW i \in DOMAIN t, t[i].at \in Handling
               PROVE  InHand(calls[i])'
    BY DEF MoversInv, t
  <2>1. t[i] = calls[i + 1] /\ InHand(calls[i + 1])
    BY <1>1, <1>2 DEF MoversInv
  <2>2. calls[i + 1].job # x
    BY <1>2, <2>1 DEF PInv, AloneInv, Overlap, Moves
  <2>3. calls[i + 1].job \in DOMAIN job
    BY <1>2, <2>1 DEF PInv, FrameInv
  <2> QED
    BY <2>1, <2>2, <2>3 DEF InHand, ListedOn, Source, Listing, t
<1>6. RestInv'
  <2> SUFFICES ASSUME NEW j \in Jobs, \A i \in DOMAIN t : ~Moves(i, j)'
               PROVE  ListedOn(j, Carrier(j))'
    BY DEF RestInv, t
  <2>1. CASE j = x
    <3>1. ListedOn(x, Listing(Top))
      BY <1>4 DEF InHand
    <3>2. \A s \in Ships : s \in Carrier(x)' <=> s \in Listing(Top)
      OBVIOUS
    <3> QED
      BY <2>1, <3>1, <3>2 DEF ListedOn
  <2>2. CASE j # x
    <3>1. \A k \in DOMAIN calls : ~Moves(k, j)
      BY <1>2, <2>2 DEF Moves, t
    <3>2. ListedOn(j, Carrier(j))
      BY <1>1, <3>1 DEF RestInv
    <3>3. Carrier(j)' = Carrier(j)
      BY <2>2 DEF Carrier, Aboard
    <3> QED
      BY <3>2, <3>3 DEF ListedOn
  <2> QED
    BY <2>1, <2>2
<1>7. DoneInv'
  BY <1>1 DEF DoneInv
<1>8. WeightInv'
  <2>1. \A s : Offset(s)' = 0
    BY <1>3 DEF Offset, Uneven, t
  <2>2. \A s : Offset(s) = 0
    BY EvenOffset
  <2>3. \A s : Manifest(s)' = Manifest(s)
    BY DEF Manifest
  <2> QED
    BY <1>1, <2>1, <2>2, <2>3 DEF WeightInv
<1> QED
  BY <1>5, <1>6, <1>7, <1>8 DEF HInv

(* A job more is on the list.                                              *)
LEMMA MoreListed ==
  ASSUME BooksInv, BooksInv', NEW s \in Ships, NEW j \in Jobs, Listed(s, j), onboard[s][j] = 0,
         IsFiniteSet(Manifest(s))
  PROVE  /\ onboard'[s][j] = 1
         /\ \A r \in Ships : \A k \in Jobs : r # s \/ k # j => onboard'[r][k] = onboard[r][k]
         /\ \A r \in Ships : r # s => Manifest(r)' = Manifest(r)
         /\ IsFiniteSet(Manifest(s)')
         /\ Size * Cardinality(Manifest(s)') = Size * Cardinality(Manifest(s)) + Size
<1>1. onboard \in [Ships -> [Jobs -> Nat]] /\ Size \in Nat
  BY CargoJobsAssumption DEF BooksInv
<1>2. onboard' = [onboard EXCEPT ![s] = [onboard[s] EXCEPT ![j] = 1]]
  <2> DEFINE n == onboard[s][j] + 1
  <2>1. n = 1 /\ onboard' = [onboard EXCEPT ![s][j] = n]
    BY DEF Listed
  <2> HIDE DEF n
  <2> QED
    BY <1>1, <2>1
<1>3. /\ onboard'[s][j] = 1
      /\ \A r \in Ships : \A k \in Jobs : r # s \/ k # j => onboard'[r][k] = onboard[r][k]
  BY <1>1, <1>2
<1>4. \A r \in Ships : r # s => Manifest(r)' = Manifest(r)
  BY <1>3 DEF Manifest
<1>5. Manifest(s)' = Manifest(s) \cup {j} /\ j \notin Manifest(s)
  BY <1>3 DEF Manifest
<1>6. /\ IsFiniteSet(Manifest(s)')
      /\ Cardinality(Manifest(s)') = Cardinality(Manifest(s)) + 1
      /\ Cardinality(Manifest(s)) \in Nat
  BY <1>5, FS_AddElement, FS_CardinalityType
<1>7. \A n \in Nat : Size * (n + 1) = Size * n + Size
  BY <1>1
<1> QED
  BY <1>3, <1>4, <1>6, <1>7

(* A job less is on the list.                                              *)
LEMMA LessListed ==
  ASSUME BooksInv, BooksInv', NEW s \in Ships, NEW j \in Jobs, Delisted(s, j), onboard[s][j] = 1,
         IsFiniteSet(Manifest(s))
  PROVE  /\ onboard'[s][j] = 0
         /\ \A r \in Ships : \A k \in Jobs : r # s \/ k # j => onboard'[r][k] = onboard[r][k]
         /\ \A r \in Ships : r # s => Manifest(r)' = Manifest(r)
         /\ IsFiniteSet(Manifest(s)')
         /\ Size * Cardinality(Manifest(s)') = Size * Cardinality(Manifest(s)) - Size
<1>1. onboard \in [Ships -> [Jobs -> Nat]] /\ Size \in Nat
  BY CargoJobsAssumption DEF BooksInv
<1>2. onboard' = [onboard EXCEPT ![s] = [onboard[s] EXCEPT ![j] = 0]]
  BY <1>1 DEF Delisted
<1>3. /\ onboard'[s][j] = 0
      /\ \A r \in Ships : \A k \in Jobs : r # s \/ k # j => onboard'[r][k] = onboard[r][k]
  BY <1>1, <1>2
<1>4. \A r \in Ships : r # s => Manifest(r)' = Manifest(r)
  BY <1>3 DEF Manifest
<1>5. Manifest(s)' = Manifest(s) \ {j} /\ j \in Manifest(s)
  BY <1>3 DEF Manifest
<1>6. /\ IsFiniteSet(Manifest(s)')
      /\ Cardinality(Manifest(s)') = Cardinality(Manifest(s)) - 1
      /\ Cardinality(Manifest(s)) \in Nat
  BY <1>5, FS_RemoveElement, FS_CardinalityType
<1>7. \A n \in Nat : Size * (n - 1) = Size * n - Size
  BY <1>1
<1> QED
  BY <1>3, <1>4, <1>6, <1>7

(* What every step of a command that goes on needs.                        *)
LEMMA AtHand ==
  ASSUME IInv, PInv, HInv, calls # <<>>, Top.at \in Handling, disturbed = {}
  PROVE  /\ InHand(Top) /\ Top.job \in Jobs /\ Top.job \in DOMAIN job
         /\ \A s \in Ships : IsFiniteSet(Manifest(s))
         /\ \A s \in Ships : Size * Cardinality(Manifest(s)) = cur[s] + Offset(s)
<1>1. 1 \in DOMAIN calls /\ Top = calls[1]
  BY TopMover
<1>2. MoversInv /\ WeightInv /\ FrameInv
  BY DEF HInv, PInv
<1> QED
  BY <1>1, <1>2 DEF MoversInv, WeightInv, FrameInv, IInv, JobInv

(* A job is put on a list.                                                 *)
LEMMA OnListStep ==
  ASSUME IInv, BooksInv, PInv, HInv, DeepInv, IInv', BooksInv', LoadList \/ TransferOnList
  PROVE  HInv'
<1> SUFFICES ASSUME disturbed = {} PROVE HInv'
  BY DEF HInv, LoadList, TransferOnList, history
<1> DEFINE point == IF Top.at = "boarding" THEN "listed" ELSE "on_list"
           g == [Top EXCEPT !.at = point]
<1>0. PICK s, j : s = Top.ship /\ j = Top.job
  OBVIOUS
<1>1. /\ calls # <<>> /\ Top.at \in {"boarding", "mooring"} /\ Go(point) /\ Listed(s, j)
      /\ UNCHANGED <<job, cur, disturbed>> /\ (Top.at = "mooring" => Top.ship # Top.from)
  BY <1>0 DEF LoadList, TransferOnList, At, Top, history
<1>2. /\ Top.at \in Handling /\ Top.at \notin Uneven /\ point \in Handling
      /\ (Top.at = "boarding" <=> Top.at \in LoadPoints)
      /\ (Top.at = "boarding" <=> point \in LoadPoints) /\ point \notin Delivery
      /\ Top.at \notin Delivery
  BY <1>1 DEF Handling, PaidFor, Uneven, LoadPoints, Delivery
<1>3. /\ InHand(Top) /\ j \in Jobs /\ IsFiniteSet(Manifest(s))
      /\ \A r \in Ships : IsFiniteSet(Manifest(r))
      /\ \A r \in Ships : Size * Cardinality(Manifest(r)) = cur[r] + Offset(r)
      /\ s \in Ships /\ (Top.at = "mooring" => Top \in Moving)
  BY <1>0, <1>1, <1>2, AtHand, TopMover
<1>4. /\ calls' = <<g>> \o Tail(calls) /\ calls' # <<>> /\ Top' = g
      /\ g.at = point /\ g.job = j /\ g.ship = s
      /\ Top.at = "mooring" => g.from = Top.from
  BY <1>0, <1>1, <1>2, <1>3, MoverGone
<1> HIDE DEF g
<1>5. onboard[s][j] = 0
  BY <1>0, <1>1, <1>3 DEF InHand, ListedOn, Listing
<1>6. /\ onboard'[s][j] = 1
      /\ \A r \in Ships : \A k \in Jobs : r # s \/ k # j => onboard'[r][k] = onboard[r][k]
      /\ \A r \in Ships : r # s => Manifest(r)' = Manifest(r)
      /\ IsFiniteSet(Manifest(s)')
      /\ Size * Cardinality(Manifest(s)') = Size * Cardinality(Manifest(s)) + Size
  BY <1>1, <1>3, <1>5, MoreListed
<1>7. WeightInv'
  <2>1. \A r : Offset(r) = 0
    BY <1>2, EvenOffset
  <2>2. \A r : Offset(r)' = IF r = s THEN Size ELSE 0
    BY <1>1, <1>4 DEF Offset
  <2>3. \A r \in Ships : cur[r] \in Int
    BY DEF BooksInv
  <2>4. ASSUME NEW r \in Ships
        PROVE  IsFiniteSet(Manifest(r)') /\ Size * Cardinality(Manifest(r)') = cur[r] + Offset(r)'
    <3>1. Size * Cardinality(Manifest(r)) = cur[r]
      BY <1>3, <2>1, <2>3
    <3>2. CASE r = s
      <4>1. Size * Cardinality(Manifest(s)') = cur[s] + Size
        BY <1>6, <3>1, <3>2
      <4> QED
        BY <1>6, <2>2, <3>2, <4>1
    <3>3. CASE r # s
      <4>1. Manifest(r)' = Manifest(r) /\ Offset(r)' = 0
        BY <1>6, <2>2, <3>3
      <4> QED
        BY <1>3, <2>3, <3>1, <4>1
    <3> QED
      BY <3>2, <3>3
  <2> QED
    BY <1>1, <2>4 DEF WeightInv
<1>8. Source(g) = Source(Top)
  BY <1>1, <1>2, <1>4 DEF Source
<1>9. \A r \in Ships : onboard'[r][j] = IF r \in Listing(g) THEN 1 ELSE 0
  <2>1. Listing(g) = Listing(Top) \cup {s}
    BY <1>0, <1>1, <1>4 DEF Listing
  <2>2. \A r \in Ships : onboard[r][j] = IF r \in Listing(Top) THEN 1 ELSE 0
    BY <1>0, <1>3 DEF InHand, ListedOn
  <2> QED
    BY <1>3, <1>6, <2>1, <2>2
<1> QED
  BY <1>0, <1>1, <1>2, <1>4, <1>6, <1>7, <1>8, <1>9, GoesHold

(* A job is taken off a list.                                              *)
LEMMA OffListStep ==
  ASSUME IInv, BooksInv, PInv, HInv, DeepInv, IInv', BooksInv', DeliverList \/ TransferOffList
  PROVE  HInv'
<1> SUFFICES ASSUME disturbed = {} PROVE HInv'
  BY DEF HInv, DeliverList, TransferOffList, history
<1> DEFINE point == IF Top.at = "unloading" THEN "delisted" ELSE "off_list"
           g == [Top EXCEPT !.at = point]
<1>0. PICK s, j : s = (IF Top.at = "unloading" THEN Top.ship ELSE Top.from) /\ j = Top.job
  OBVIOUS
<1>1. /\ calls # <<>> /\ Top.at \in {"unloading", "on_scales"} /\ Go(point) /\ Delisted(s, j)
      /\ UNCHANGED <<job, cur, disturbed>>
  BY <1>0 DEF DeliverList, TransferOffList, At, Top, history
<1>2. /\ Top.at \in Handling /\ Top.at \notin Uneven /\ point \in Handling
      /\ Top.at \notin LoadPoints /\ point \notin LoadPoints
      /\ (Top.at = "unloading" <=> Top.at \in Delivery)
      /\ (Top.at = "unloading" <=> point \in Delivery)
  BY <1>1 DEF Handling, PaidFor, Uneven, LoadPoints, Delivery
<1>3. /\ InHand(Top) /\ j \in Jobs
      /\ \A r \in Ships : IsFiniteSet(Manifest(r))
      /\ \A r \in Ships : Size * Cardinality(Manifest(r)) = cur[r] + Offset(r)
      /\ Top.at = "on_scales" => Top \in Moving
  BY <1>0, <1>1, <1>2, AtHand, TopMover
<1>4. /\ calls' = <<g>> \o Tail(calls) /\ calls' # <<>> /\ Top' = g
      /\ g.at = point /\ g.job = j /\ g.ship = Top.ship
      /\ Top.at = "on_scales" => g.from = Top.from
  BY <1>0, <1>1, <1>2, <1>3, MoverGone
<1>5. s \in Ships /\ (Top.at = "on_scales" => Top.ship # Top.from)
  BY <1>0, <1>1, <1>2, <1>3 DEF InHand, Source
<1> HIDE DEF g
<1>6. s \in Listing(Top) /\ Listing(g) = Listing(Top) \ {s}
  BY <1>0, <1>1, <1>4, <1>5 DEF Listing
<1>7. \A r : Offset(r)' = IF r = s THEN -Size ELSE 0
  BY <1>0, <1>1, <1>4 DEF Offset
<1>8. Source(g) = Source(Top)
  BY <1>1, <1>2, <1>4 DEF Source
<1>9. /\ g.at \notin LoadPoints
      /\ g.at \in {"on_list", "on_scales", "off_list", "moved"} => g.ship # g.from
  BY <1>1, <1>2, <1>4, <1>5
<1> HIDE DEF point
<1>10. \A r \in Ships : onboard[r][j] = IF r \in Listing(Top) THEN 1 ELSE 0
  BY <1>0, <1>3 DEF InHand, ListedOn
<1>11. /\ onboard'[s][j] = 0
       /\ \A r \in Ships : \A k \in Jobs : r # s \/ k # j => onboard'[r][k] = onboard[r][k]
       /\ \A r \in Ships : r # s => Manifest(r)' = Manifest(r)
       /\ IsFiniteSet(Manifest(s)')
       /\ Size * Cardinality(Manifest(s)') = Size * Cardinality(Manifest(s)) - Size
  <2>1. onboard[s][j] = 1
    BY <1>5, <1>6, <1>10
  <2> QED
    BY <1>1, <1>3, <1>5, <2>1, LessListed
<1>12. WeightInv'
  <2>1. \A r : Offset(r) = 0
    BY <1>2, EvenOffset
  <2>2. \A r \in Ships : cur[r] \in Int /\ Size \in Int
    BY CargoJobsAssumption DEF BooksInv
  <2>3. ASSUME NEW r \in Ships
        PROVE  IsFiniteSet(Manifest(r)') /\ Size * Cardinality(Manifest(r)') = cur[r] + Offset(r)'
    <3>1. Size * Cardinality(Manifest(r)) = cur[r]
      BY <1>3, <2>1, <2>2
    <3>2. CASE r = s
      <4>1. Size * Cardinality(Manifest(s)') = cur[s] - Size /\ Offset(s)' = -Size
        BY <1>7, <1>11, <3>1, <3>2
      <4>2. cur[s] - Size = cur[s] + (-Size)
        BY <1>5, <2>2
      <4> QED
        BY <1>11, <3>2, <4>1, <4>2
    <3>3. CASE r # s
      <4>1. Manifest(r)' = Manifest(r) /\ Offset(r)' = 0
        BY <1>7, <1>11, <3>3
      <4> QED
        BY <1>3, <2>2, <3>1, <4>1
    <3> QED
      BY <3>2, <3>3
  <2> QED
    BY <1>1, <2>3 DEF WeightInv
<1>13. \A r \in Ships : onboard'[r][j] = IF r \in Listing(g) THEN 1 ELSE 0
  BY <1>3, <1>6, <1>10, <1>11
<1> QED
  BY <1>0, <1>1, <1>2, <1>4, <1>8, <1>9, <1>11, <1>12, <1>13, GoesHold

(* The lists stay, and the sum of a ship follows its list.                 *)
LEMMA WeighStep ==
  ASSUME IInv, BooksInv, PInv, HInv, DeepInv, IInv', BooksInv',
         \/ DeliverLand \/ DeliverPay
         \/ LoadCur \/ DeliverCur \/ TransferOnCur \/ TransferOffCur
  PROVE  HInv'
<1> SUFFICES ASSUME disturbed = {} PROVE HInv'
  BY DEF HInv, DeliverLand, DeliverPay, LoadCur, DeliverCur, TransferOnCur, TransferOffCur,
     history, cargoVars
<1>1. PICK point :
        /\ calls # <<>> /\ Go(point) /\ UNCHANGED <<job, onboard, disturbed>>
        /\ \/ Top.at = "landing" /\ point \in {"paying", "unloading"} /\ UNCHANGED cur
           \/ Top.at = "paying" /\ point = "unloading" /\ UNCHANGED cur
           \/ Top.at = "listed" /\ point = "weighed" /\ Heavier(Top.ship)
           \/ Top.at = "delisted" /\ point = "lightened" /\ Lighter(Top.ship)
           \/ Top.at = "on_list" /\ point = "on_scales" /\ Heavier(Top.ship)
           \/ Top.at = "off_list" /\ point = "moved" /\ Lighter(Top.from)
  <2>1. CASE DeliverLand
    BY <2>1 DEF DeliverLand, At, Top, cargoVars
  <2>2. CASE DeliverPay
    BY <2>2 DEF DeliverPay, At, Top, hold
  <2>3. CASE LoadCur \/ DeliverCur
    BY <2>3 DEF LoadCur, DeliverCur, At, Top, history
  <2>4. CASE TransferOnCur \/ TransferOffCur
    BY <2>4 DEF TransferOnCur, TransferOffCur, At, Top, history
  <2> QED
    BY <2>1, <2>2, <2>3, <2>4
<1> DEFINE g == [Top EXCEPT !.at = point]
<1>2. /\ Top.at \in Handling /\ point \in Handling
      /\ (Top.at \in LoadPoints <=> point \in LoadPoints)
      /\ (Top.at \in Delivery <=> point \in Delivery)
      /\ point \in {"on_scales", "moved"} => Top.at \in {"on_list", "off_list"}
      /\ point \notin {"on_list", "off_list"}
      /\ point \notin Uneven
  BY <1>1 DEF Handling, PaidFor, LoadPoints, Delivery, Uneven
<1>3. /\ InHand(Top) /\ Top.job \in Jobs
      /\ \A r \in Ships : IsFiniteSet(Manifest(r))
      /\ \A r \in Ships : Size * Cardinality(Manifest(r)) = cur[r] + Offset(r)
      /\ Top.at \in {"on_list", "off_list"} => Top \in Moving
      /\ Top.at \in Handling \ (LoadPoints \cup Delivery) => Top \in Moving
  BY <1>1, <1>2, AtHand, TopMover, Points
<1>4. /\ calls' = <<g>> \o Tail(calls) /\ calls' # <<>> /\ Top' = g
      /\ g.at = point /\ g.job = Top.job /\ g.ship = Top.ship
      /\ Top \in Moving => g.from = Top.from
  BY <1>1, <1>2, <1>3, MoverGone
<1> HIDE DEF g
<1>5. Source(g) = Source(Top)
  BY <1>2, <1>3, <1>4 DEF Source
<1>6. Listing(g) = Listing(Top)
  BY <1>1, <1>3, <1>4 DEF Listing
<1>7. \A r : Offset(r)' = 0
  BY <1>2, <1>4 DEF Offset, Uneven
<1>8. \A r \in Ships : cur'[r] = cur[r] + Offset(r)
  <2>1. cur \in [Ships -> Int] /\ Size \in Int
    BY CargoJobsAssumption DEF BooksInv
  <2>2. CASE Top.at \in {"landing", "paying"} /\ UNCHANGED cur
    <3>1. Top.at \notin Uneven
      BY <2>2 DEF Uneven
    <3> QED
      BY <2>1, <2>2, <3>1, EvenOffset
  <2>3. CASE Top.at \in {"listed", "on_list"} /\ Heavier(Top.ship)
    BY <1>1, <2>1, <2>3 DEF Heavier, Offset
  <2>4. CASE Top.at = "delisted" /\ Lighter(Top.ship)
    BY <1>1, <2>1, <2>4 DEF Lighter, Offset
  <2>5. CASE Top.at = "off_list" /\ Lighter(Top.from)
    BY <1>1, <2>1, <2>5 DEF Lighter, Offset
  <2> QED
    BY <1>1, <2>2, <2>3, <2>4, <2>5
<1>9. WeightInv'
  <2>1. \A r \in Ships : Manifest(r)' = Manifest(r) /\ cur'[r] \in Int
    BY <1>1 DEF Manifest, BooksInv
  <2> QED
    BY <1>3, <1>7, <1>8, <2>1 DEF WeightInv
<1>10. g.at \in {"on_list", "on_scales", "off_list", "moved"} => g.ship # g.from
  BY <1>2, <1>3, <1>4 DEF InHand
<1>11. \A r \in Ships : onboard'[r][g.job] = IF r \in Listing(g) THEN 1 ELSE 0
  BY <1>1, <1>3, <1>4, <1>6 DEF InHand, ListedOn
<1> QED
  BY <1>1, <1>2, <1>4, <1>5, <1>9, <1>10, <1>11, GoesHold

(* A command that will move cargo has read where the job is.               *)
LEMMA MoverBeginsHold ==
  ASSUME IInv, PInv, HInv, DeepInv, IInv', NEW j \in DOMAIN job,
         \/ \E p \in Persons, s \in Ships : Load(p, j, s)
         \/ Deliver(j)
         \/ \E s \in Ships : Transfer(j, s)
  PROVE  HInv'
<1>1. ASSUME NEW p \in Persons, NEW s \in Ships, Load(p, j, s) PROVE HInv'
  <2> DEFINE f == [at |-> "boarding", who |-> p, job |-> j, ship |-> s,
                   took |-> job[j].assigned_to \notin {Nobody, p}]
  <2>1. Handle(f) /\ UNCHANGED <<job, onboard, cur>> /\ job[j].loaded_on = Nobody
    BY <1>1 DEF Load, IsLoaded, hold
  <2>2. f.at = "boarding" /\ f.job = j
    OBVIOUS
  <2> HIDE DEF f
  <2> QED
    BY <2>1, <2>2, BeginHold
<1>2. CASE Deliver(j)
  <2> DEFINE f == [at |-> "landing", job |-> j, pays |-> job[j].claimed_by,
                   ship |-> job[j].loaded_on]
  <2>1. /\ Handle(f) /\ UNCHANGED <<job, onboard, cur>>
        /\ job[j].loaded_on # Nobody /\ ~job[j].completed
    BY <1>2 DEF Deliver, IsLoaded, hold
  <2>2. f.at = "landing" /\ f.job = j /\ f.ship = job[j].loaded_on
    OBVIOUS
  <2> HIDE DEF f
  <2> QED
    BY <2>1, <2>2, BeginHold
<1>3. ASSUME NEW s \in Ships, Transfer(j, s) PROVE HInv'
  <2> DEFINE f == [at |-> "mooring", job |-> j, from |-> job[j].loaded_on, ship |-> s]
  <2>1. /\ Handle(f) /\ UNCHANGED <<job, onboard, cur>>
        /\ job[j].loaded_on # Nobody /\ ~job[j].completed
    BY <1>3 DEF Transfer, IsLoaded, hold
  <2>2. f.at = "mooring" /\ f.job = j /\ f.from = job[j].loaded_on
    OBVIOUS
  <2> HIDE DEF f
  <2> QED
    BY <2>1, <2>2, BeginHold
<1> QED
  BY <1>1, <1>2, <1>3

(* Where nothing was moved yet the job is on board of what lists it.       *)
LEMMA SettledFrame ==
  ASSUME IInv, DoneInv, NEW f, f.at \in Settled, f.job \in DOMAIN job, InHand(f)
  PROVE  Carrier(f.job) = Listing(f) \cap Ships
<1>1. Nobody \notin Ships
  BY CargoJobsAssumption
<1>2. CASE f.at = "boarding"
  <2>1. Source(f) = Nobody /\ Listing(f) = {}
    BY <1>2 DEF Source, Listing, LoadPoints
  <2> QED
    BY <1>1, <2>1, Carriers DEF InHand
<1>3. CASE f.at # "boarding"
  <2>1. Listing(f) = {Source(f)} /\ f.at \notin LoadPoints
    BY <1>3 DEF Source, Listing, LoadPoints, Delivery, PaidFor, Settled
  <2> QED
    BY <2>1, Carriers DEF InHand
<1> QED
  BY <1>2, <1>3

(* A command ends that moved cargo, or was refused.                        *)
LEMMA MoverEndsHold ==
  ASSUME IInv, PInv, HInv, DeepInv, IInv',
         \/ LoadRefused \/ DeliverRefused \/ TransferRefused
         \/ LoadSave \/ DeliverSave \/ TransferSave
  PROVE  HInv'
<1> SUFFICES ASSUME disturbed = {} PROVE HInv'
  BY DEF HInv, LoadRefused, DeliverRefused, TransferRefused, LoadSave, DeliverSave,
     TransferSave, history, cargoVars
<1>1. PICK x : x = Top.job
  OBVIOUS
<1>2. calls # <<>> /\ End /\ UNCHANGED <<onboard, cur, disturbed>>
  BY DEF LoadRefused, DeliverRefused, TransferRefused, LoadSave, DeliverSave,
     TransferSave, At, hold, history, cargoVars
<1>3. Top.at \in Handling /\ Top.at \notin Uneven
  BY DEF LoadRefused, DeliverRefused, TransferRefused, LoadSave, DeliverSave,
     TransferSave, At, Top, Handling, Delivery, PaidFor, Uneven
<1>4. /\ InHand(Top) /\ x \in DOMAIN job /\ DoneInv
      /\ Top.at \in LoadPoints => Top.ship \in Ships
      /\ Top.at \in {"mooring", "on_list", "on_scales", "off_list", "moved"} => Top.ship \in Ships
  BY <1>1, <1>2, <1>3, AtHand, TopMover DEF HInv
<1>5. /\ job[x].loaded_on = Source(Top)
      /\ ~job[x].completed
  BY <1>1, <1>4 DEF InHand
<1>6. Nobody \notin Ships /\ job[x] \in Job /\ job \in [DOMAIN job -> Job]
  BY <1>4, CargoJobsAssumption DEF IInv, JobInv
<1>7. SUFFICES /\ DOMAIN job' = DOMAIN job /\ \A j \in DOMAIN job : j # x => job'[j] = job[j]
               /\ job'[x].completed => job'[x].loaded_on # Nobody
               /\ Carrier(x)' = Listing(Top) \cap Ships
  BY <1>1, <1>2, <1>3, EndsHold
<1>8. CASE LoadRefused \/ DeliverRefused \/ TransferRefused
  <2>1. Top.at \in Settled /\ UNCHANGED job
    BY <1>8 DEF LoadRefused, DeliverRefused, TransferRefused, At, Top, Settled, cargoVars
  <2>2. Carrier(x) = Listing(Top) \cap Ships
    BY <1>1, <1>4, <2>1, SettledFrame
  <2>3. Carrier(x)' = Carrier(x)
    BY <2>1 DEF Carrier, Aboard
  <2> QED
    BY <1>4, <2>1, <2>2, <2>3 DEF DoneInv
<1>9. CASE LoadSave \/ TransferSave
  <2>1. Top.at \in {"weighed", "moved"} /\ Top.ship \in Ships
    BY <1>4, <1>9 DEF LoadSave, TransferSave, At, Top, LoadPoints
  <2>2. Listing(Top) = {Top.ship}
    BY <2>1 DEF Listing
  <2>3. PICK s \in Ships : s = Top.ship
    BY <2>1
  <2>4. /\ DOMAIN job' = DOMAIN job /\ \A j \in DOMAIN job : j # x => job'[j] = job[j]
        /\ job'[x].loaded_on = s /\ job'[x].completed = job[x].completed
    <3>1. CASE LoadSave
      <4>1. PICK v : job' = [job EXCEPT ![x].loaded_on = s, ![x].assigned_to = v]
        BY <1>1, <2>3, <3>1 DEF LoadSave
      <4> QED
        BY <1>4, <1>6, <4>1 DEF Job
    <3>2. CASE TransferSave
      <4>1. job' = [job EXCEPT ![x].loaded_on = s]
        BY <1>1, <2>3, <3>2 DEF TransferSave
      <4> QED
        BY <1>4, <1>6, <4>1 DEF Job
    <3> QED
      BY <1>9, <3>1, <3>2
  <2>5. Carrier(x)' = {s}
    BY <1>4, <1>5, <2>4 DEF Carrier, Aboard
  <2> QED
    BY <1>6, <2>2, <2>3, <2>4, <2>5
<1>10. CASE DeliverSave
  <2>1. Top.at = "lightened" /\ job' = [job EXCEPT ![x].completed = TRUE]
    BY <1>1, <1>10 DEF DeliverSave, At, Top
  <2>2. /\ DOMAIN job' = DOMAIN job /\ \A j \in DOMAIN job : j # x => job'[j] = job[j]
        /\ job'[x].completed /\ job'[x].loaded_on = job[x].loaded_on
    BY <1>4, <1>6, <2>1 DEF Job
  <2>3. Carrier(x)' = {}
    BY <1>4, <2>2 DEF Carrier, Aboard
  <2>4. Listing(Top) = {} /\ Top.at \notin LoadPoints
    BY <2>1 DEF Listing, LoadPoints
  <2>5. job[x].loaded_on # Nobody
    BY <1>4, <1>5, <1>6, <2>4 DEF InHand
  <2> QED
    BY <2>2, <2>3, <2>4, <2>5
<1> QED
  BY <1>8, <1>9, <1>10

(* A command fails: half-way it leaves its job disturbed, and before that  *)
(* it has moved nothing.                                                   *)
LEMMA AbortHold ==
  ASSUME IInv, PInv, HInv, DeepInv, IInv', Abort
  PROVE  HInv'
<1> SUFFICES ASSUME disturbed' = {} PROVE HInv'
  BY DEF HInv
<1>1. /\ calls # <<>> /\ End /\ UNCHANGED <<job, onboard, cur>>
      /\ disturbed' = disturbed \cup { f.job : f \in { g \in {Top} : g.at \in HalfDone } }
  BY DEF Abort, Lost, hold
<1>2. disturbed = {} /\ Top.at \notin HalfDone
  BY <1>1
<1>3. CASE Top.at \notin Handling
  <2>1. Aside /\ JobsStay
    BY <1>1, <1>3 DEF Aside, JobsStay
  <2> QED
    BY <1>1, <1>2, <2>1, AsideHold
<1>4. CASE Top.at \in Handling
  <2>1. Top.at \in Settled /\ Top.at \notin Uneven
    BY <1>2, <1>4, Points
  <2>2. PICK x : x = Top.job
    OBVIOUS
  <2>3. InHand(Top) /\ x \in DOMAIN job /\ DoneInv
    BY <1>1, <1>2, <1>4, <2>2, AtHand DEF HInv
  <2>4. Carrier(x) = Listing(Top) \cap Ships
    BY <2>1, <2>2, <2>3, SettledFrame
  <2>5. Carrier(x)' = Carrier(x)
    BY <1>1 DEF Carrier, Aboard
  <2> QED
    BY <1>1, <1>2, <1>4, <2>1, <2>2, <2>3, <2>4, <2>5, EndsHold DEF DoneInv
<1> QED
  BY <1>3, <1>4

(* The process ends: so does every command.                                *)
LEMMA CrashHold ==
  ASSUME IInv, PInv, HInv, DeepInv, IInv', Crash
  PROVE  HInv'
<1> SUFFICES ASSUME disturbed' = {} PROVE (MoversInv /\ RestInv /\ DoneInv /\ WeightInv)'
  BY DEF HInv
<1>1. /\ calls' = <<>> /\ UNCHANGED <<job, onboard, cur>>
      /\ disturbed' =
           disturbed \cup { f.job : f \in { g \in Range(calls) : g.at \in HalfDone } }
  BY DEF Crash, Lost, hold
<1>2. disturbed = {} /\ \A i \in DOMAIN calls : calls[i].at \notin HalfDone
  BY <1>1 DEF Range
<1>3. MoversInv /\ RestInv /\ DoneInv /\ WeightInv
  BY <1>2 DEF HInv
<1>4. MoversInv' /\ DoneInv'
  BY <1>1, <1>3 DEF MoversInv, DoneInv
<1>5. RestInv'
  <2> SUFFICES ASSUME NEW j \in Jobs PROVE ListedOn(j, Carrier(j))
    BY <1>1 DEF RestInv, ListedOn, Carrier, Aboard
  <2>1. CASE \A i \in DOMAIN calls : ~Moves(i, j)
    BY <1>3, <2>1 DEF RestInv
  <2>2. ASSUME NEW i \in DOMAIN calls, Moves(i, j) PROVE ListedOn(j, Carrier(j))
    <3>1. calls[i].at \in Settled /\ calls[i].job = j
      BY <1>2, <2>2, Points DEF Moves
    <3>2. InHand(calls[i]) /\ calls[i].job \in DOMAIN job
      BY <1>3, <2>2 DEF MoversInv, Moves, PInv, FrameInv
    <3>3. Carrier(j) = Listing(calls[i]) \cap Ships
      BY <1>3, <3>1, <3>2, SettledFrame
    <3> QED
      BY <3>1, <3>2, <3>3 DEF InHand, ListedOn
  <2> QED
    BY <2>1, <2>2
<1>6. WeightInv'
  <2>1. \A s : Offset(s)' = 0
    BY <1>1 DEF Offset
  <2>2. \A s : Offset(s) = 0
    <3>1. CASE calls = <<>>
      BY <3>1, EvenOffset
    <3>2. CASE calls # <<>>
      <4>1. Top.at \notin HalfDone
        BY <1>2, <3>2, TopMover
      <4> QED
        BY <4>1, EvenOffset DEF Uneven, HalfDone, PaidFor
    <3> QED
      BY <3>1, <3>2
  <2>3. \A s : Manifest(s)' = Manifest(s)
    BY <1>1 DEF Manifest
  <2> QED
    BY <1>1, <1>3, <2>1, <2>2, <2>3 DEF WeightInv
<1> QED
  BY <1>4, <1>5, <1>6

(* Every step keeps the lists, the sums and the jobs as far apart as the   *)
(* frames say.                                                             *)
LEMMA HoldNext ==
  IInv /\ BooksInv /\ PInv /\ DeepInv /\ HInv /\ [Next]_vars => HInv'
<1> SUFFICES ASSUME IInv, BooksInv, PInv, DeepInv, HInv, [Next]_vars PROVE HInv'
  OBVIOUS
<1>1. IInv' /\ BooksInv'
  BY NextInv, BooksNext
<1>2. CASE (WalletStep \/ AccountStep \/ RaceStep) /\ UNCHANGED cargoVars
  <2>1. Aside /\ JobsStay /\ UNCHANGED <<onboard, cur, disturbed>>
    BY <1>2, ElsewhereAside DEF cargoVars, JobsStay
  <2> QED
    BY <1>1, <2>1, AsideHold
<1>3. CASE CargoStep
  <2>1. CASE BooksCommand
    BY <1>1, <2>1, BooksAside, AsideHold
  <2>2. CASE CargoCommand
    BY <1>1, <2>1, <2>2, MoverBeginsHold DEF CargoCommand, BooksCommand
  <2> QED
    BY <1>1, <1>3, <2>1, <2>2, MoverEndsHold, OnListStep, OffListStep, WeighStep
    DEF CargoStep, BooksCommand
<1>4. CASE UNCHANGED vars
  <2>1. Aside /\ JobsStay /\ UNCHANGED <<onboard, cur, disturbed>>
    BY <1>4 DEF vars, cargoVars, Aside, JobsStay
  <2> QED
    BY <1>1, <2>1, AsideHold
<1> QED
  BY <1>1, <1>2, <1>3, <1>4, AbortHold, CrashHold DEF Next, Step

(* In the beginning every hold is empty.                                   *)
LEMMA HoldInit == Init => DeepInv /\ RoomInv /\ HInv
<1> SUFFICES ASSUME Init PROVE DeepInv /\ RoomInv /\ HInv
  OBVIOUS
<1>1. /\ calls = <<>> /\ DOMAIN job = {} /\ \A s \in Ships : cur[s] = 0
      /\ \A s \in Ships : \A j \in Jobs : onboard[s][j] = 0
  BY DEF Init, WalletsInit, CargoInit
<1>2. DeepInv /\ RoomInv
  BY <1>1, CargoJobsAssumption DEF DeepInv, RoomInv
<1>3. MoversInv /\ RestInv /\ DoneInv
  BY <1>1 DEF MoversInv, RestInv, DoneInv, ListedOn, Carrier, Aboard
<1>4. WeightInv
  <2>1. \A s \in Ships : Manifest(s) = {} /\ Offset(s) = 0
    BY <1>1 DEF Manifest, Offset
  <2>2. IsFiniteSet({}) /\ Cardinality({}) = 0
    BY FS_EmptySet
  <2>3. Size * 0 = 0 + 0
    BY CargoJobsAssumption
  <2>4. ASSUME NEW s \in Ships
        PROVE  /\ IsFiniteSet(Manifest(s))
               /\ Size * Cardinality(Manifest(s)) = cur[s] + Offset(s)
    <3>1. Manifest(s) = {} /\ Offset(s) = 0 /\ cur[s] = 0
      BY <1>1, <2>1
    <3> QED
      BY <3>1, <2>2, <2>3
  <2> QED
    BY <2>4 DEF WeightInv
<1> QED
  BY <1>2, <1>3, <1>4 DEF HInv

(* SPACE`CARGO`CUR never exceeds SPACE`CARGO`MAX.  And unless two commands *)
(* moved one job at a time or one failed half-way, what a ship lists fits  *)
(* into it at any time, and between commands its list, the sum of the      *)
(* sizes and what the jobs say agree: what cargojob_load(),                *)
(* cargojob_deliver() and cargojob_transfer() save.                        *)
THEOREM HoldsAreAccounted == Spec => []HoldAccounted
<1>1. Init => IInv /\ BooksInv /\ PInv /\ DeepInv /\ RoomInv /\ HInv
  BY InitInv, BooksInit, PaidInit, HoldInit
<1>2. IInv /\ BooksInv /\ PInv /\ DeepInv /\ RoomInv /\ HInv => HoldAccounted
  <2> SUFFICES ASSUME IInv, BooksInv, RoomInv, HInv PROVE HoldAccounted
    OBVIOUS
  <2>1. ASSUME NEW s \in Ships, disturbed = {}
        PROVE  Size * Cardinality(Manifest(s)) <= Capacity
    <3>1. /\ Size * Cardinality(Manifest(s)) = cur[s] + Offset(s)
          /\ cur[s] \in Int /\ cur[s] <= Capacity
      BY <2>1 DEF HInv, WeightInv, RoomInv, BooksInv
    <3>2. Size \in Nat /\ Capacity \in Nat
      BY CargoJobsAssumption
    <3>3. CASE calls # <<>> /\ Top.at \in {"listed", "on_list"} /\ Top.ship = s
      <4>1. Offset(s) = Size /\ cur[s] + Size <= Capacity
        BY <3>3 DEF Offset, RoomInv, HasRoom
      <4> QED
        BY <3>1, <4>1
    <3>4. CASE ~(calls # <<>> /\ Top.at \in {"listed", "on_list"} /\ Top.ship = s)
      <4>1. Offset(s) \in {0, -Size}
        BY <3>4 DEF Offset
      <4> HIDE DEF Offset
      <4> QED
        BY <3>1, <3>2, <4>1
    <3> QED
      BY <3>3, <3>4
  <2>2. ASSUME NEW s \in Ships, calls = <<>>, disturbed = {}
        PROVE  /\ \A j \in Jobs : onboard[s][j] = IF j \in Aboard(s) THEN 1 ELSE 0
               /\ cur[s] = Size * Cardinality(Aboard(s))
    <3>1. RestInv /\ WeightInv /\ DOMAIN calls = {}
      BY <2>2 DEF HInv
    <3>2. \A j \in Jobs : onboard[s][j] = IF j \in Aboard(s) THEN 1 ELSE 0
      BY <3>1 DEF RestInv, ListedOn, Carrier
    <3>3. Manifest(s) = Aboard(s)
      BY <3>2 DEF Manifest, Aboard, IInv, JobInv
    <3>4. Offset(s) = 0 /\ cur[s] \in Int
      BY <2>2, EvenOffset DEF BooksInv
    <3> QED
      BY <3>1, <3>2, <3>3, <3>4 DEF WeightInv
  <2> QED
    BY <2>1, <2>2 DEF RoomInv, HoldAccounted
<1> QED
  BY <1>1, <1>2, NextInv, BooksNext, PaidNext, RoomNext, HoldNext, PTL DEF Spec
=============================================================================
