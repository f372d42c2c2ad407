----------------------------- MODULE CargoJobs -----------------------------
(***************************************************************************)
(* The cargo jobs of Econ (src/systems/lib/econ/cargojobs.rb) and the      *)
(* holds of the ships, which are attributes in PennMUSH.  All jobs have    *)
(* the same size and price.  The crew lists, the skill that lets one see a *)
(* job and the places of the ships are not modelled: they may allow or     *)
(* refuse a command at any time.                                           *)
(***************************************************************************)
EXTENDS Wallets, FiniteSetsExt

CONSTANTS
  Jobs,       \* the jobs there can ever be
  Urgent,     \* bound: those whose time can end
  Ships,
  Nobody,     \* claimed_by, assigned_to or loaded_on is nil
  Size,       \* of a job
  Price,      \* of a job
  Capacity,   \* SPACE`CARGO`MAX of the ships
  Skill,      \* in economics, of all
  MaxListed,  \* bound: of the jobs on the lists of all ships
  MaxDeficit  \* bound: of how far a sum is below zero

ASSUME CargoJobsAssumption ==
  /\ Nobody \notin People \cup Ships
  /\ Size \in Nat \ {0} /\ Price \in Nat /\ Capacity \in Nat /\ Skill \in Nat
  /\ MaxListed \in Nat /\ MaxDeficit \in Nat

VARIABLES
  job,       \* the jobs that were generated
  expired,   \* those whose time is over
  onboard,   \* SPACE`CARGO`ONBOARD: how often it lists a job, in whatever order
  cur,       \* SPACE`CARGO`CUR
  paid,      \* history: how often a job was paid, while it is not repeated
  disturbed, \* history: jobs of which two commands overlapped, or one failed
  repeated   \* history: jobs of which two deliveries did, or one that had paid

cargoVars == <<job, expired, onboard, cur, paid, disturbed, repeated>>
hold == <<onboard, cur>>
history == <<paid, disturbed, repeated>>

Job == [claimed_by : People \cup {Nobody}, assigned_to : People \cup {Nobody},
        loaded_on : Ships \cup {Nobody}, completed : BOOLEAN]

CargoInit ==
  /\ job = [j \in {} |-> 0]
  /\ expired = {}
  /\ onboard = [s \in Ships |-> [j \in Jobs |-> 0]]
  /\ cur = [s \in Ships |-> 0]
  /\ paid = [j \in Jobs |-> 0]
  /\ disturbed = {}
  /\ repeated = {}

IsLoaded(j) == job[j].loaded_on # Nobody

(* generate_one_job().                                                     *)
Generate(j) ==
  /\ j \notin DOMAIN job
  /\ job' = [x \in DOMAIN job \cup {j} |->
       IF x = j THEN [claimed_by |-> Nobody, assigned_to |-> Nobody,
                      loaded_on |-> Nobody, completed |-> FALSE]
       ELSE job[x]]
  /\ AtOnce
  /\ UNCHANGED <<expired, hold, history, walletVars>>

(* Time passes.                                                            *)
Expire(j) ==
  /\ j \in Urgent
  /\ expired' = expired \cup {j}
  /\ UNCHANGED <<job, hold, history, calls, walletVars>>

OpenClaims(p) ==
  { j \in DOMAIN job \ expired : job[j].claimed_by = p /\ ~job[j].completed }

(* cargojob_claim() of a job with a publicity, which asks for the factions *)
(* of the player; other jobs are claimed at once.                          *)
Claim(p, j) ==
  /\ job[j].claimed_by = Nobody
  /\ j \notin expired
  /\ Cardinality(OpenClaims(p)) < Skill
  /\ Begin([at |-> "claiming", who |-> p, job |-> j])
  /\ UNCHANGED <<cargoVars, walletVars>>

ClaimSave ==
  /\ At("claiming")
  /\ job' = [job EXCEPT ![Top.job].claimed_by = Top.who]
  /\ End
  /\ UNCHANGED <<expired, hold, history, walletVars>>

(* What cargojob_assign(), cargojob_unassign(), cargojob_unclaim() check.  *)
MayDispose(p, j) ==
  /\ job[j].claimed_by = p
  /\ ~IsLoaded(j)
  /\ j \notin expired

Assign(p, j, v) ==
  /\ MayDispose(p, j)
  /\ v # p
  /\ job' = [job EXCEPT ![j].assigned_to = v]
  /\ AtOnce
  /\ UNCHANGED <<expired, hold, history, walletVars>>

(* The assignee is told before the job is saved.                           *)
Unassign(p, j) ==
  /\ MayDispose(p, j)
  /\ job[j].assigned_to # Nobody
  /\ Begin([at |-> "unassigning", job |-> j])
  /\ UNCHANGED <<cargoVars, walletVars>>

UnassignSave ==
  /\ At("unassigning")
  /\ job' = [job EXCEPT ![Top.job].assigned_to = Nobody]
  /\ End
  /\ UNCHANGED <<expired, hold, history, walletVars>>

Unclaim(p, j) ==
  /\ MayDispose(p, j)
  /\ job' = [job EXCEPT ![j].claimed_by = Nobody, ![j].assigned_to = Nobody]
  /\ AtOnce
  /\ UNCHANGED <<expired, hold, history, walletVars>>

-----------------------------------------------------------------------------
(* Loading, transfer and delivery.                                         *)

(* Where a delivery has paid what it pays, and the job is not saved.       *)
PaidFor == {"unloading", "delisted", "lightened"}

Delivery == {"landing", "paying"} \cup PaidFor

Handling == {"boarding", "listed", "weighed"} \cup Delivery
              \cup {"mooring", "on_list", "on_scales", "off_list", "moved"}

(* A command on job j is at one of these points.                           *)
Busy(points, j) == \E i \in DOMAIN calls : calls[i].at \in points /\ calls[i].job = j

(* Two commands that move the same cargo run within one another; if both   *)
(* deliver it both may pay.                                                *)
Handle(frame) ==
  /\ Begin(frame)
  /\ disturbed' = IF Busy(Handling, frame.job) THEN disturbed \cup {frame.job} ELSE disturbed
  /\ repeated' = IF frame.at \in Delivery /\ Busy(Delivery, frame.job)
                   THEN repeated \cup {frame.job} ELSE repeated

(* What is taken off the list is taken off as often as it is there.        *)
Listed(s, j) == onboard' = [onboard EXCEPT ![s][j] = onboard[s][j] + 1]
Delisted(s, j) == onboard' = [onboard EXCEPT ![s][j] = 0]
Heavier(s) == cur' = [cur EXCEPT ![s] = @ + Size]
Lighter(s) == cur' = [cur EXCEPT ![s] = @ - Size]

HasRoom(s) == cur[s] + Size <= Capacity

(* cargojob_load() asks whether the player is on the crew.  To compare the *)
(* assignee with the player it assigns him: anybody may load an assigned   *)
(* job, and takes it over when the job is saved.                           *)
Load(p, j, s) ==
  /\ job[j].assigned_to = Nobody => job[j].claimed_by = p
  /\ j \notin expired
  /\ ~IsLoaded(j)
  /\ Handle([at |-> "boarding", who |-> p, job |-> j, ship |-> s,
             took |-> job[j].assigned_to \notin {Nobody, p}])
  /\ UNCHANGED <<job, expired, hold, paid, walletVars>>

LoadRefused ==
  /\ At("boarding")
  /\ End
  /\ UNCHANGED <<cargoVars, walletVars>>

(* Mutant: the room is checked as it was before the crew was asked.        *)
LoadListAnyway ==
  /\ At("boarding")
  /\ Listed(Top.ship, Top.job)
  /\ Go("listed")
  /\ UNCHANGED <<job, expired, cur, history, walletVars>>

LoadList ==
  /\ At("boarding")
  /\ HasRoom(Top.ship)
  /\ Listed(Top.ship, Top.job)
  /\ Go("listed")
  /\ UNCHANGED <<job, expired, cur, history, walletVars>>

LoadCur ==
  /\ At("listed")
  /\ Heavier(Top.ship)
  /\ Go("weighed")
  /\ UNCHANGED <<job, expired, onboard, history, walletVars>>

LoadSave ==
  /\ At("weighed")
  /\ job' = [job EXCEPT
       ![Top.job].loaded_on = Top.ship,
       ![Top.job].assigned_to = IF Top.took THEN Top.who ELSE @]
  /\ End
  /\ UNCHANGED <<expired, hold, history, walletVars>>

(* Mutant: that the job was delivered is not checked.                      *)
DeliverAgain(j) ==
  /\ IsLoaded(j)
  /\ Handle([at |-> "landing", job |-> j, pays |-> job[j].claimed_by,
             ship |-> job[j].loaded_on])
  /\ UNCHANGED <<job, expired, hold, paid, walletVars>>

(* cargojob_deliver() asks whether the player is on the crew.              *)
Deliver(j) ==
  /\ IsLoaded(j)
  /\ ~job[j].completed
  /\ Handle([at |-> "landing", job |-> j, pays |-> job[j].claimed_by,
             ship |-> job[j].loaded_on])
  /\ UNCHANGED <<job, expired, hold, paid, walletVars>>

DeliverRefused ==
  /\ At("landing")
  /\ End
  /\ UNCHANGED <<cargoVars, walletVars>>

(* What expired is unloaded without being paid.                            *)
DeliverLand ==
  /\ At("landing")
  /\ Go(IF Top.job \in expired THEN "unloading" ELSE "paying")
  /\ UNCHANGED <<cargoVars, walletVars>>

(* grant() of the price, which raises an exception when nobody claimed.    *)
DeliverPay ==
  /\ At("paying")
  /\ Top.pays # Nobody
  /\ wallet' = [wallet EXCEPT ![Top.pays] = @ + Price]
  /\ Issue(Price)
  /\ paid' = IF Top.job \in repeated THEN paid ELSE [paid EXCEPT ![Top.job] = @ + 1]
  /\ Go("unloading")
  /\ UNCHANGED <<job, expired, hold, disturbed, repeated, overdrawn>>

DeliverList ==
  /\ At("unloading")
  /\ Delisted(Top.ship, Top.job)
  /\ Go("delisted")
  /\ UNCHANGED <<job, expired, cur, history, walletVars>>

DeliverCur ==
  /\ At("delisted")
  /\ Lighter(Top.ship)
  /\ Go("lightened")
  /\ UNCHANGED <<job, expired, onboard, history, walletVars>>

DeliverSave ==
  /\ At("lightened")
  /\ job' = [job EXCEPT ![Top.job].completed = TRUE]
  /\ End
  /\ UNCHANGED <<expired, hold, history, walletVars>>

(* cargojob_transfer() asks twice whether the player is on the crew.       *)
Transfer(j, s) ==
  /\ IsLoaded(j)
  /\ ~job[j].completed
  /\ Handle([at |-> "mooring", job |-> j, from |-> job[j].loaded_on, ship |-> s])
  /\ UNCHANGED <<job, expired, hold, paid, walletVars>>

TransferRefused ==
  /\ At("mooring")
  /\ End
  /\ UNCHANGED <<cargoVars, walletVars>>

TransferOnList ==
  /\ At("mooring")
  /\ Top.ship # Top.from
  /\ HasRoom(Top.ship)
  /\ Listed(Top.ship, Top.job)
  /\ Go("on_list")
  /\ UNCHANGED <<job, expired, cur, history, walletVars>>

TransferOnCur ==
  /\ At("on_list")
  /\ Heavier(Top.ship)
  /\ Go("on_scales")
  /\ UNCHANGED <<job, expired, onboard, history, walletVars>>

TransferOffList ==
  /\ At("on_scales")
  /\ Delisted(Top.from, Top.job)
  /\ Go("off_list")
  /\ UNCHANGED <<job, expired, cur, history, walletVars>>

TransferOffCur ==
  /\ At("off_list")
  /\ Lighter(Top.from)
  /\ Go("moved")
  /\ UNCHANGED <<job, expired, onboard, history, walletVars>>

(* All are told before the job is saved.                                   *)
TransferSave ==
  /\ At("moved")
  /\ job' = [job EXCEPT ![Top.job].loaded_on = Top.ship]
  /\ End
  /\ UNCHANGED <<expired, hold, history, walletVars>>

CargoCommand ==
  \/ \E j \in (Jobs \cap world) : Generate(j)
  \/ \E j \in DOMAIN job, p \in Persons :
       \/ Claim(p, j) \/ Unassign(p, j) \/ Unclaim(p, j)
       \/ \E v \in Persons : Assign(p, j, v)
       \/ \E s \in Ships : Load(p, j, s)
  \/ \E j \in DOMAIN job : \/ Deliver(j)
                           \/ \E s \in Ships : Transfer(j, s)

CargoStep ==
  \/ CargoCommand
  \/ \E j \in DOMAIN job : Expire(j)
  \/ ClaimSave \/ UnassignSave
  \/ LoadRefused \/ LoadList \/ LoadCur \/ LoadSave
  \/ DeliverRefused \/ DeliverLand \/ DeliverPay
  \/ DeliverList \/ DeliverCur \/ DeliverSave
  \/ TransferRefused \/ TransferOnList \/ TransferOnCur
  \/ TransferOffList \/ TransferOffCur \/ TransferSave
=============================================================================
