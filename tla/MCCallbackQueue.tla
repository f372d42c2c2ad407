-------------------------- MODULE MCCallbackQueue --------------------------
(***************************************************************************)
(* PennJSON_Queue.new(MaxSizeHint) on a small hint.                        *)
(***************************************************************************)
EXTENDS CallbackQueue

CONSTANT MaxSizeHint

(* The constructor's loop: @max starts at 1 and is doubled while it is no  *)
(* larger than the hint.                                                   *)
Doubled[m \in Nat] == IF m <= MaxSizeHint THEN Doubled[2 * m] ELSE m

ASSUME ConstructorAssumption == Max = Doubled[1]
=============================================================================
