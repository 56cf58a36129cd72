------------------------------ MODULE MCVacation ------------------------------
(***************************************************************************)
(* Small instances of Vacation: an employee, a boss without group and an   *)
(* administrator, two organization nodes, half-day ticks.                  *)
(***************************************************************************)
EXTENDS Vacation, TLC

CONSTANTS ana, boss, adm, n1, n2

CallSymmetry == Permutations(Calls)

OneDay == [start |-> 2, end |-> 2]
WithinDay == [start |-> 2, end |-> 3]
TwoDays == [start |-> 0, end |-> 2]
AcrossMidnight == [start |-> 1, end |-> 4]
Backwards == [start |-> 2, end |-> 0]

BossNode == [id |-> n1, userId |-> boss, supervisorId |-> ROOT]
AnaNode == [id |-> n2, userId |-> ana, supervisorId |-> n1]

(***************************************************************************)
(* ana under boss; ana alone, her supervisor's node gone.                  *)
(***************************************************************************)
FullTree == n1 :> BossNode @@ n2 :> AnaNode
BrokenTree == n1 :> Undefined @@ n2 :> AnaNode

ShortPeriods == {OneDay, TwoDays}
ConcurrentPeriods == {WithinDay, AcrossMidnight, Backwards}
ConcurrentTotals == {-1, 3}
OneTree == {FullTree}
NoTree == {n1 :> Undefined @@ n2 :> Undefined}
TwoTrees == {FullTree, BrokenTree}
===============================================================================
