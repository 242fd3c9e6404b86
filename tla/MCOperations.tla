---------------------------- MODULE MCOperations ----------------------------
(***************************************************************************)
(* What is planned and recorded of a worker, side by side: the shifts, the *)
(* hours worked and the payslip; part says which of them a behaviour is    *)
(* about.                                                                  *)
(***************************************************************************)
EXTENDS Payslip, TLC

CONSTANTS Members, Devices, Desks, MaxShifts, Days, Window,
          Records, Requests, Weeks, WeekDays, MaxRows
VARIABLES now, linked, employed, shifts, entry, edit, crossed,
          people, closed, plan, told, tx, part

ASSUME HoursConstants == {MaxShifts, Days, Window} \subseteq Nat

ASSUME PlansConstants ==
    /\ Records \in SUBSET Nat /\ IsFiniteSet(Records)
    /\ MaxRows \in Nat /\ Weeks \in Nat /\ WeekDays \in Nat \ {0}

Hours == INSTANCE Attendance
hoursSide == <<now, linked, employed, shifts, entry, edit, crossed>>

Plans == INSTANCE WorkSchedules
plansSide == <<people, closed, plan, told, tx>>

PartsInit ==
    /\ part \in {"payslip", "hours", "plans"} /\ Init /\ Hours!Init /\ Plans!Init
    /\ part # "hours" => linked = {}
    /\ part # "plans" => \A r \in Records : people[r].until = WeekDays
PartsNext ==
    /\ UNCHANGED part
    /\ \/ part = "payslip" /\ Next /\ UNCHANGED <<hoursSide, plansSide>>
       \/ part = "hours" /\ Hours!Next /\ UNCHANGED <<payslipVars, plansSide>>
       \/ part = "plans" /\ Plans!Next /\ UNCHANGED <<payslipVars, hoursSide>>
PartsSpec == PartsInit /\ [][PartsNext]_<<payslipVars, hoursSide, plansSide, part>>

\* Properties of Attendance and WorkSchedules, under names of this module.
HoursCountOnce == Hours!HoursCountOnce
PlansHold == Plans!PlansHold
HistoryIsAChain == Plans!HistoryIsAChain

\* Members, editors and requests of different parts may be the same model values.
Symmetry == Permutations(Members) \cup Permutations(Devices) \cup Permutations(Desks)

\* Bound: no account was linked between the reading and the locking of an edit
\* (see Attendance): from there on two of its locks do not exclude each other.
Bound == ~crossed
=============================================================================
