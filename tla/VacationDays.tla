----------------------------- MODULE VacationDays -----------------------------
(***************************************************************************)
(* The arithmetic of vacation days: how a request's length is computed     *)
(* from its two dates (vacation.types.ts) and how the days a user has      *)
(* consumed are summed over requests (sumDays and deriveBalance at the     *)
(* foot of vacation.service.ts).                                           *)
(*                                                                         *)
(* An instant is a whole number of ticks, TicksPerDay of them to a day; a  *)
(* date without a time of day is a multiple of TicksPerDay.                *)
(***************************************************************************)
EXTENDS Integers, FiniteSets

CONSTANT TicksPerDay

ASSUME TicksAssumption == TicksPerDay \in Nat \ {0}

(***************************************************************************)
(* Math.ceil(|end - start| / one day) + 1.                                 *)
(***************************************************************************)
Distance(start, end) == IF start <= end THEN end - start ELSE start - end

\* Mutant: whole days only.
CalculateFullDays(start, end) == Distance(start, end) \div TicksPerDay + 1

CalculateDays(start, end) ==
  (Distance(start, end) + TicksPerDay - 1) \div TicksPerDay + 1

(***************************************************************************)
(* The calendar days an inclusive period touches: what the doc comment of  *)
(* calculateDays promises.                                                 *)
(***************************************************************************)
CalendarDay(instant) == instant \div TicksPerDay

TimeOfDay(instant) == instant % TicksPerDay

DaysTouched(start, end) == CalendarDay(end) - CalendarDay(start) + 1

(***************************************************************************)
(* The days a set of requests stands for, one pair per request and day:    *)
(* summing totalDays over requests whose ids differ is counting the pairs. *)
(***************************************************************************)
DayPairs(rs) == UNION {{r.id} \X (1..r.totalDays) : r \in rs}

SumDays(rs, status) == Cardinality(DayPairs({r \in rs : r.status = status}))

\* Mutant: pending requests hold no days.
AvailableOfApproved(total, rs) == total - SumDays(rs, "APPROVED")

(***************************************************************************)
(* availableDays of deriveBalance: only approved and pending requests      *)
(* count against the assigned total.                                       *)
(***************************************************************************)
Available(total, rs) == total - SumDays(rs, "APPROVED") - SumDays(rs, "PENDING")
===============================================================================
