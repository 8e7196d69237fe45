----------------------------- MODULE CronField -----------------------------
(***************************************************************************)
(* The three parties that judge a backup schedule: the admission webhook   *)
(* (isValidCronSchedule, api/v1/backupdb_webhook.go), the controller       *)
(* (cronExprRegex, internal/controller/backupdb_controller.go) and the     *)
(* cron library the controller hands it to.                                *)
(*                                                                         *)
(* A schedule is five fields, counted from 0 as in the code; a field is    *)
(* given by its kind and its numbers.  The text is left out.               *)
(***************************************************************************)
EXTENDS Integers

FieldIndex == 0..4

\* nums are the numbers of a list; a step, or a single value, is in first.
Field == [kind : {"star", "step", "range", "list", "single"},
          first : Nat, last : Nat, nums : SUBSET Nat]

Schedules == [FieldIndex -> Field]

\* Minute, hour, day, month and weekday.
Lowest == [i \in FieldIndex |-> IF i \in {2, 3} THEN 1 ELSE 0]

Highest == [i \in FieldIndex |-> <<59, 23, 31, 12, 6>>[i + 1]]

-----------------------------------------------------------------------------
(* The webhook.                                                            *)

IsValidStepValue(step, i) == 1 <= step /\ step <= Highest[i]

IsValidRangeValue(start, end, i) ==
  start <= end /\ Lowest[i] <= start /\ end <= Highest[i]

IsValidSingleValue(value, i) == Lowest[i] <= value /\ value <= Highest[i]

\* A star in a list is let through; a list of ranges or steps is no list.
IsValidCronField(f, i) ==
  \/ f.kind = "star"
  \/ f.kind = "step" /\ IsValidStepValue(f.first, i)
  \/ f.kind = "range" /\ IsValidRangeValue(f.first, f.last, i)
  \/ f.kind = "list" /\ \A n \in f.nums : IsValidSingleValue(n, i)
  \/ f.kind = "single" /\ IsValidSingleValue(f.first, i)

IsValidCronSchedule(s) == \A i \in FieldIndex : IsValidCronField(s[i], i)

-----------------------------------------------------------------------------
(* The controller's regular expression knows neither ranges nor lists, and  *)
(* takes any number.                                                       *)

IsValidCronExpression(s) ==
  \A i \in FieldIndex : s[i].kind \in {"star", "step", "single"}

-----------------------------------------------------------------------------
(* The parser of the cron library.                                         *)

ParsableField(f, i) ==
  \/ f.kind = "star"
  \/ f.kind = "step" /\ f.first # 0
  \/ f.kind = "range" /\ f.first \in Lowest[i]..f.last /\ f.last <= Highest[i]
  \/ f.kind = "list" /\ f.nums \subseteq Lowest[i]..Highest[i]
  \/ f.kind = "single" /\ f.first \in Lowest[i]..Highest[i]

ParsableSchedule(s) == \A i \in FieldIndex : ParsableField(s[i], i)
=============================================================================
