-------------------------- MODULE MCBackupSchedule --------------------------
(* BackupSchedule on small sets, for TLC.  The schedules are real ones, and *)
(* what each party makes of them is computed by CronField.                 *)
EXTENDS BackupSchedule, TLC

Cron == INSTANCE CronField

Star == [kind |-> "star", first |-> 0, last |-> 0, nums |-> {}]
Number(n) == [Star EXCEPT !.kind = "single", !.first = n]
FromTo(a, b) == [Star EXCEPT !.kind = "range", !.first = a, !.last = b]

\* At a minute of two o'clock, on the weekdays given.
AtTwo(minute, days) ==
  [i \in Cron!FieldIndex |->
     IF i = 0 THEN Number(minute)
     ELSE IF i = 1 THEN Number(2)
     ELSE IF i = 4 THEN days ELSE Star]

Daily == AtTwo(0, Star)
Sundays == AtTwo(0, Number(0))
\* The webhook accepts it, the controller's regular expression does not.
WorkingDays == AtTwo(0, FromTo(1, 5))
\* Only AddFunc refuses it: a resource stored while no webhook was installed.
NoSuchMinute == AtTwo(99, Star)

MCSchedule == {Daily, Sundays, WorkingDays, NoSuchMinute}
MCTwoSchedules == {Daily, WorkingDays}

MCMatchesRegex == {s \in Schedule : Cron!IsValidCronExpression(s)}
MCParsable == {s \in Schedule : Cron!ParsableSchedule(s)}
MCAdmitted == {s \in Schedule : Cron!IsValidCronSchedule(s)}
=============================================================================
