----------------------------- MODULE Dashboard ------------------------------
(***************************************************************************)
(* The figures of the dashboard: six queries in a row, all relative to the *)
(* instant the request came in, while files are indexed and the clock goes *)
(* on, possibly past midnight.  Instants are UTC hours, a day has DayLen   *)
(* of them; the session of the database may be in another time zone.       *)
(***************************************************************************)
EXTENDS Integers, FiniteSets

CONSTANTS DayLen,      \* hours of a day
          TrendDays,   \* trendDays
          Horizon,     \* bound: instants are 0..Horizon
          Zone,        \* offsets the database session may have from UTC
          StatFile     \* files there may be

ASSUME DashAssumption ==
  /\ DayLen \in Nat \ {0} /\ TrendDays \in Nat \ {0}
  /\ Horizon \in Nat /\ Zone \subseteq Int

VARIABLES
  clock,      \* now
  zone,       \* of the session
  uploadedAt, \* file_entries.uploaded_at, by file
  dash        \* the request: what it has read so far

dashVars == <<clock, zone, uploadedAt, dash>>

NoStats == [pc |-> "none", now |-> 0, files |-> 0, today |-> 0, trend |-> <<>>, calm |-> TRUE]

DashInit ==
  /\ clock = 0 /\ uploadedAt = <<>> /\ dash = NoStats
  /\ zone \in Zone

-----------------------------------------------------------------------------
DayOf(t) == t \div DayLen
TodayStart == DayOf(dash.now) * DayLen
TrendStart == TodayStart - (TrendDays - 1) * DayLen

\* Files uploaded at or after an instant.
Since(t) == {f \in DOMAIN uploadedAt : uploadedAt[f] >= t}

SessionDay(f) == DayOf(uploadedAt[f] + zone)

\* AT TIME ZONE 'UTC': the day does not depend on the session.
BucketDay(f) == DayOf(uploadedAt[f])

\* Dashboard: now is read once.
Dashboard ==
  /\ dash.pc = "none"
  /\ dash' = [NoStats EXCEPT !.pc = "files", !.now = clock]
  /\ UNCHANGED <<clock, zone, uploadedAt>>

CountFiles ==
  /\ dash.pc = "files"
  /\ dash' = [dash EXCEPT !.pc = "today", !.files = Cardinality(DOMAIN uploadedAt)]
  /\ UNCHANGED <<clock, zone, uploadedAt>>

CountToday ==
  /\ dash.pc = "today"
  /\ dash' = [dash EXCEPT !.pc = "trend", !.today = Cardinality(Since(TodayStart))]
  /\ UNCHANGED <<clock, zone, uploadedAt>>

\* The counts by day, and every day of the window in the answer.
UploadTrend ==
  /\ dash.pc = "trend"
  /\ dash' = [dash EXCEPT !.pc = "done",
        !.trend = [i \in 1..TrendDays |->
          Cardinality({f \in Since(TrendStart) : BucketDay(f) = DayOf(TrendStart) + i - 1})]]
  /\ UNCHANGED <<clock, zone, uploadedAt>>

QueryFails ==
  /\ dash.pc \in {"files", "today", "trend"} /\ dash' = NoStats
  /\ UNCHANGED <<clock, zone, uploadedAt>>

StatsAnswered ==
  /\ dash.pc = "done" /\ dash' = NoStats
  /\ UNCHANGED <<clock, zone, uploadedAt>>

-----------------------------------------------------------------------------
\* A file is indexed, with the instant its agent gives: before now, or after
\* it when that clock is ahead.
FileIndexed(f) ==
  /\ \E t \in 0..Horizon :
       uploadedAt' = [g \in DOMAIN uploadedAt \cup {f} |-> IF g = f THEN t ELSE uploadedAt[g]]
  /\ dash' = [dash EXCEPT !.calm = dash.pc = "none"]
  /\ UNCHANGED <<clock, zone>>

HourPasses ==
  /\ clock < Horizon /\ clock' = clock + 1
  /\ UNCHANGED <<zone, uploadedAt, dash>>

DashNext ==
  \/ Dashboard \/ CountFiles \/ CountToday \/ UploadTrend \/ QueryFails \/ StatsAnswered
  \/ \E f \in StatFile : FileIndexed(f)
  \/ HourPasses

DashSpec == DashInit /\ [][DashNext]_dashVars

-----------------------------------------------------------------------------
(* The figures agree with each other: when no file is indexed while they    *)
(* are read, the days of the trend hold every file of the window once, and  *)
(* the last of them, with the files dated after it, is the number for       *)
(* today, whatever the time zone of the session and though midnight passes  *)
(* between two of the queries.                                              *)
FiguresAgree ==
  dash.pc = "done" /\ dash.calm =>
    /\ dash.today = dash.trend[TrendDays] + Cardinality(Since(TodayStart + DayLen))
    /\ \A i \in 1..TrendDays :
         dash.trend[i] = Cardinality(Since(TrendStart + (i - 1) * DayLen))
                         - Cardinality(Since(TrendStart + i * DayLen))
    /\ dash.files >= dash.today
=============================================================================
