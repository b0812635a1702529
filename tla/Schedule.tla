------------------------------ MODULE Schedule ------------------------------
(***************************************************************************)
(* The calendar of a summer course (hc-axum's page /sgi): make_schedule    *)
(* reads an XML document event by event and gives every day of classes a   *)
(* date, stepping over weekends and holidays.                              *)
(*                                                                         *)
(* Dates are numbered from a Monday, which is 0.                           *)
(***************************************************************************)
EXTENDS Naturals, Sequences, FiniteSets, SequencesExt

CONSTANT Courses     \* the courses considered: [day1, holidays, length]

VARIABLES
  course,            \* the course that the program was built with
  calendar           \* the rows of the page, once it was asked for

scheduleVars == <<course, calendar>>

ASSUME CoursesAssumption ==
  \A c \in Courses :
    /\ c.day1 \in Nat /\ c.length \in Nat
    /\ c.holidays \subseteq Nat /\ IsFiniteSet(c.holidays)

Monday == 0
Friday == 4
Saturday == 5
Sunday == 6
Weekday(date) == date % 7

-----------------------------------------------------------------------------
(***************************************************************************)
(* The document of a course: each day holds a class, the class a section.  *)
(***************************************************************************)
Document(c) ==
  <<[tag |-> "sgi", date |-> c.day1]>>
  \o SetToSeq({[tag |-> "holiday", date |-> d] : d \in c.holidays})
  \o FlattenSeq([n \in 1 .. c.length |->
       <<[tag |-> "day", n |-> n], [tag |-> "class", name |-> n], [tag |-> "section", name |-> n]>>])

LgiDay(type, date, n) == [day_type |-> type, day |-> date, day_num |-> n, classes |-> <<>>]

\* Mutant: of a weekend only the Saturday is skipped.
FreeDaysSunday(sgi, date) ==
  IF date \in sgi.holidays THEN <<LgiDay("Holiday", date, 0)>>
  ELSE IF Weekday(date) = Saturday THEN <<LgiDay("RestAndStudy", date, 0)>>
  ELSE <<>>

(***************************************************************************)
(* The free days put before a day of classes that would fall on date.      *)
(* What comes after them is not looked at again.                           *)
(***************************************************************************)
FreeDays(sgi, date) ==
  IF date \in sgi.holidays THEN <<LgiDay("Holiday", date, 0)>>
  ELSE IF Weekday(date) = Saturday
    THEN <<LgiDay("RestAndStudy", date, 0), LgiDay("SundayReview", date + 1, 0)>>
  ELSE <<>>

\* Mutant: the_day is not moved on past the free days.
NewDayUnmoved(sgi, n) ==
  LET date == sgi.day1 + Len(sgi.days)
  IN  [sgi EXCEPT !.days = @ \o FreeDays(sgi, date) \o <<LgiDay("Normal", date, n)>>]

(***************************************************************************)
(* <day>: day_count is always the number of days there are so far.         *)
(***************************************************************************)
NewDay(sgi, n) ==
  LET date == sgi.day1 + Len(sgi.days)
      free == FreeDays(sgi, date)
  IN  [sgi EXCEPT !.days =
         @ \o free \o <<LgiDay("Normal", date + Len(free), n)>>]

(***************************************************************************)
(* A class is put on the day read last, a section in that day's last class.*)
(***************************************************************************)
OnLastDay(sgi, classes) == [sgi EXCEPT !.days[Len(sgi.days)].classes = classes]

NewClass(sgi, name) ==
  OnLastDay(sgi, Append(Last(sgi.days).classes, [name |-> name, sections |-> <<>>]))

NewSection(sgi, name) ==
  LET classes == Last(sgi.days).classes
  IN  OnLastDay(sgi, [classes EXCEPT ![Len(classes)].sections = Append(@, name)])

Event(sgi, e) ==
  CASE e.tag = "sgi"     -> [sgi EXCEPT !.day1 = e.date]
    [] e.tag = "holiday" -> [sgi EXCEPT !.holidays = @ \cup {e.date}]
    [] e.tag = "day"     -> NewDay(sgi, e.n)
    [] e.tag = "class"   -> NewClass(sgi, e.name)
    [] e.tag = "section" -> NewSection(sgi, e.name)

LgiCourse == [day1 |-> 0, days |-> <<>>, holidays |-> {}]

(***************************************************************************)
(* The loop that reads one event after the other.                          *)
(***************************************************************************)
MakeSchedule(c) ==
  LET doc == Document(c)
      sgi[k \in 0 .. Len(doc)] == IF k = 0 THEN LgiCourse ELSE Event(sgi[k-1], doc[k])
  IN  sgi[Len(doc)]

(***************************************************************************)
(* The page is printed from the days.                                      *)
(***************************************************************************)
SgiSchedule == calendar' = MakeSchedule(course).days /\ UNCHANGED course

ScheduleInit == course \in Courses /\ calendar = <<>>

ScheduleSpec == ScheduleInit /\ [][SgiSchedule]_scheduleVars

-----------------------------------------------------------------------------
(* Properties.                                                             *)

Workday(date) == Weekday(date) \notin {Saturday, Sunday} /\ date \notin course.holidays

(***************************************************************************)
(* The working days of the course up to a date.                            *)
(***************************************************************************)
WorkdaysTo(date) == Cardinality({d \in course.day1 .. date : Workday(d)})

(***************************************************************************)
(* The holidays make_schedule can step over: none next to another, none on *)
(* a Friday, Saturday or Monday.  A course does not begin on a Sunday.     *)
(***************************************************************************)
Foreseen ==
  /\ Weekday(course.day1) # Sunday
  /\ \A d \in course.holidays :
       /\ Weekday(d) \notin {Friday, Saturday, Monday}
       /\ d + 1 \notin course.holidays

(***************************************************************************)
(* With such holidays classes are held on working days, and on all of them:*)
(* day n is the n-th working day of the course, and no day is missing.     *)
(***************************************************************************)
ClassesOnWorkdays ==
  calendar # <<>> /\ Foreseen =>
    /\ \A i \in DOMAIN calendar :
         LET date == calendar[i].day
         IN  calendar[i].day_num = IF Workday(date) THEN WorkdaysTo(date) ELSE 0
    /\ {calendar[i].day_num : i \in DOMAIN calendar} \ {0} = 1 .. course.length

(***************************************************************************)
(* The table has a row for every date from the first day on, in order, and *)
(* the classes of day n with their sections in the row of day n - for      *)
(* whatever holidays.                                                      *)
(***************************************************************************)
NoDateMissing ==
  \A i \in DOMAIN calendar :
    /\ calendar[i].day = course.day1 + i - 1
    /\ calendar[i].classes =
         IF calendar[i].day_num = 0 THEN <<>>
         ELSE <<[name |-> calendar[i].day_num, sections |-> <<calendar[i].day_num>>]>>
=============================================================================
