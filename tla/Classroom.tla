------------------------------ MODULE Classroom ------------------------------
(***************************************************************************)
(* The courses of one teacher: the teacher creates them, hands out         *)
(* invitation codes and archives them, students join with a code           *)
(* (ClassroomsService), an hourly Lambda (alert-generator) raises alerts   *)
(* about the students who joined, at most once a day each, and the teacher *)
(* lists and resolves alerts (AlertsService).                              *)
(*                                                                          *)
(* Both check, then act: joinWithCode writes a use count it computed from  *)
(* an earlier read, the generator looks for an alert of today and then     *)
(* inserts one, with no unique index behind it. What a cycle reads of      *)
(* mastery and attempts may have changed in any way since the last one, so *)
(* it is chosen anew. No endpoint sets maxUses or expiresAt of an invite:  *)
(* MaxUses stands for one set in the database, and no invite expires.      *)
(***************************************************************************)
EXTENDS Naturals, FiniteSets

CONSTANTS
  Courses, Invites, Students, Topics, Units,
  Joins,     \* requests of joinWithCode
  Cycles,    \* invocations of the generator
  MaxUses,   \* maxUses of each invite
  MaxDay,    \* bound: last day
  MaxDue,    \* bound: alerts a cycle has to raise
  None

ASSUME ClassroomAssumption ==
  /\ IsFiniteSet(Joins)
  /\ MaxUses \in Nat /\ MaxDay \in Nat /\ MaxDue \in Nat
  /\ None \notin Courses \union Students \union Topics \union Units

VARIABLES
  course,            \* per course: none yet, open or (with an archivedAt) archived
  invite,            \* per code: its course and useCount
  enrolled,          \* pairs <<course, student>>
  join,              \* per request: its step and what it carries
  cycle,             \* per invocation: its step and the alerts it has to raise
  alerts,            \* teacher_alerts rows
  day,
  joinsOverlapped,   \* history: two joins have overlapped
  cyclesOverlapped   \* history: two cycles have overlapped

joinVars == <<invite, enrolled, join, joinsOverlapped>>
alertVars == <<cycle, alerts, cyclesOverlapped>>
vars == <<course, day, joinVars, alertVars>>

-----------------------------------------------------------------------------

Alert ==
  [type : {"AT_RISK_STUDENT", "STUDENT_DROP", "UNIT_OFF_TRACK"}, course : Courses,
   topic : Topics \union {None}, student : Students \union {None}, unit : Units \union {None}]

AlertRow == [alert : Alert, day : 0..MaxDay, open : BOOLEAN, by : Cycles]

JoinRecord ==
  [step : {"new", "write", "joined", "error"}, code : Invites \union {None},
   student : Students \union {None}, read : 0..MaxUses]

\* due: everything the cycle has to raise; work: what is left of it; at: the
\* alert it found missing; from: the day it started.
CycleRecord ==
  [step : {"new", "find", "create", "done", "failed"}, due : SUBSET Alert,
   work : SUBSET Alert, at : Alert \union {None}, from : 0..MaxDay]

NewJoin == [step |-> "new", code |-> None, student |-> None, read |-> 0]

NewInvite == [course |-> None, useCount |-> 0]

NewCycle == [step |-> "new", due |-> {}, work |-> {}, at |-> None, from |-> 0]

Init ==
  /\ course = [c \in Courses |-> "none"]
  /\ invite = [i \in Invites |-> NewInvite]
  /\ enrolled = {}
  /\ join = [j \in Joins |-> NewJoin]
  /\ cycle = [k \in Cycles |-> NewCycle]
  /\ alerts = {}
  /\ day = 0
  /\ joinsOverlapped = FALSE
  /\ cyclesOverlapped = FALSE

-----------------------------------------------------------------------------
(* Courses and invites *)

CreateForTeacher(c) ==
  /\ course[c] = "none"
  /\ course' = [course EXCEPT ![c] = "open"]
  /\ UNCHANGED <<day, joinVars, alertVars>>

\* Not asked of a course: whether it is archived already.
ArchiveCourse(c) ==
  /\ course[c] # "none"
  /\ course' = [course EXCEPT ![c] = "archived"]
  /\ UNCHANGED <<day, joinVars, alertVars>>

CreateInvite(i, c) ==
  /\ course[c] # "none"
  /\ invite[i].course = None
  /\ invite' = [invite EXCEPT ![i].course = c]
  /\ UNCHANGED <<course, day, enrolled, join, joinsOverlapped, alertVars>>

\* Broken variant: the last use of an invite may be taken once more.
UsedUpOffByOne(i) == invite[i].useCount > MaxUses

UsedUp(i) == invite[i].useCount >= MaxUses

\* joinWithCode reads the invite; an archived course can be joined like another.
JoinRead(j) ==
  /\ join[j].step = "new"
  /\ \E i \in Invites, s \in Students :
       /\ join' = [join EXCEPT ![j] =
            IF invite[i].course = None \/ UsedUp(i) THEN [NewJoin EXCEPT !.step = "error"]
            ELSE [step |-> "write", code |-> i, student |-> s, read |-> invite[i].useCount]]
       /\ joinsOverlapped' = (joinsOverlapped \/
            \E k \in Joins : join[k].step = "write" /\ join[k].code = i)
  /\ UNCHANGED <<course, day, invite, enrolled, alertVars>>

\* One transaction: the enrolment and the count that was read, plus one.
JoinWrite(j) ==
  /\ join[j].step = "write"
  /\ LET i == join[j].code IN
       /\ enrolled' = enrolled \union {<<invite[i].course, join[j].student>>}
       /\ invite' = [invite EXCEPT ![i].useCount = join[j].read + 1]
  /\ join' = [join EXCEPT ![j] = [@ EXCEPT !.step = "joined", !.read = 0]]
  /\ UNCHANGED <<course, day, joinsOverlapped, alertVars>>

JoinFails(j) ==
  /\ join[j].step = "write"
  /\ join' = [join EXCEPT ![j] = [NewJoin EXCEPT !.step = "error"]]
  /\ UNCHANGED <<course, day, invite, enrolled, joinsOverlapped, alertVars>>

-----------------------------------------------------------------------------
(* The alert generator *)

\* risk[s] is the first of the student's weak topics, when there are two or
\* more: the query has no order, so any of them may come first.
AtRiskAlerts(risk) ==
  {[type |-> "AT_RISK_STUDENT", course |-> e[1], topic |-> risk[e[2]], student |-> e[2],
    unit |-> None] : e \in {p \in enrolled : course[p[1]] = "open" /\ risk[p[2]] # None}}

DropAlerts(idle) ==
  {[type |-> "STUDENT_DROP", course |-> e[1], topic |-> None, student |-> e[2],
    unit |-> None] : e \in {p \in enrolled : course[p[1]] = "open" /\ p[2] \in idle}}

\* Only topics that enrolled students have worked on are averaged.
OffTrackAlerts(offTrack) ==
  {[type |-> "UNIT_OFF_TRACK", course |-> o[1], topic |-> None, student |-> None,
    unit |-> o[2]] : o \in {p \in offTrack : course[p[1]] = "open" /\
                              \E s \in Students : <<p[1], s>> \in enrolled}}

\* The single query a cycle works from.
Snapshot(k) ==
  /\ cycle[k].step = "new"
  /\ \E risk \in [Students -> Topics \union {None}], idle \in SUBSET Students,
        offTrack \in SUBSET (Courses \X Units) :
       LET due == AtRiskAlerts(risk) \union DropAlerts(idle) \union OffTrackAlerts(offTrack)
       IN  /\ Cardinality(due) <= MaxDue
           /\ cycle' = [cycle EXCEPT ![k] =
                [step |-> "find", due |-> due, work |-> due, at |-> None, from |-> day]]
  /\ cyclesOverlapped' =
       (cyclesOverlapped \/ \E i \in Cycles : cycle[i].step \in {"find", "create"})
  /\ UNCHANGED <<course, day, joinVars, alerts>>

\* What upsertAlertDedup searches by: not the course, and not the unit.
Key(alert) == <<alert.type, alert.topic, alert.student>>

\* Broken variant: the search does not ask for today's alerts.
ExistingAnyDay(alert) == \E row \in alerts : Key(row.alert) = Key(alert) /\ row.open

\* Broken variant: the search is for alerts of the same course and unit.
ExistingSame(alert) == \E row \in alerts : row.alert = alert /\ row.day = day /\ row.open

Existing(alert) ==
  \E row \in alerts : Key(row.alert) = Key(alert) /\ row.day = day /\ row.open

\* The loops visit courses, students and units in the order of the query, which
\* is none; alerts that differ in their key do not see each other.
FindExisting(k) ==
  /\ cycle[k].step = "find"
  /\ \E a \in cycle[k].work :
       cycle' = [cycle EXCEPT ![k] =
         IF Existing(a) THEN [@ EXCEPT !.work = cycle[k].work \ {a}]
         ELSE [@ EXCEPT !.step = "create", !.at = a]]
  /\ UNCHANGED <<course, day, joinVars, alerts, cyclesOverlapped>>

CreateAlert(k) ==
  /\ cycle[k].step = "create"
  /\ alerts' = alerts \union {[alert |-> cycle[k].at, day |-> day, open |-> TRUE, by |-> k]}
  /\ cycle' = [cycle EXCEPT ![k] =
       [@ EXCEPT !.step = "find", !.at = None, !.work = cycle[k].work \ {cycle[k].at}]]
  /\ UNCHANGED <<course, day, joinVars, cyclesOverlapped>>

CycleEnds(k) ==
  /\ cycle[k].step = "find"
  /\ cycle[k].work = {}
  /\ cycle' = [cycle EXCEPT ![k].step = "done"]
  /\ UNCHANGED <<course, day, joinVars, alerts, cyclesOverlapped>>

\* An exception, or the timeout of the Lambda: the alerts raised so far stay.
CycleFails(k) ==
  /\ cycle[k].step \in {"find", "create"}
  /\ cycle' = [cycle EXCEPT ![k] = [NewCycle EXCEPT !.step = "failed"]]
  /\ UNCHANGED <<course, day, joinVars, alerts, cyclesOverlapped>>

\* The list of a course (findByCourse): whatever is not resolved.
CourseAlerts(c) == {row \in alerts : row.alert.course = c /\ row.open}

\* resolve, from that list.
Resolve(row) ==
  /\ alerts' = (alerts \ {row}) \union {[row EXCEPT !.open = FALSE]}
  /\ UNCHANGED <<course, day, joinVars, cycle, cyclesOverlapped>>

NextDay ==
  /\ day < MaxDay
  /\ day' = day + 1
  /\ UNCHANGED <<course, joinVars, alertVars>>

-----------------------------------------------------------------------------

Next ==
  \/ \E c \in Courses :
       \/ CreateForTeacher(c) \/ ArchiveCourse(c)
       \/ \E i \in Invites : CreateInvite(i, c)
       \/ \E row \in CourseAlerts(c) : Resolve(row)
  \/ \E j \in Joins : JoinRead(j) \/ JoinWrite(j) \/ JoinFails(j)
  \/ \E k \in Cycles :
       Snapshot(k) \/ FindExisting(k) \/ CreateAlert(k) \/ CycleEnds(k) \/ CycleFails(k)
  \/ NextDay

Spec == Init /\ [][Next]_vars

-----------------------------------------------------------------------------
(* Properties *)

\* Rows, requests and invocations have their types.
TypeOK ==
  /\ course \in [Courses -> {"none", "open", "archived"}]
  /\ enrolled \subseteq Courses \X Students
  /\ invite \in [Invites -> [course : Courses \union {None}, useCount : 0..MaxUses]]
  /\ join \in [Joins -> JoinRecord]
  /\ \A k \in Cycles : cycle[k].step \in {"new", "find", "create", "done", "failed"}
       /\ cycle[k].due \subseteq Alert /\ cycle[k].work \subseteq cycle[k].due
       /\ cycle[k].at \in cycle[k].work \union {None} /\ cycle[k].from \in 0..day
  /\ alerts \subseteq AlertRow
  /\ day \in 0..MaxDay
  /\ joinsOverlapped \in BOOLEAN /\ cyclesOverlapped \in BOOLEAN

Joined(i) == {j \in Joins : join[j].step = "joined" /\ join[j].code = i}

\* A use count never exceeds the joins it stands for, and it is exact, so that
\* the cap holds, until two joins with the code overlap.
UsesAreCounted ==
  \A i \in Invites :
    /\ invite[i].useCount <= Cardinality(Joined(i))
    /\ ~joinsOverlapped =>
         invite[i].useCount = Cardinality(Joined(i)) /\ Cardinality(Joined(i)) <= MaxUses

\* Unless two cycles overlap, no day has two open alerts of the same type, topic
\* and student, whatever the cycles that failed half-way had raised.
OneOpenAlertPerDay ==
  ~cyclesOverlapped =>
    \A a, b \in alerts :
      a # b /\ a.open /\ b.open /\ a.day = b.day => Key(a.alert) # Key(b.alert)

\* A cycle that ended has raised everything it had to, or found it raised, on the
\* days it ran: overlaps, failures and resolved alerts never make it skip one.
\* Alerts of two courses or two units that share a key count as one.
EndedCycleHasAlerted ==
  \A k \in Cycles : cycle[k].step = "done" =>
    \A a \in cycle[k].due : \E row \in alerts :
      Key(row.alert) = Key(a) /\ row.day >= cycle[k].from

=============================================================================
