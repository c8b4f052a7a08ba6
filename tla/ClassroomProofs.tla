---------------------------- MODULE ClassroomProofs ----------------------------
(***************************************************************************)
(* Proofs about Classroom, for every number of courses, codes, students,   *)
(* joins and cycles, every maxUses and every day: its types, that use      *)
(* counts are backed by joins, that no day has an alert twice unless two   *)
(* cycles overlapped, and that a cycle that ended has raised everything.   *)
(***************************************************************************)
EXTENDS Classroom, FiniteSetTheorems, TLAPS

-----------------------------------------------------------------------------
(* Types *)

\* What the types rest on: an invitation that is about to be used has a use left and
\* belongs to a course, a cycle holds an alert exactly while it is about to raise it,
\* and no row is of a day to come.
TypeInv ==
  /\ TypeOK
  /\ cycle \in [Cycles -> CycleRecord]
  /\ \A j \in Joins : join[j].step = "write" =>
       /\ join[j].code \in Invites /\ join[j].student \in Students
       /\ join[j].read < MaxUses
       /\ invite[join[j].code].course # None
  /\ \A j \in Joins : join[j].step = "joined" => join[j].code \in Invites
  /\ \A k \in Cycles :
       /\ cycle[k].step = "create" => cycle[k].at \in cycle[k].work
       /\ cycle[k].step # "create" => cycle[k].at = None
  /\ \A row \in alerts : row.day <= day

Active(k) == cycle[k].step \in {"find", "create"}

\* The rows, requests and invocations of the initial state have their types.
LEMMA InitTypes == Init => TypeInv
<1> SUFFICES ASSUME Init PROVE TypeInv
  OBVIOUS
<1>1. 0 \in 0..MaxUses /\ 0 \in 0..MaxDay /\ day \in 0..MaxDay /\ day \in Nat
  BY ClassroomAssumption DEF Init
<1>2. course \in [Courses -> {"none", "open", "archived"}]
  BY DEF Init
<1>3. invite \in [Invites -> [course : Courses \union {None}, useCount : 0..MaxUses]]
  BY <1>1 DEF Init, NewInvite
<1>4. join \in [Joins -> JoinRecord]
  BY <1>1 DEF Init, NewJoin, JoinRecord
<1>5. cycle \in [Cycles -> CycleRecord]
  BY <1>1 DEF Init, NewCycle, CycleRecord
<1>6. \A k \in Cycles : /\ cycle[k].step = "new" /\ cycle[k].due = {} /\ cycle[k].work = {}
                        /\ cycle[k].at = None /\ cycle[k].from = 0
  BY DEF Init, NewCycle
<1>7. \A j \in Joins : join[j].step = "new"
  BY DEF Init, NewJoin
<1>8. enrolled = {} /\ alerts = {} /\ joinsOverlapped = FALSE /\ cyclesOverlapped = FALSE /\ day = 0
  BY DEF Init
<1>9. \A k \in Cycles : cycle[k].from \in 0..day
  BY <1>1, <1>6, <1>8
<1>10. enrolled \subseteq Courses \X Students /\ alerts \subseteq AlertRow
       /\ \A row \in alerts : row.day <= day
  BY <1>8
<1> QED
  BY <1>1, <1>2, <1>3, <1>4, <1>5, <1>6, <1>7, <1>8, <1>9, <1>10 DEF TypeInv, TypeOK

\* The joins, the codes and the cycles are apart: a step of one part keeps the types
\* of the others.
CourseTypes ==
  /\ course \in [Courses -> {"none", "open", "archived"}]
  /\ enrolled \subseteq Courses \X Students
  /\ invite \in [Invites -> [course : Courses \union {None}, useCount : 0..MaxUses]]

JoinTypes ==
  /\ join \in [Joins -> JoinRecord]
  /\ joinsOverlapped \in BOOLEAN
  /\ \A j \in Joins : join[j].step = "write" =>
       /\ join[j].code \in Invites /\ join[j].student \in Students
       /\ join[j].read < MaxUses
       /\ invite[join[j].code].course # None
  /\ \A j \in Joins : join[j].step = "joined" => join[j].code \in Invites

CycleTypesOf(k) ==
  /\ cycle[k].step \in {"new", "find", "create", "done", "failed"}
  /\ cycle[k].due \subseteq Alert /\ cycle[k].work \subseteq cycle[k].due
  /\ cycle[k].at \in cycle[k].work \union {None} /\ cycle[k].from \in 0..day
  /\ cycle[k].step = "create" => cycle[k].at \in cycle[k].work
  /\ cycle[k].step # "create" => cycle[k].at = None

AlertTypes ==
  /\ cycle \in [Cycles -> CycleRecord]
  /\ \A k \in Cycles : CycleTypesOf(k)
  /\ alerts \subseteq AlertRow
  /\ day \in 0..MaxDay
  /\ cyclesOverlapped \in BOOLEAN
  /\ \A row \in alerts : row.day <= day

\* Together they are TypeInv.
LEMMA PartsOfTypes == TypeInv <=> CourseTypes /\ JoinTypes /\ AlertTypes
BY DEF TypeInv, TypeOK, CourseTypes, JoinTypes, AlertTypes, CycleTypesOf

\* joinWithCode is refused, or reads an invitation with a use left.
LEMMA JoinReadChange ==
  ASSUME TypeInv, NEW j \in Joins, JoinRead(j)
  PROVE  /\ join' \in [Joins -> JoinRecord]
         /\ join[j].step = "new" /\ join'[j].step \in {"error", "write"}
         /\ \A k \in Joins \ {j} : join'[k] = join[k]
         /\ join'[j].step = "write" =>
              /\ join'[j].code \in Invites /\ join'[j].student \in Students
              /\ join'[j].read = invite[join'[j].code].useCount
              /\ join'[j].read < MaxUses
              /\ invite[join'[j].code].course # None
              /\ ~joinsOverlapped' =>
                   \A k \in Joins : join[k].step = "write" => join[k].code # join'[j].code
         /\ joinsOverlapped' \in BOOLEAN /\ (joinsOverlapped => joinsOverlapped')
         /\ UNCHANGED <<course, day, invite, enrolled, alertVars>>
<1>1. PICK i \in Invites, s \in Students :
        /\ join' = [join EXCEPT ![j] =
             IF invite[i].course = None \/ UsedUp(i) THEN [NewJoin EXCEPT !.step = "error"]
             ELSE [step |-> "write", code |-> i, student |-> s, read |-> invite[i].useCount]]
        /\ joinsOverlapped' = (joinsOverlapped \/
             \E k \in Joins : join[k].step = "write" /\ join[k].code = i)
  BY DEF JoinRead
<1>2. join[j].step = "new" /\ UNCHANGED <<course, day, invite, enrolled, alertVars>>
  BY DEF JoinRead
<1>3. /\ invite[i].useCount \in 0..MaxUses /\ 0 \in 0..MaxUses
      /\ MaxUses \in Nat
  BY ClassroomAssumption DEF TypeInv, TypeOK
<1>4. CASE invite[i].course = None \/ UsedUp(i)
  <2>1. join' = [join EXCEPT ![j] = [NewJoin EXCEPT !.step = "error"]]
    BY <1>1, <1>4
  <2>2. [NewJoin EXCEPT !.step = "error"] \in JoinRecord
        /\ [NewJoin EXCEPT !.step = "error"].step = "error"
    BY <1>3 DEF NewJoin, JoinRecord
  <2> QED
    BY <1>1, <1>2, <2>1, <2>2 DEF TypeInv, TypeOK
<1>5. CASE ~(invite[i].course = None \/ UsedUp(i))
  <2>1. join' = [join EXCEPT ![j] =
          [step |-> "write", code |-> i, student |-> s, read |-> invite[i].useCount]]
    BY <1>1, <1>5
  <2>2. /\ join' \in [Joins -> JoinRecord]
        /\ join'[j].step = "write" /\ join'[j].code = i /\ join'[j].student = s
        /\ join'[j].read = invite[i].useCount
        /\ \A k \in Joins \ {j} : join'[k] = join[k]
    BY <1>3, <2>1 DEF TypeInv, TypeOK, JoinRecord
  <2>3. invite[i].useCount < MaxUses /\ invite[i].course # None
    BY <1>3, <1>5 DEF UsedUp
  <2>4. joinsOverlapped' \in BOOLEAN
    BY <1>1 DEF TypeInv, TypeOK
  <2> QED
    BY <1>1, <1>2, <2>2, <2>3, <2>4
<1> QED
  BY <1>4, <1>5

\* The transaction of a join enrols the student and writes the count that was read,
\* plus one.
LEMMA JoinWriteChange ==
  ASSUME TypeInv, NEW j \in Joins, JoinWrite(j), NEW i, i = join[j].code
  PROVE  /\ join[j].step = "write" /\ i \in Invites
         /\ invite' \in [Invites -> [course : Courses \union {None}, useCount : 0..MaxUses]]
         /\ invite'[i].useCount = join[j].read + 1
         /\ \A c \in Invites : invite'[c].course = invite[c].course
         /\ \A c \in Invites \ {i} : invite'[c] = invite[c]
         /\ enrolled' \subseteq Courses \X Students
         /\ join' \in [Joins -> JoinRecord]
         /\ join'[j].step = "joined" /\ join'[j].code = i
         /\ \A k \in Joins \ {j} : join'[k] = join[k]
         /\ UNCHANGED <<course, day, joinsOverlapped, alertVars>>
<1>1. /\ join[j].step = "write"
      /\ enrolled' = enrolled \union {<<invite[i].course, join[j].student>>}
      /\ invite' = [invite EXCEPT ![i].useCount = join[j].read + 1]
      /\ join' = [join EXCEPT ![j] = [@ EXCEPT !.step = "joined", !.read = 0]]
      /\ UNCHANGED <<course, day, joinsOverlapped, alertVars>>
  BY DEF JoinWrite
<1>2. /\ i \in Invites /\ join[j].student \in Students
      /\ join[j].read < MaxUses /\ invite[i].course # None
  BY <1>1 DEF TypeInv
<1>3. join[j].read + 1 \in 0..MaxUses /\ 0 \in 0..MaxUses
  BY <1>2, ClassroomAssumption DEF TypeInv, TypeOK, JoinRecord
<1>4. /\ invite' \in [Invites -> [course : Courses \union {None}, useCount : 0..MaxUses]]
      /\ invite'[i].useCount = join[j].read + 1
      /\ \A c \in Invites : invite'[c].course = invite[c].course
      /\ \A c \in Invites \ {i} : invite'[c] = invite[c]
  BY <1>1, <1>2, <1>3 DEF TypeInv, TypeOK
<1>5. enrolled' \subseteq Courses \X Students
  BY <1>1, <1>2 DEF TypeInv, TypeOK
<1>6. /\ join' \in [Joins -> JoinRecord]
      /\ join'[j].step = "joined" /\ join'[j].code = i
      /\ \A k \in Joins \ {j} : join'[k] = join[k]
  BY <1>1, <1>3 DEF TypeInv, TypeOK, JoinRecord
<1> QED
  BY <1>1, <1>2, <1>4, <1>5, <1>6

\* What a cycle has to raise are alerts.
LEMMA DueAlerts ==
  ASSUME TypeInv, NEW risk \in [Students -> Topics \union {None}], NEW idle,
         NEW offTrack \in SUBSET (Courses \X Units)
  PROVE  AtRiskAlerts(risk) \union DropAlerts(idle) \union OffTrackAlerts(offTrack) \subseteq Alert
<1>1. AtRiskAlerts(risk) \subseteq Alert
  BY DEF AtRiskAlerts, Alert, TypeInv, TypeOK
<1>2. DropAlerts(idle) \subseteq Alert
  BY DEF DropAlerts, Alert, TypeInv, TypeOK
<1>3. OffTrackAlerts(offTrack) \subseteq Alert
  BY DEF OffTrackAlerts, Alert
<1> QED
  BY <1>1, <1>2, <1>3

\* A cycle starts from its query with everything to raise.
LEMMA SnapshotChange ==
  ASSUME TypeInv, NEW k \in Cycles, Snapshot(k)
  PROVE  /\ cycle[k].step = "new"
         /\ cycle' \in [Cycles -> CycleRecord]
         /\ cycle'[k].step = "find" /\ cycle'[k].due \subseteq Alert
         /\ cycle'[k].work = cycle'[k].due /\ cycle'[k].at = None /\ cycle'[k].from = day
         /\ \A l \in Cycles \ {k} : cycle'[l] = cycle[l]
         /\ cyclesOverlapped' =
              (cyclesOverlapped \/ \E l \in Cycles : cycle[l].step \in {"find", "create"})
         /\ UNCHANGED <<course, day, joinVars, alerts>>
<1>1. PICK due \in SUBSET Alert :
        cycle' = [cycle EXCEPT ![k] =
          [step |-> "find", due |-> due, work |-> due, at |-> None, from |-> day]]
  <2>1. PICK risk \in [Students -> Topics \union {None}], idle \in SUBSET Students,
             offTrack \in SUBSET (Courses \X Units) :
          LET due == AtRiskAlerts(risk) \union DropAlerts(idle) \union OffTrackAlerts(offTrack)
          IN  cycle' = [cycle EXCEPT ![k] =
                [step |-> "find", due |-> due, work |-> due, at |-> None, from |-> day]]
    BY DEF Snapshot
  <2> QED
    BY <2>1, DueAlerts
<1>2. day \in 0..MaxDay
  BY DEF TypeInv, TypeOK
<1>3. /\ cycle' \in [Cycles -> CycleRecord]
      /\ cycle'[k].step = "find" /\ cycle'[k].due = due
      /\ cycle'[k].work = due /\ cycle'[k].at = None /\ cycle'[k].from = day
      /\ \A l \in Cycles \ {k} : cycle'[l] = cycle[l]
  BY <1>1, <1>2 DEF TypeInv, CycleRecord
<1> QED
  BY <1>3 DEF Snapshot

\* A cycle strikes an alert off that it finds, or goes to raise one it does not.
LEMMA FindChange ==
  ASSUME TypeInv, NEW k \in Cycles, FindExisting(k)
  PROVE  \E a \in cycle[k].work :
         /\ a \in Alert /\ cycle[k].step = "find"
         /\ cycle' \in [Cycles -> CycleRecord]
         /\ cycle'[k].due = cycle[k].due /\ cycle'[k].from = cycle[k].from
         /\ \/ /\ Existing(a) /\ cycle'[k].step = "find"
               /\ cycle'[k].work = cycle[k].work \ {a} /\ cycle'[k].at = None
            \/ /\ ~Existing(a) /\ cycle'[k].step = "create"
               /\ cycle'[k].work = cycle[k].work /\ cycle'[k].at = a
         /\ \A l \in Cycles \ {k} : cycle'[l] = cycle[l]
         /\ UNCHANGED <<course, day, joinVars, alerts, cyclesOverlapped>>
<1>1. PICK a \in cycle[k].work :
        cycle' = [cycle EXCEPT ![k] =
          IF Existing(a) THEN [@ EXCEPT !.work = cycle[k].work \ {a}]
          ELSE [@ EXCEPT !.step = "create", !.at = a]]
  BY DEF FindExisting
<1>2. /\ cycle[k].step = "find" /\ cycle[k].at = None
      /\ cycle[k].work \subseteq Alert /\ a \in Alert
      /\ UNCHANGED <<course, day, joinVars, alerts, cyclesOverlapped>>
  BY DEF FindExisting, TypeInv, TypeOK
<1>3. CASE Existing(a)
  <2>1. cycle' = [cycle EXCEPT ![k] = [@ EXCEPT !.work = cycle[k].work \ {a}]]
    BY <1>1, <1>3
  <2>2. /\ cycle' \in [Cycles -> CycleRecord]
        /\ cycle'[k].due = cycle[k].due /\ cycle'[k].from = cycle[k].from
        /\ cycle'[k].step = cycle[k].step
        /\ cycle'[k].work = cycle[k].work \ {a} /\ cycle'[k].at = cycle[k].at
        /\ \A l \in Cycles \ {k} : cycle'[l] = cycle[l]
    BY <1>2, <2>1 DEF TypeInv, CycleRecord
  <2> QED
    BY <1>2, <1>3, <2>2
<1>4. CASE ~Existing(a)
  <2>1. cycle' = [cycle EXCEPT ![k] = [@ EXCEPT !.step = "create", !.at = a]]
    BY <1>1, <1>4
  <2>2. /\ cycle' \in [Cycles -> CycleRecord]
        /\ cycle'[k].due = cycle[k].due /\ cycle'[k].from = cycle[k].from
        /\ cycle'[k].step = "create"
        /\ cycle'[k].work = cycle[k].work /\ cycle'[k].at = a
        /\ \A l \in Cycles \ {k} : cycle'[l] = cycle[l]
    BY <1>2, <2>1 DEF TypeInv, CycleRecord
  <2> QED
    BY <1>2, <1>4, <2>2
<1> QED
  BY <1>3, <1>4

\* A cycle raises the alert it went to raise, today, and strikes it off.
LEMMA CreateChange ==
  ASSUME TypeInv, NEW k \in Cycles, CreateAlert(k), NEW a, a = cycle[k].at
  PROVE  /\ cycle[k].step = "create" /\ a \in cycle[k].work /\ a \in Alert
         /\ cycle' \in [Cycles -> CycleRecord]
         /\ cycle'[k].due = cycle[k].due /\ cycle'[k].from = cycle[k].from
         /\ cycle'[k].step = "find" /\ cycle'[k].work = cycle[k].work \ {a}
         /\ cycle'[k].at = None
         /\ \A l \in Cycles \ {k} : cycle'[l] = cycle[l]
         /\ \E row \in AlertRow : /\ alerts' = alerts \union {row}
                                 /\ row.alert = a /\ row.day = day /\ row.open = TRUE
         /\ UNCHANGED <<course, day, joinVars, cyclesOverlapped>>
<1>1. /\ cycle[k].step = "create"
      /\ cycle' = [cycle EXCEPT ![k] =
           [@ EXCEPT !.step = "find", !.at = None, !.work = cycle[k].work \ {cycle[k].at}]]
      /\ alerts' = alerts \union {[alert |-> a, day |-> day, open |-> TRUE, by |-> k]}
      /\ UNCHANGED <<course, day, joinVars, cyclesOverlapped>>
  BY DEF CreateAlert
<1>2. a \in cycle[k].work /\ cycle[k].work \subseteq Alert /\ a \in Alert /\ day \in 0..MaxDay
  BY <1>1 DEF TypeInv, TypeOK
<1>3. /\ cycle' \in [Cycles -> CycleRecord]
      /\ cycle'[k].due = cycle[k].due /\ cycle'[k].from = cycle[k].from
      /\ cycle'[k].step = "find" /\ cycle'[k].work = cycle[k].work \ {a}
      /\ cycle'[k].at = None
      /\ \A l \in Cycles \ {k} : cycle'[l] = cycle[l]
  BY <1>1, <1>2 DEF TypeInv, CycleRecord
<1>4. \E row \in AlertRow : /\ alerts' = alerts \union {row}
                           /\ row.alert = a /\ row.day = day /\ row.open = TRUE
  <2>1. PICK row : row = [alert |-> a, day |-> day, open |-> TRUE, by |-> k]
    OBVIOUS
  <2>2. row \in AlertRow /\ row.alert = a /\ row.day = day /\ row.open = TRUE
    BY <1>2, <2>1 DEF AlertRow
  <2> QED
    BY <1>1, <2>1, <2>2
<1> QED
  BY <1>1, <1>2, <1>3, <1>4

\* A cycle ends with nothing left to raise, or fails and forgets everything.
LEMMA EndChange ==
  ASSUME TypeInv, NEW k \in Cycles, CycleEnds(k) \/ CycleFails(k)
  PROVE  /\ Active(k)
         /\ cycle' \in [Cycles -> CycleRecord]
         /\ \/ /\ cycle'[k].step = "done" /\ cycle[k].work = {}
               /\ cycle'[k].due = cycle[k].due /\ cycle'[k].work = cycle[k].work
               /\ cycle'[k].at = None /\ cycle'[k].from = cycle[k].from
            \/ /\ cycle'[k].step = "failed" /\ cycle'[k].due = {} /\ cycle'[k].work = {}
               /\ cycle'[k].at = None /\ cycle'[k].from = 0
         /\ \A l \in Cycles \ {k} : cycle'[l] = cycle[l]
         /\ UNCHANGED <<course, day, joinVars, alerts, cyclesOverlapped>>
<1>1. CASE CycleEnds(k)
  <2>1. cycle[k].at = None
    BY <1>1 DEF CycleEnds, TypeInv
  <2> QED
    BY <1>1, <2>1 DEF CycleEnds, TypeInv, CycleRecord, Active
<1>2. CASE CycleFails(k)
  <2>1. /\ [NewCycle EXCEPT !.step = "failed"] \in CycleRecord
        /\ [NewCycle EXCEPT !.step = "failed"].step = "failed"
        /\ [NewCycle EXCEPT !.step = "failed"].due = {}
        /\ [NewCycle EXCEPT !.step = "failed"].work = {}
        /\ [NewCycle EXCEPT !.step = "failed"].at = None
        /\ [NewCycle EXCEPT !.step = "failed"].from = 0
    <3>1. 0 \in 0..MaxDay
      BY ClassroomAssumption
    <3> QED
      BY <3>1 DEF NewCycle, CycleRecord
  <2> QED
    BY <1>2, <2>1 DEF CycleFails, TypeInv, Active
<1> QED
  BY <1>1, <1>2

\* Resolving an alert replaces its row by one that is not open.
LEMMA ResolveChange ==
  ASSUME TypeInv, NEW c, NEW row \in CourseAlerts(c), Resolve(row)
  PROVE  \E new \in AlertRow :
         /\ row \in alerts /\ alerts' = (alerts \ {row}) \union {new}
         /\ new.alert = row.alert /\ new.day = row.day /\ new.open = FALSE
         /\ UNCHANGED <<course, day, joinVars, cycle, cyclesOverlapped>>
<1>1. row \in alerts /\ row \in AlertRow
  BY DEF CourseAlerts, TypeInv, TypeOK
<1>2. PICK new : new = [row EXCEPT !.open = FALSE]
  OBVIOUS
<1>3. new \in AlertRow /\ new.alert = row.alert /\ new.day = row.day /\ new.open = FALSE
  BY <1>1, <1>2 DEF AlertRow
<1> QED
  BY <1>1, <1>2, <1>3 DEF Resolve

\* Parts whose variables a step leaves alone keep their types.
LEMMA PartsStay ==
  /\ CourseTypes /\ UNCHANGED <<course, enrolled, invite>> => CourseTypes'
  /\ JoinTypes /\ UNCHANGED <<invite, join, joinsOverlapped>> => JoinTypes'
  /\ AlertTypes /\ UNCHANGED <<cycle, alerts, day, cyclesOverlapped>> => AlertTypes'
BY DEF CourseTypes, JoinTypes, AlertTypes, CycleTypesOf

\* Every action keeps the types.
LEMMA NextTypes == TypeInv /\ [Next]_vars => TypeInv'
<1> SUFFICES ASSUME TypeInv, [Next]_vars PROVE TypeInv'
  OBVIOUS
<1>p. CourseTypes /\ JoinTypes /\ AlertTypes
  BY PartsOfTypes
<1>q. CourseTypes' /\ JoinTypes' /\ AlertTypes' => TypeInv'
  BY DEF TypeInv, TypeOK, CourseTypes, JoinTypes, AlertTypes, CycleTypesOf
<1>0. CASE UNCHANGED vars
  BY <1>0, <1>p, <1>q, PartsStay DEF vars, joinVars, alertVars
<1>1. ASSUME NEW c \in Courses, CreateForTeacher(c) \/ ArchiveCourse(c) PROVE TypeInv'
  <2>1. UNCHANGED <<day, invite, enrolled, join, joinsOverlapped, cycle, alerts, cyclesOverlapped>>
    BY <1>1 DEF CreateForTeacher, ArchiveCourse, joinVars, alertVars
  <2>2. course' \in [Courses -> {"none", "open", "archived"}]
    BY <1>1 DEF CreateForTeacher, ArchiveCourse, TypeInv, TypeOK
  <2>3. CourseTypes'
    BY <1>p, <2>1, <2>2 DEF CourseTypes
  <2> QED
    BY <1>p, <1>q, <2>1, <2>3, PartsStay
<1>2. ASSUME NEW c \in Courses, NEW i \in Invites, CreateInvite(i, c) PROVE TypeInv'
  <2>1. UNCHANGED <<course, day, enrolled, join, joinsOverlapped, cycle, alerts, cyclesOverlapped>>
    BY <1>2 DEF CreateInvite, alertVars
  <2>2. /\ invite' \in [Invites -> [course : Courses \union {None}, useCount : 0..MaxUses]]
        /\ invite'[i].course = c
        /\ \A d \in Invites \ {i} : invite'[d] = invite[d]
    BY <1>2 DEF CreateInvite, TypeInv, TypeOK
  <2>3. CourseTypes'
    BY <1>p, <2>1, <2>2 DEF CourseTypes
  <2>4. JoinTypes'
    BY <1>p, <2>1, <2>2, ClassroomAssumption DEF JoinTypes
  <2> QED
    BY <1>p, <1>q, <2>1, <2>3, <2>4, PartsStay
<1>3. ASSUME NEW c \in Courses, NEW row \in CourseAlerts(c), Resolve(row) PROVE TypeInv'
  <2>1. PICK new \in AlertRow :
          /\ row \in alerts /\ alerts' = (alerts \ {row}) \union {new}
          /\ new.alert = row.alert /\ new.day = row.day /\ new.open = FALSE
          /\ UNCHANGED <<course, day, joinVars, cycle, cyclesOverlapped>>
    BY <1>3, ResolveChange
  <2>2. AlertTypes'
    BY <1>p, <2>1 DEF AlertTypes, CycleTypesOf
  <2> QED
    BY <1>p, <1>q, <2>1, <2>2, PartsStay DEF joinVars
<1>4. ASSUME NEW j \in Joins, JoinRead(j) PROVE TypeInv'
  <2>1. UNCHANGED <<course, day, invite, enrolled, cycle, alerts, cyclesOverlapped>>
    BY <1>4, JoinReadChange DEF alertVars
  <2>2. JoinTypes'
    BY <1>4, <1>p, <2>1, JoinReadChange DEF JoinTypes
  <2> QED
    BY <1>p, <1>q, <2>1, <2>2, PartsStay
<1>5. ASSUME NEW j \in Joins, JoinWrite(j) PROVE TypeInv'
  <2>1. PICK i : i = join[j].code
    OBVIOUS
  <2>2. UNCHANGED <<course, day, joinsOverlapped, cycle, alerts, cyclesOverlapped>>
    BY <1>5, <2>1, JoinWriteChange DEF alertVars
  <2>3. CourseTypes'
    BY <1>5, <1>p, <2>1, <2>2, JoinWriteChange DEF CourseTypes
  <2>4. JoinTypes'
    BY <1>5, <1>p, <2>1, <2>2, JoinWriteChange DEF JoinTypes
  <2> QED
    BY <1>p, <1>q, <2>2, <2>3, <2>4, PartsStay
<1>6. ASSUME NEW j \in Joins, JoinFails(j) PROVE TypeInv'
  <2>1. UNCHANGED <<course, day, invite, enrolled, joinsOverlapped, cycle, alerts, cyclesOverlapped>>
    BY <1>6 DEF JoinFails, alertVars
  <2>2. /\ join' \in [Joins -> JoinRecord] /\ join'[j].step = "error"
        /\ \A k \in Joins \ {j} : join'[k] = join[k]
    <3>1. 0 \in 0..MaxUses
      BY ClassroomAssumption
    <3>2. [NewJoin EXCEPT !.step = "error"] \in JoinRecord
          /\ [NewJoin EXCEPT !.step = "error"].step = "error"
      BY <3>1 DEF NewJoin, JoinRecord
    <3> QED
      BY <1>6, <3>2 DEF JoinFails, TypeInv, TypeOK
  <2>3. JoinTypes'
    BY <1>p, <2>1, <2>2 DEF JoinTypes
  <2> QED
    BY <1>p, <1>q, <2>1, <2>3, PartsStay
<1>7. ASSUME NEW k \in Cycles,
             Snapshot(k) \/ FindExisting(k) \/ CreateAlert(k) \/ CycleEnds(k) \/ CycleFails(k)
      PROVE  TypeInv'
  <2> SUFFICES UNCHANGED <<course, invite, enrolled, join, joinsOverlapped>> /\ AlertTypes'
    BY <1>p, <1>q, PartsStay
  <2>0. day \in 0..MaxDay /\ MaxDay \in Nat
    BY ClassroomAssumption DEF TypeInv, TypeOK
  <2>1. CASE Snapshot(k)
    <3>1. /\ UNCHANGED <<course, invite, enrolled, join, joinsOverlapped, day, alerts>>
          /\ cycle' \in [Cycles -> CycleRecord]
          /\ \A l \in Cycles \ {k} : cycle'[l] = cycle[l]
      BY <2>1, SnapshotChange DEF joinVars
    <3>2. day \in 0..day
      BY <2>0
    <3>3. CycleTypesOf(k)'
      BY <2>1, <3>1, <3>2, SnapshotChange DEF CycleTypesOf
    <3>4. cyclesOverlapped' \in BOOLEAN
      BY <2>1, SnapshotChange DEF TypeInv, TypeOK
    <3> QED
      BY <1>p, <3>1, <3>3, <3>4 DEF AlertTypes, CycleTypesOf
  <2>2. CASE FindExisting(k)
    <3>1. /\ UNCHANGED <<course, invite, enrolled, join, joinsOverlapped, day, alerts, cyclesOverlapped>>
          /\ cycle' \in [Cycles -> CycleRecord]
          /\ \A l \in Cycles \ {k} : cycle'[l] = cycle[l]
      BY <2>2, FindChange DEF joinVars
    <3>2. CycleTypesOf(k)'
      BY <1>p, <2>2, <3>1, FindChange DEF CycleTypesOf, AlertTypes
    <3> QED
      BY <1>p, <3>1, <3>2 DEF AlertTypes, CycleTypesOf
  <2>3. CASE CreateAlert(k)
    <3>1. PICK a : a = cycle[k].at
      OBVIOUS
    <3>2. /\ UNCHANGED <<course, invite, enrolled, join, joinsOverlapped, day, cyclesOverlapped>>
          /\ cycle' \in [Cycles -> CycleRecord]
          /\ \A l \in Cycles \ {k} : cycle'[l] = cycle[l]
      BY <2>3, <3>1, CreateChange DEF joinVars
    <3>3. CycleTypesOf(k)'
      BY <1>p, <2>3, <3>1, <3>2, CreateChange DEF CycleTypesOf, AlertTypes
    <3>4. alerts' \subseteq AlertRow /\ \A row \in alerts' : row.day <= day
      <4>1. day <= day
        BY <2>0
      <4>2. PICK row \in AlertRow : alerts' = alerts \union {row} /\ row.day = day
        BY <2>3, <3>1, CreateChange
      <4> QED
        BY <1>p, <4>1, <4>2 DEF AlertTypes
    <3> QED
      BY <1>p, <3>2, <3>3, <3>4 DEF AlertTypes, CycleTypesOf
  <2>4. CASE CycleEnds(k) \/ CycleFails(k)
    <3>1. /\ UNCHANGED <<course, invite, enrolled, join, joinsOverlapped, day, alerts, cyclesOverlapped>>
          /\ cycle' \in [Cycles -> CycleRecord]
          /\ \A l \in Cycles \ {k} : cycle'[l] = cycle[l]
      BY <2>4, EndChange DEF joinVars
    <3>2. 0 \in 0..day
      BY <2>0
    <3>3. CycleTypesOf(k)'
      BY <1>p, <2>4, <3>1, <3>2, EndChange DEF CycleTypesOf, AlertTypes
    <3> QED
      BY <1>p, <3>1, <3>3 DEF AlertTypes, CycleTypesOf
  <2> QED
    BY <1>7, <2>1, <2>2, <2>3, <2>4
<1>8. CASE NextDay
  <2>1. /\ UNCHANGED <<course, invite, enrolled, join, joinsOverlapped, cycle, alerts, cyclesOverlapped>>
        /\ day' = day + 1 /\ day < MaxDay
    BY <1>8 DEF NextDay, joinVars, alertVars
  <2>2. day' \in 0..MaxDay /\ \A d \in 0..day : d \in 0..day'
    BY <2>1, ClassroomAssumption DEF TypeInv, TypeOK
  <2>3. \A row \in alerts : row.day <= day'
    BY <2>1, <2>2, ClassroomAssumption DEF TypeInv, TypeOK, AlertRow
  <2>4. AlertTypes'
    BY <1>p, <2>1, <2>2, <2>3 DEF AlertTypes, CycleTypesOf
  <2> QED
    BY <1>p, <1>q, <2>1, <2>4, PartsStay
<1> QED
  BY <1>0, <1>1, <1>2, <1>3, <1>4, <1>5, <1>6, <1>7, <1>8 DEF Next

\* TypeOK, for all constants: overlaps and failures leave every count within
\* maxUses, every cycle with a list of alerts it had to raise.
THEOREM ClassroomTypeCorrect == Spec => []TypeOK
<1>1. Spec => []TypeInv
  BY InitTypes, NextTypes, PTL DEF Spec
<1>2. TypeInv => TypeOK
  BY DEF TypeInv
<1> QED
  BY <1>1, <1>2, PTL

-----------------------------------------------------------------------------
(* Use counts *)

\* A join about to be written carries a count that the joins so far reach; it is the
\* count, and no other join of the code is about to be written, unless joins overlapped.
ReadIsJoined(j) ==
  join[j].step = "write" =>
    /\ join[j].read <= Cardinality(Joined(join[j].code))
    /\ ~joinsOverlapped =>
         /\ join[j].read = invite[join[j].code].useCount
         /\ \A k \in Joins : join[k].step = "write" /\ join[k].code = join[j].code => k = j

JoinInv == (\A j \in Joins : ReadIsJoined(j)) /\ UsesAreCounted

\* The joins that a code has are finitely many.
LEMMA JoinedFinite ==
  ASSUME NEW i
  PROVE  IsFiniteSet(Joined(i)) /\ Cardinality(Joined(i)) \in Nat
BY FS_Subset, FS_CardinalityType, ClassroomAssumption DEF Joined

\* A step that leaves the use counts and ends no join keeps the counts, when the
\* join it moves, if any, is not about to be written.
LEMMA JoinsStay ==
  ASSUME TypeInv, JoinInv, NEW J, J \subseteq Joins,
         \A i \in Invites : invite'[i].useCount = invite[i].useCount,
         \A k \in Joins \ J : join'[k] = join[k],
         \A k \in J : join[k].step # "joined" /\ join'[k].step \notin {"joined", "write"},
         joinsOverlapped => joinsOverlapped'
  PROVE  JoinInv'
<1>1. \A i : Joined(i)' = Joined(i)
  BY DEF Joined
<1>2. UsesAreCounted'
  <2>1. \A i \in Invites : Joined(i)' = Joined(i)
    BY <1>1
  <2> QED
    BY <2>1 DEF JoinInv, UsesAreCounted
<1>3. ASSUME NEW j \in Joins PROVE ReadIsJoined(j)'
  <2> SUFFICES ASSUME join'[j].step = "write" PROVE ReadIsJoined(j)'
    BY DEF ReadIsJoined
  <2>1. PICK i : i = join[j].code
    OBVIOUS
  <2>2. join'[j] = join[j] /\ i \in Invites
    BY <2>1 DEF TypeInv
  <2>3. /\ join[j].read <= Cardinality(Joined(i))
        /\ ~joinsOverlapped =>
             /\ join[j].read = invite[i].useCount
             /\ \A k \in Joins : join[k].step = "write" /\ join[k].code = i => k = j
    BY <2>1, <2>2 DEF JoinInv, ReadIsJoined
  <2>4. Joined(i)' = Joined(i)
    BY <1>1
  <2>5. ~joinsOverlapped' => \A k \in Joins : join'[k].step = "write" /\ join'[k].code = i => k = j
    BY <2>3
  <2>6. join'[j].code = i
    BY <2>1, <2>2
  <2> QED
    BY <2>2, <2>3, <2>4, <2>5, <2>6 DEF ReadIsJoined
<1> QED
  BY <1>2, <1>3 DEF JoinInv

\* A join that reads takes the count as it is.
LEMMA JoinReadKeepsCounts ==
  ASSUME TypeInv, JoinInv, NEW j \in Joins, JoinRead(j)
  PROVE  JoinInv'
<1>1. CASE join'[j].step = "error"
  <2> DEFINE J == {j}
  <2>1. /\ J \subseteq Joins
        /\ \A i \in Invites : invite'[i].useCount = invite[i].useCount
        /\ \A k \in Joins \ J : join'[k] = join[k]
        /\ \A k \in J : join[k].step # "joined" /\ join'[k].step \notin {"joined", "write"}
        /\ joinsOverlapped => joinsOverlapped'
    BY <1>1, JoinReadChange
  <2> HIDE DEF J
  <2> QED
    BY <2>1, JoinsStay
<1>2. CASE join'[j].step = "write"
  <2>1. PICK i : i = join'[j].code
    OBVIOUS
  <2>2. /\ i \in Invites /\ join'[j].read = invite[i].useCount
        /\ join[j].step = "new" /\ invite' = invite
        /\ \A k \in Joins \ {j} : join'[k] = join[k]
        /\ joinsOverlapped => joinsOverlapped'
        /\ ~joinsOverlapped' => \A k \in Joins : join[k].step = "write" => join[k].code # i
    BY <1>2, <2>1, JoinReadChange
  <2>3. \A c : Joined(c)' = Joined(c)
    BY <1>2, <2>2 DEF Joined
  <2>4. UsesAreCounted'
    <3>1. \A c \in Invites : Joined(c)' = Joined(c)
      BY <2>3
    <3> QED
      BY <2>2, <3>1 DEF JoinInv, UsesAreCounted
  <2>5. ReadIsJoined(j)'
    <3>1. join'[j].read <= Cardinality(Joined(i))
      BY <2>2 DEF JoinInv, UsesAreCounted
    <3>2. Joined(i)' = Joined(i)
      BY <2>3
    <3> QED
      BY <1>2, <2>1, <2>2, <3>1, <3>2 DEF ReadIsJoined
  <2>6. ASSUME NEW k \in Joins \ {j} PROVE ReadIsJoined(k)'
    <3> SUFFICES ASSUME join'[k].step = "write" PROVE ReadIsJoined(k)'
      BY DEF ReadIsJoined
    <3>1. PICK c : c = join[k].code
      OBVIOUS
    <3>2. join'[k] = join[k] /\ join'[k].code = c
      BY <2>2, <3>1
    <3>3. /\ join[k].read <= Cardinality(Joined(c))
          /\ ~joinsOverlapped =>
               /\ join[k].read = invite[c].useCount
               /\ \A l \in Joins : join[l].step = "write" /\ join[l].code = c => l = k
      BY <3>1, <3>2 DEF JoinInv, ReadIsJoined
    <3>4. Joined(c)' = Joined(c)
      BY <2>3
    <3>5. ~joinsOverlapped' => \A l \in Joins : join'[l].step = "write" /\ join'[l].code = c => l = k
      BY <2>1, <2>2, <3>1, <3>2, <3>3
    <3> QED
      BY <2>2, <3>2, <3>3, <3>4, <3>5 DEF ReadIsJoined
  <2> QED
    BY <2>4, <2>5, <2>6 DEF JoinInv
<1> QED
  BY <1>1, <1>2, JoinReadChange

\* A join that is written counts one more than it read, and is one more.
LEMMA JoinWriteKeepsCounts ==
  ASSUME TypeInv, JoinInv, NEW j \in Joins, JoinWrite(j)
  PROVE  JoinInv'
<1>1. PICK i : i = join[j].code
  OBVIOUS
<1>2. /\ join[j].step = "write" /\ i \in Invites
      /\ invite'[i].useCount = join[j].read + 1
      /\ \A c \in Invites \ {i} : invite'[c] = invite[c]
      /\ join'[j].step = "joined" /\ join'[j].code = i
      /\ \A k \in Joins \ {j} : join'[k] = join[k]
      /\ joinsOverlapped' = joinsOverlapped
  BY <1>1, JoinWriteChange
<1>3. /\ join[j].read <= Cardinality(Joined(i)) /\ join[j].read < MaxUses
      /\ join[j].read \in Nat
      /\ ~joinsOverlapped =>
           /\ join[j].read = invite[i].useCount
           /\ \A k \in Joins : join[k].step = "write" /\ join[k].code = i => k = j
  BY <1>1, <1>2 DEF JoinInv, ReadIsJoined, TypeInv, TypeOK, JoinRecord
<1>4. Joined(i)' = Joined(i) \union {j} /\ j \notin Joined(i)
  BY <1>2 DEF Joined
<1>5. \A c : c # i => Joined(c)' = Joined(c)
  BY <1>2 DEF Joined
<1>6. /\ Cardinality(Joined(i)') = Cardinality(Joined(i)) + 1
      /\ Cardinality(Joined(i)) \in Nat
  BY <1>4, JoinedFinite, FS_AddElement
<1>7. UsesAreCounted'
  <2> SUFFICES ASSUME NEW c \in Invites
               PROVE  /\ invite'[c].useCount <= Cardinality(Joined(c)')
                      /\ ~joinsOverlapped' =>
                           /\ invite'[c].useCount = Cardinality(Joined(c)')
                           /\ Cardinality(Joined(c)') <= MaxUses
    BY DEF UsesAreCounted
  <2>1. CASE c = i
    <3>1. ~joinsOverlapped => invite[i].useCount = Cardinality(Joined(i))
      BY <1>2 DEF JoinInv, UsesAreCounted
    <3>2. MaxUses \in Nat
      BY ClassroomAssumption
    <3> QED
      BY <1>2, <1>3, <1>6, <2>1, <3>1, <3>2
  <2>2. CASE c # i
    <3>1. Joined(c)' = Joined(c)
      BY <1>5, <2>2
    <3> QED
      BY <1>2, <2>2, <3>1 DEF JoinInv, UsesAreCounted
  <2> QED
    BY <2>1, <2>2
<1>8. ASSUME NEW k \in Joins PROVE ReadIsJoined(k)'
  <2> SUFFICES ASSUME join'[k].step = "write" PROVE ReadIsJoined(k)'
    BY DEF ReadIsJoined
  <2>1. PICK c : c = join[k].code
    OBVIOUS
  <2>2. k # j /\ join'[k] = join[k] /\ join'[k].code = c /\ c \in Invites
        /\ join[k].read \in Nat
    BY <1>2, <2>1 DEF TypeInv, TypeOK, JoinRecord
  <2>3. /\ join[k].read <= Cardinality(Joined(c))
        /\ ~joinsOverlapped =>
             /\ join[k].read = invite[c].useCount
             /\ \A l \in Joins : join[l].step = "write" /\ join[l].code = c => l = k
    BY <2>1, <2>2 DEF JoinInv, ReadIsJoined
  <2>4. CASE c = i
    <3>1. joinsOverlapped'
      BY <1>1, <1>2, <2>2, <2>3, <2>4
    <3>2. join'[k].read <= Cardinality(Joined(c)')
      BY <1>6, <2>2, <2>3, <2>4
    <3> QED
      BY <2>2, <3>1, <3>2 DEF ReadIsJoined
  <2>5. CASE c # i
    <3>1. Joined(c)' = Joined(c)
      BY <1>5, <2>5
    <3>2. ~joinsOverlapped' =>
            /\ join'[k].read = invite'[c].useCount
            /\ \A l \in Joins : join'[l].step = "write" /\ join'[l].code = c => l = k
      BY <1>2, <2>2, <2>3, <2>5
    <3> QED
      BY <2>2, <2>3, <3>1, <3>2 DEF ReadIsJoined
  <2> QED
    BY <2>4, <2>5
<1> QED
  BY <1>7, <1>8 DEF JoinInv

\* Nobody has joined.
LEMMA InitJoins == Init => JoinInv
<1> SUFFICES ASSUME Init PROVE JoinInv
  OBVIOUS
<1>1. \A i : Joined(i) = {}
  BY DEF Init, Joined, NewJoin
<1>2. Cardinality({}) = 0 /\ 0 <= MaxUses
  BY FS_EmptySet, ClassroomAssumption
<1>3. \A i \in Invites : invite[i].useCount = 0
  BY DEF Init, NewInvite
<1>4. UsesAreCounted
  BY <1>1, <1>2, <1>3 DEF UsesAreCounted
<1>5. \A j \in Joins : ReadIsJoined(j)
  BY DEF Init, NewJoin, ReadIsJoined
<1> QED
  BY <1>4, <1>5 DEF JoinInv

\* Every action keeps the counts.
LEMMA NextJoins == TypeInv /\ JoinInv /\ [Next]_vars => JoinInv'
<1> SUFFICES ASSUME TypeInv, JoinInv, [Next]_vars PROVE JoinInv'
  OBVIOUS
<1>1. CASE UNCHANGED joinVars
  <2> DEFINE J == {}
  <2>1. /\ J \subseteq Joins
        /\ \A i \in Invites : invite'[i].useCount = invite[i].useCount
        /\ \A k \in Joins \ J : join'[k] = join[k]
        /\ \A k \in J : join[k].step # "joined" /\ join'[k].step \notin {"joined", "write"}
        /\ joinsOverlapped => joinsOverlapped'
    BY <1>1 DEF joinVars
  <2> HIDE DEF J
  <2> QED
    BY <2>1, JoinsStay
<1>2. ASSUME NEW c \in Courses, NEW i \in Invites, CreateInvite(i, c) PROVE JoinInv'
  <2> DEFINE J == {}
  <2>1. /\ J \subseteq Joins
        /\ \A d \in Invites : invite'[d].useCount = invite[d].useCount
        /\ \A k \in Joins \ J : join'[k] = join[k]
        /\ \A k \in J : join[k].step # "joined" /\ join'[k].step \notin {"joined", "write"}
        /\ joinsOverlapped => joinsOverlapped'
    BY <1>2 DEF CreateInvite, TypeInv, TypeOK
  <2> HIDE DEF J
  <2> QED
    BY <2>1, JoinsStay
<1>3. ASSUME NEW j \in Joins, JoinFails(j) PROVE JoinInv'
  <2> DEFINE J == {j}
  <2>1. /\ J \subseteq Joins
        /\ \A i \in Invites : invite'[i].useCount = invite[i].useCount
        /\ \A k \in Joins \ J : join'[k] = join[k]
        /\ \A k \in J : join[k].step # "joined" /\ join'[k].step \notin {"joined", "write"}
        /\ joinsOverlapped => joinsOverlapped'
    BY <1>3 DEF JoinFails, NewJoin, TypeInv, TypeOK
  <2> HIDE DEF J
  <2> QED
    BY <2>1, JoinsStay
<1>4. CASE \E j \in Joins : JoinRead(j) \/ JoinWrite(j)
  BY <1>4, JoinReadKeepsCounts, JoinWriteKeepsCounts
<1>5. CASE \E k \in Cycles :
             Snapshot(k) \/ FindExisting(k) \/ CreateAlert(k) \/ CycleEnds(k) \/ CycleFails(k)
  BY <1>1, <1>5 DEF Snapshot, FindExisting, CreateAlert, CycleEnds, CycleFails
<1> QED
  BY <1>1, <1>2, <1>3, <1>4, <1>5
  DEF Next, vars, CreateForTeacher, ArchiveCourse, Resolve, NextDay

\* UsesAreCounted, for all constants: a use count is backed by joins, and it counts
\* every one of them and stays within maxUses as long as no two of a code overlap.
THEOREM UseCountsAreBacked == Spec => []UsesAreCounted
<1>1. Spec => [](TypeInv /\ JoinInv)
  BY InitTypes, NextTypes, InitJoins, NextJoins, PTL DEF Spec
<1>2. TypeInv /\ JoinInv => UsesAreCounted
  BY DEF JoinInv
<1> QED
  BY <1>1, <1>2, PTL

-----------------------------------------------------------------------------
(* Alerts *)

\* While no two cycles have overlapped one runs at a time, so what it found missing is
\* still missing when it raises it, also when midnight has passed in between.
AlertInv ==
  ~cyclesOverlapped =>
    /\ \A k, l \in Cycles : Active(k) /\ Active(l) => k = l
    /\ \A k \in Cycles : cycle[k].step = "create" => ~Existing(cycle[k].at)
    /\ \A a, b \in alerts :
         a # b /\ a.open /\ b.open /\ a.day = b.day => Key(a.alert) # Key(b.alert)

\* The alert has been raised, by this cycle or another, since the cycle started.
RaisedFor(k, a) == \E row \in alerts : Key(row.alert) = Key(a) /\ row.day >= cycle[k].from

\* What a cycle has struck off its list has been raised, and a cycle that has ended
\* has struck off everything.
WorkInv ==
  \A k \in Cycles :
    /\ \A a \in cycle[k].due \ cycle[k].work : RaisedFor(k, a)
    /\ cycle[k].step = "done" => cycle[k].work = {}

\* A step of a cycle, as the alerts see it: it reads, finds, raises or stops.
CycleStep(k) ==
  Snapshot(k) \/ FindExisting(k) \/ CreateAlert(k) \/ CycleEnds(k) \/ CycleFails(k)

\* Every other step leaves the cycles, and the alerts but for one that is resolved,
\* and at most the day goes by.
LEMMA OtherSteps ==
  ASSUME TypeInv, [Next]_vars, ~ \E k \in Cycles : CycleStep(k)
  PROVE  /\ UNCHANGED <<cycle, cyclesOverlapped>>
         /\ \/ UNCHANGED <<alerts, day>>
            \/ /\ UNCHANGED alerts /\ day' = day + 1
            \/ /\ UNCHANGED day
               /\ \E row \in alerts, new \in AlertRow :
                    /\ alerts' = (alerts \ {row}) \union {new}
                    /\ new.alert = row.alert /\ new.day = row.day /\ new.open = FALSE
<1>1. CASE UNCHANGED <<day, alertVars>>
  BY <1>1 DEF alertVars
<1>2. ASSUME NEW c \in Courses, NEW row \in CourseAlerts(c), Resolve(row)
      PROVE  /\ UNCHANGED <<cycle, cyclesOverlapped, day>>
             /\ \E new \in AlertRow :
                  /\ row \in alerts /\ alerts' = (alerts \ {row}) \union {new}
                  /\ new.alert = row.alert /\ new.day = row.day /\ new.open = FALSE
  BY <1>2, ResolveChange
<1>3. CASE NextDay
  BY <1>3 DEF NextDay, alertVars
<1>4. CASE \E j \in Joins : JoinRead(j) \/ JoinWrite(j) \/ JoinFails(j)
  BY <1>1, <1>4 DEF JoinRead, JoinWrite, JoinFails
<1>5. CASE \E c \in Courses : \/ CreateForTeacher(c) \/ ArchiveCourse(c)
                              \/ \E i \in Invites : CreateInvite(i, c)
  BY <1>1, <1>5 DEF CreateForTeacher, ArchiveCourse, CreateInvite
<1> QED
  BY <1>1, <1>2, <1>3, <1>4, <1>5 DEF Next, vars, CycleStep

\* Nothing runs and nothing has been raised.
LEMMA InitAlerts == Init => AlertInv /\ WorkInv
BY DEF Init, AlertInv, WorkInv, Active, NewCycle

\* Every action keeps what is known of open alerts while cycles do not overlap.
LEMMA NextAlerts == TypeInv /\ AlertInv /\ [Next]_vars => AlertInv'
<1> SUFFICES ASSUME TypeInv, AlertInv, [Next]_vars, ~cyclesOverlapped'
             PROVE  /\ \A k, l \in Cycles : cycle'[k].step \in {"find", "create"}
                                            /\ cycle'[l].step \in {"find", "create"} => k = l
                    /\ \A k \in Cycles : cycle'[k].step = "create" =>
                         ~ \E row \in alerts' : /\ Key(row.alert) = Key(cycle'[k].at)
                                                /\ row.day = day' /\ row.open
                    /\ \A a, b \in alerts' :
                         a # b /\ a.open /\ b.open /\ a.day = b.day => Key(a.alert) # Key(b.alert)
  BY DEF AlertInv, Active, Existing, Key
<1>1. ASSUME NEW k \in Cycles, CycleStep(k) PROVE ~cyclesOverlapped
  BY <1>1, SnapshotChange
  DEF CycleStep, FindExisting, CreateAlert, CycleEnds, CycleFails, TypeInv, TypeOK
<1>2. CASE ~ \E k \in Cycles : CycleStep(k)
  <2>1. UNCHANGED <<cycle, cyclesOverlapped>> /\ ~cyclesOverlapped
    <3>1. UNCHANGED <<cycle, cyclesOverlapped>>
      BY <1>2, OtherSteps
    <3>2. ~cyclesOverlapped
      BY <3>1 DEF TypeInv, TypeOK
    <3> QED
      BY <3>1, <3>2
  <2>2. /\ \A k, l \in Cycles : Active(k) /\ Active(l) => k = l
        /\ \A k \in Cycles : cycle[k].step = "create" =>
             ~ \E row \in alerts : /\ Key(row.alert) = Key(cycle[k].at)
                                   /\ row.day = day /\ row.open
        /\ \A a, b \in alerts :
             a # b /\ a.open /\ b.open /\ a.day = b.day => Key(a.alert) # Key(b.alert)
    BY <2>1 DEF AlertInv, Existing
  <2>3. CASE UNCHANGED <<alerts, day>>
    BY <2>1, <2>2, <2>3 DEF Active
  <2>4. CASE UNCHANGED alerts /\ day' = day + 1
    <3>1. \A row \in alerts : row.day # day'
      BY <2>4, ClassroomAssumption DEF TypeInv, TypeOK, AlertRow
    <3> QED
      BY <2>1, <2>2, <2>4, <3>1 DEF Active
  <2>5. CASE /\ UNCHANGED day
             /\ \E row \in alerts, new \in AlertRow :
                  /\ alerts' = (alerts \ {row}) \union {new}
                  /\ new.alert = row.alert /\ new.day = row.day /\ new.open = FALSE
    BY <2>1, <2>2, <2>5 DEF Active
  <2> QED
    BY <1>2, <2>3, <2>4, <2>5, OtherSteps
<1>3. ASSUME NEW k \in Cycles, CycleStep(k)
      PROVE  /\ \A c, l \in Cycles : cycle'[c].step \in {"find", "create"}
                                     /\ cycle'[l].step \in {"find", "create"} => c = l
             /\ \A c \in Cycles : cycle'[c].step = "create" =>
                  ~ \E row \in alerts' : /\ Key(row.alert) = Key(cycle'[c].at)
                                         /\ row.day = day' /\ row.open
             /\ \A a, b \in alerts' :
                  a # b /\ a.open /\ b.open /\ a.day = b.day => Key(a.alert) # Key(b.alert)
  <2>1. /\ \A c, l \in Cycles : Active(c) /\ Active(l) => c = l
        /\ \A c \in Cycles : cycle[c].step = "create" => ~Existing(cycle[c].at)
        /\ \A a, b \in alerts :
             a # b /\ a.open /\ b.open /\ a.day = b.day => Key(a.alert) # Key(b.alert)
    BY <1>1, <1>3 DEF AlertInv
  <2>2. /\ \A l \in Cycles \ {k} : cycle'[l] = cycle[l]
        /\ day' = day
    BY <1>3, SnapshotChange, FindChange, EndChange, CreateChange DEF CycleStep
  <2>3. \A l \in Cycles \ {k} : ~Active(l)
    <3>1. CASE Snapshot(k)
      BY <3>1, SnapshotChange DEF Active, TypeInv, TypeOK
    <3>2. CASE ~Snapshot(k)
      <4>1. Active(k)
        BY <1>3, <3>2 DEF CycleStep, FindExisting, CreateAlert, CycleEnds, CycleFails, Active
      <4> QED
        BY <2>1, <4>1
    <3> QED
      BY <3>1, <3>2
  <2>4. \A l \in Cycles : cycle'[l].step \in {"find", "create"} => l = k
    BY <2>2, <2>3 DEF Active
  <2>5. CASE CreateAlert(k)
    <3>1. PICK a : a = cycle[k].at
      OBVIOUS
    <3>2. PICK row \in AlertRow : /\ alerts' = alerts \union {row}
                                  /\ row.alert = a /\ row.day = day /\ row.open = TRUE
      BY <2>5, <3>1, CreateChange
    <3>3. ~ \E b \in alerts : Key(b.alert) = Key(a) /\ b.day = day /\ b.open
      BY <2>1, <2>5, <3>1, CreateChange DEF Existing
    <3>4. cycle'[k].step = "find"
      BY <2>5, <3>1, CreateChange
    <3> QED
      BY <2>1, <2>4, <3>2, <3>3, <3>4
  <2>6. CASE FindExisting(k)
    <3>1. /\ alerts' = alerts
          /\ cycle'[k].step = "create" => ~Existing(cycle'[k].at)
      BY <2>6, FindChange
    <3>2. cycle'[k].step = "create" =>
            ~ \E row \in alerts' : /\ Key(row.alert) = Key(cycle'[k].at)
                                   /\ row.day = day' /\ row.open
      BY <2>2, <3>1 DEF Existing
    <3> QED
      BY <2>1, <2>4, <3>1, <3>2
  <2>7. CASE Snapshot(k) \/ CycleEnds(k) \/ CycleFails(k)
    <3>1. alerts' = alerts /\ cycle'[k].step # "create"
      BY <2>7, SnapshotChange, EndChange
    <3> QED
      BY <2>1, <2>4, <3>1
  <2> QED
    BY <1>3, <2>5, <2>6, <2>7 DEF CycleStep
<1> QED
  BY <1>2, <1>3

\* OneOpenAlertPerDay, for all constants: while cycles do not overlap, what one finds
\* missing is missing still when it raises it, whichever cycles failed before.
THEOREM AlertsAreNotRepeated == Spec => []OneOpenAlertPerDay
<1>1. Spec => [](TypeInv /\ AlertInv)
  BY InitTypes, NextTypes, InitAlerts, NextAlerts, PTL DEF Spec
<1>2. TypeInv /\ AlertInv => OneOpenAlertPerDay
  BY DEF AlertInv, OneOpenAlertPerDay
<1> QED
  BY <1>1, <1>2, PTL

\* What has been raised for a cycle stays raised, resolved or not.
LEMMA RaisedStays ==
  ASSUME TypeInv, [Next]_vars, NEW k \in Cycles, NEW a, RaisedFor(k, a)
  PROVE  \E row \in alerts' : Key(row.alert) = Key(a) /\ row.day >= cycle[k].from
<1>1. PICK row \in alerts : Key(row.alert) = Key(a) /\ row.day >= cycle[k].from
  BY DEF RaisedFor
<1>2. CASE \E l \in Cycles : CycleStep(l)
  <2>1. alerts \subseteq alerts'
    BY <1>2, SnapshotChange, FindChange, EndChange, CreateChange DEF CycleStep
  <2> QED
    BY <1>1, <2>1
<1>3. CASE ~ \E l \in Cycles : CycleStep(l)
  <2>1. CASE UNCHANGED alerts
    BY <1>1, <2>1
  <2>2. CASE \E old \in alerts, new \in AlertRow :
               /\ alerts' = (alerts \ {old}) \union {new}
               /\ new.alert = old.alert /\ new.day = old.day /\ new.open = FALSE
    <3>1. PICK old \in alerts, new \in AlertRow :
               /\ alerts' = (alerts \ {old}) \union {new}
               /\ new.alert = old.alert /\ new.day = old.day /\ new.open = FALSE
      BY <2>2
    <3>2. CASE row = old
      BY <1>1, <3>1, <3>2
    <3>3. CASE row # old
      BY <1>1, <3>1, <3>3
    <3> QED
      BY <3>2, <3>3
  <2> QED
    BY <1>3, <2>1, <2>2, OtherSteps
<1> QED
  BY <1>2, <1>3

\* Every action keeps what cycles have struck off raised.
LEMMA NextWork == TypeInv /\ WorkInv /\ [Next]_vars => WorkInv'
<1> SUFFICES ASSUME TypeInv, WorkInv, [Next]_vars, NEW k \in Cycles
             PROVE  /\ \A a \in cycle'[k].due \ cycle'[k].work :
                         \E row \in alerts' : Key(row.alert) = Key(a) /\ row.day >= cycle'[k].from
                    /\ cycle'[k].step = "done" => cycle'[k].work = {}
  BY DEF WorkInv, RaisedFor, Key
<1>1. \A a \in cycle[k].due \ cycle[k].work :
        \E row \in alerts' : Key(row.alert) = Key(a) /\ row.day >= cycle[k].from
  BY RaisedStays DEF WorkInv
<1>2. cycle[k].step = "done" => cycle[k].work = {}
  BY DEF WorkInv
<1>3. CASE cycle'[k] = cycle[k]
  BY <1>1, <1>2, <1>3
<1>4. CASE Snapshot(k)
  <2>1. cycle'[k].work = cycle'[k].due /\ cycle'[k].step = "find"
    BY <1>4, SnapshotChange
  <2> QED
    BY <2>1
<1>5. CASE FindExisting(k)
  <2>1. PICK a \in cycle[k].work :
          /\ cycle'[k].due = cycle[k].due /\ cycle'[k].from = cycle[k].from
          /\ cycle'[k].step \in {"find", "create"}
          /\ \/ Existing(a) /\ cycle'[k].work = cycle[k].work \ {a}
             \/ cycle'[k].work = cycle[k].work
          /\ alerts' = alerts
    BY <1>5, FindChange
  <2>2. CASE Existing(a) /\ cycle'[k].work = cycle[k].work \ {a}
    <3>1. PICK row \in alerts : Key(row.alert) = Key(a) /\ row.day = day
      BY <2>2 DEF Existing
    <3>2. row.day >= cycle[k].from
      BY <3>1, ClassroomAssumption DEF TypeInv, TypeOK
    <3> QED
      BY <1>1, <2>1, <3>1, <3>2
  <2>3. CASE cycle'[k].work = cycle[k].work
    BY <1>1, <2>1, <2>3
  <2> QED
    BY <2>1, <2>2, <2>3
<1>6. CASE CreateAlert(k)
  <2>1. PICK a : a = cycle[k].at
    OBVIOUS
  <2>2. PICK row \in AlertRow : /\ alerts' = alerts \union {row}
                                /\ row.alert = a /\ row.day = day /\ row.open = TRUE
    BY <1>6, <2>1, CreateChange
  <2>3. /\ cycle'[k].due = cycle[k].due /\ cycle'[k].from = cycle[k].from
        /\ cycle'[k].step = "find" /\ cycle'[k].work = cycle[k].work \ {a}
    BY <1>6, <2>1, CreateChange
  <2>4. row.day >= cycle[k].from
    BY <2>2, ClassroomAssumption DEF TypeInv, TypeOK
  <2> QED
    BY <1>1, <2>2, <2>3, <2>4
<1>7. CASE CycleEnds(k) \/ CycleFails(k)
  <2>1. CASE /\ cycle'[k].step = "done" /\ cycle[k].work = {}
             /\ cycle'[k].due = cycle[k].due /\ cycle'[k].work = cycle[k].work
             /\ cycle'[k].from = cycle[k].from
    BY <1>1, <2>1
  <2>2. CASE cycle'[k].step = "failed" /\ cycle'[k].due = {} /\ cycle'[k].work = {}
    BY <2>2
  <2> QED
    BY <1>7, <2>1, <2>2, EndChange
<1>8. \/ cycle'[k] = cycle[k]
      \/ CycleStep(k)
  <2>1. ASSUME NEW l \in Cycles, CycleStep(l), l # k PROVE cycle'[k] = cycle[k]
    BY <2>1, SnapshotChange, FindChange, EndChange, CreateChange DEF CycleStep
  <2> QED
    BY <2>1, OtherSteps
<1> QED
  BY <1>3, <1>4, <1>5, <1>6, <1>7, <1>8 DEF CycleStep

\* EndedCycleHasAlerted, for all constants: no overlap, failure of another cycle or
\* resolved alert makes a cycle that ends skip something it had to raise.
THEOREM EndedCyclesAlerted == Spec => []EndedCycleHasAlerted
<1>1. Spec => [](TypeInv /\ WorkInv)
  BY InitTypes, NextTypes, InitAlerts, NextWork, PTL DEF Spec
<1>2. TypeInv /\ WorkInv => EndedCycleHasAlerted
  BY DEF WorkInv, RaisedFor, EndedCycleHasAlerted
<1> QED
  BY <1>1, <1>2, PTL

=============================================================================
