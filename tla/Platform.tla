------------------------------- MODULE Platform -------------------------------
(***************************************************************************)
(* Four services of the backend in one deployment: practice (attempts,     *)
(* mastery, assignments), sessions (auth), the catalogue of error tags     *)
(* (admin, importer, seed) and the results of guides.  None of them writes *)
(* a table that another reads, but for the catalogue, of which the others  *)
(* need only that a code stays (no operation deletes one).  A step of one  *)
(* therefore commutes with every step of the others, and a property of one *)
(* needs only the behaviours in which it alone moves: each behaviour here  *)
(* serves one of them.                                                     *)
(***************************************************************************)
EXTENDS StudentPractice, Sessions, ErrorCatalog, GuideResults

VARIABLE served   \* the service that this behaviour exercises

platformVars == <<served, practiceVars, sessionVars, catalogVars, resultsVars>>

\* A service that is not exercised starts in one of its initial states and stays.
Init ==
    /\ served \in {"practice", "sessions", "catalogue", "results"}
    /\ PracticeInit
    /\ SessionsInit /\ (served # "sessions" => user = NoUser)
    /\ CatalogInit /\ (served # "catalogue" => \A c \in Codes : tags[c] = "ABSENT")
    /\ ResultsInit

Next ==
    \/ /\ served = "practice" /\ PracticeNext
       /\ UNCHANGED <<served, sessionVars, catalogVars, resultsVars>>
    \/ /\ served = "sessions" /\ SessionsNext
       /\ UNCHANGED <<served, practiceVars, catalogVars, resultsVars>>
    \/ /\ served = "catalogue" /\ CatalogNext
       /\ UNCHANGED <<served, practiceVars, sessionVars, resultsVars>>
    \/ /\ served = "results" /\ ResultsNext
       /\ UNCHANGED <<served, practiceVars, sessionVars, catalogVars>>

Spec == Init /\ [][Next]_platformVars
===============================================================================
