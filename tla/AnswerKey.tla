------------------------------ MODULE AnswerKey ------------------------------
(***************************************************************************)
(* What the answer keys of a guide promise, with no transaction, lock or   *)
(* index in sight: each question has one key in force, its latest version; *)
(* an edit takes effect in one step, which numbers it one higher than the  *)
(* key it replaces, or is refused and leaves no trace.  GuideSolutions     *)
(* implements this.                                                        *)
(***************************************************************************)
EXTENDS Naturals

CONSTANTS Editors, Questions

VARIABLES
    key,      \* per question: the version in force, 0 for none
    outcome   \* per edit: pending, refused, or saved as some version

keyVars == <<key, outcome>>

Pending == [is |-> "pending", version |-> 0]
Refused == [is |-> "refused", version |-> 0]
Saved(n) == [is |-> "saved", version |-> n]

Init ==
    /\ key \in [Questions -> {0, 1}]
    /\ outcome = [e \in Editors |-> Pending]

Save(e, q) ==
    /\ outcome[e] = Pending
    /\ key' = [key EXCEPT ![q] = @ + 1]
    /\ outcome' = [outcome EXCEPT ![e] = Saved(key'[q])]

Refuse(e) ==
    /\ outcome[e] = Pending
    /\ outcome' = [outcome EXCEPT ![e] = Refused]
    /\ UNCHANGED key

Next == \E e \in Editors : Refuse(e) \/ \E q \in Questions : Save(e, q)

Spec == Init /\ [][Next]_keyVars
==============================================================================
