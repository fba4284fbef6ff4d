----------------------------- MODULE HouseItems -----------------------------
(***************************************************************************)
(* What the items of a house promise to the users who share them: nobody   *)
(* changes, checks off or deletes an item but as it was last shown to      *)
(* them, a change leaves the check mark alone, every change is announced,  *)
(* and one user completes an occurrence.  Versions, requests, roles and    *)
(* owners do not appear.  Household implements this specification.         *)
(***************************************************************************)
EXTENDS Naturals

CONSTANTS Users, Items, Occurrences, Texts, Nobody

VARIABLES
  life,      \* of each item: "unborn", "present" or "gone"
  text,      \* what each item says
  mark,      \* its check mark
  shown,     \* what each user was last shown of each item, {} if that was nothing
  waiting,   \* users who have checked something off and have not been answered yet
  announced, \* how many changes of each item were announced
  done,      \* who completed an occurrence
  told       \* how many users were told that they did

vars == <<life, text, mark, shown, waiting, announced, done, told>>

Present(i) == life[i] = "present"
There(i) == IF Present(i) THEN {text[i]} ELSE {}
Saw(u, i) == Present(i) /\ shown[u][i] = {text[i]}
Nothing == [o \in Occurrences |-> Nobody]

Init ==
  /\ life = [i \in Items |-> "unborn"]
  /\ text \in [Items -> Texts]
  /\ mark = [i \in Items |-> FALSE]
  /\ shown = [u \in Users |-> [i \in Items |-> {}]]
  /\ waiting = {}
  /\ announced = [i \in Items |-> 0]
  /\ done = [i \in Items |-> Nothing]
  /\ told = [i \in Items |-> [o \in Occurrences |-> 0]]

\* On request, or for an answer.
Show(u, i) ==
  /\ waiting' \in {waiting, waiting \ {u}}
  /\ shown' = [shown EXCEPT ![u][i] = There(i)]
  /\ UNCHANGED <<life, text, mark, announced, done, told>>

Says(u, i) ==
  /\ announced' = [announced EXCEPT ![i] = @ + 1]
  /\ \E t \in Texts : /\ text' = [text EXCEPT ![i] = t]
                      /\ shown' = [shown EXCEPT ![u][i] = {t}]
  /\ UNCHANGED <<waiting, done, told>>

Create(u, i) ==
  /\ life[i] = "unborn"
  /\ life' = [life EXCEPT ![i] = "present"]
  /\ mark' = [mark EXCEPT ![i] = FALSE]
  /\ Says(u, i)

Change(u, i) == Saw(u, i) /\ Says(u, i) /\ UNCHANGED <<life, mark>>

Check(u, i) ==
  /\ Saw(u, i) /\ u \notin waiting
  /\ waiting' = waiting \cup {u}
  /\ announced' = [announced EXCEPT ![i] = @ + 1]
  /\ \E m \in BOOLEAN : mark' = [mark EXCEPT ![i] = m]
  /\ UNCHANGED <<life, text, shown, done, told>>

Delete(u, i) ==
  /\ Saw(u, i)
  /\ life' = [life EXCEPT ![i] = "gone"]
  /\ shown' = [shown EXCEPT ![u][i] = {}]
  /\ done' = [done EXCEPT ![i] = Nothing]
  /\ UNCHANGED <<text, mark, waiting, announced, told>>

Complete(u, i, o) ==
  /\ Present(i) /\ done[i][o] = Nobody
  /\ done' = [done EXCEPT ![i][o] = u]
  /\ told' = [told EXCEPT ![i][o] = @ + 1]
  /\ UNCHANGED <<life, text, mark, shown, waiting, announced>>

Next == \E u \in Users, i \in Items :
  \/ Show(u, i) \/ Create(u, i) \/ Change(u, i) \/ Check(u, i) \/ Delete(u, i)
  \/ \E o \in Occurrences : Complete(u, i, o)

Spec == Init /\ [][Next]_vars
=============================================================================
