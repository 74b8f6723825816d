---------------------------- MODULE TwoBranches ----------------------------
(***************************************************************************)
(* What the two branches of a root promise while rollbacks succeed: each   *)
(* handler commits on both at once, and one that fails has not committed.  *)
(* The cycle of an edit takes the human's text as it is; the cycle of a    *)
(* tool call gives main what the trusted branch got, resolved and blamed   *)
(* for it, or leaves main alone and has the file among the diverged.       *)
(***************************************************************************)
CONSTANTS
  File,
  Text,
  Shown,   \* what a text resolves to
  Alone    \* no tool runs while an edit is brought over

Kind == {"TRUSTED", "UNTRUSTED", "HUMAN"}

VARIABLES
  trusted,  \* the trusted branch
  main,     \* the main branch, with what git blame says
  diverged  \* files of which main does not have what trusted has

branches == <<trusted, main, diverged>>

\* A text that has symbols is committed as it is and then resolved; one that
\* has none is blamed if it is new.
Resolved(old, t) ==
  IF Shown[t] # t THEN [text |-> Shown[t], by |-> "UNTRUSTED"]
  ELSE IF t # old.text THEN [text |-> t, by |-> "TRUSTED"]
  ELSE old

TypeOK ==
  /\ trusted \in [File -> Text]
  /\ main \in [File -> [text : Text, by : Kind]]
  /\ diverged \in SUBSET File

Init ==
  /\ trusted \in [File -> Text]
  /\ main = [f \in File |->
       [text |-> Shown[trusted[f]],
        by   |-> IF Shown[trusted[f]] # trusted[f] THEN "UNTRUSTED" ELSE "TRUSTED"]]
  /\ diverged = {}

Kept(f) ==
  /\ trusted'[f] = trusted[f]
  /\ main'[f] = main[f]
  /\ f \in diverged' <=> f \in diverged

Edited(f) ==
  /\ main'[f] # main[f] => main'[f].by = "HUMAN" /\ main'[f].text # main[f].text
  /\ Shown[main'[f].text] = main'[f].text
  /\ Alone => Shown[trusted'[f]] = main'[f].text
  /\ f \notin diverged'

Installed(f) ==
  /\ main'[f] = Resolved(main[f], trusted'[f])
  /\ f \notin diverged'

Skipped(f) ==
  /\ main'[f] = main[f]
  /\ f \in diverged'

HumanCycle == \A f \in File : Kept(f) \/ Edited(f)

AgentCycle == \A f \in File : Kept(f) \/ Installed(f) \/ Skipped(f)

Next == TypeOK' /\ (HumanCycle \/ AgentCycle)

Spec == Init /\ [][Next]_branches

===========================================================================
