---------------------------- MODULE ActionStates ----------------------------
(***************************************************************************)
(* What the runtime promises an application that asks for the state of an  *)
(* action, with no samples, hands or bindings: each sync fixes an answer,  *)
(* and until the next sync that answer is what the application is told.    *)
(* An answer that finds no controller is the empty one; one that follows   *)
(* an answer about the same hand says whether the value has changed.       *)
(***************************************************************************)
EXTENDS Integers

CONSTANTS
  Answers,  \* what can be told: records with the fields active, current and changed
  Empty,    \* the answer of an action without a controller
  NotAsked  \* stands for no answer since the last sync

VARIABLES
  oneHand,  \* whether the application asks about one hand
  fixed,    \* the answer the last sync has fixed
  said      \* what the application was told since then

actionVars == <<oneHand, fixed, said>>

\* The next answer tells the truth about the last one.
Follows(last, next) ==
  IF next.active
  THEN oneHand /\ last.active => next.changed = (next.current # last.current)
  ELSE next = Empty

Sync ==
  /\ fixed' \in Answers /\ Follows(fixed, fixed')
  /\ said' = NotAsked
  /\ UNCHANGED oneHand

Ask ==
  /\ said' = fixed
  /\ UNCHANGED <<oneHand, fixed>>

Init == oneHand \in BOOLEAN /\ fixed = Empty /\ said = NotAsked

Next == Ask \/ Sync

Spec == Init /\ [][Next]_actionVars
=============================================================================
