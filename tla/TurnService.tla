---------------------------- MODULE TurnService ----------------------------
(***************************************************************************)
(* What a Session promises to whoever gives it inputs: an accepted input   *)
(* waits, is served at most once and gets one outcome; one turn, made of   *)
(* one input or of several background results, is served at a time.        *)
(***************************************************************************)
CONSTANTS Ids,        \* identities of the inputs
          Outcomes    \* how an input may end

VARIABLES waiting,    \* accepted and not yet begun
          serving,    \* the inputs of the turn that runs
          outcome     \* per input: how it ended, "none" until then

vars == <<waiting, serving, outcome>>

Ended(S, out) ==
  \E o \in Outcomes : out = [i \in Ids |-> IF i \in S THEN o ELSE outcome[i]]

Fresh(i) == i \notin waiting \cup serving /\ outcome[i] = "none"

Init == /\ waiting \in SUBSET Ids
        /\ serving = {}
        /\ outcome = [i \in Ids |-> "none"]

Accept == \E i \in Ids :
  /\ Fresh(i)
  /\ waiting' = waiting \cup {i}
  /\ UNCHANGED <<serving, outcome>>

(* A turn begins only when no other one is being served.                   *)
Begin == \E S \in (SUBSET waiting) \ {{}} :
  /\ serving = {}
  /\ serving' = S
  /\ waiting' = waiting \ S
  /\ UNCHANGED outcome

Finish ==
  /\ serving # {}
  /\ Ended(serving, outcome')
  /\ serving' = {}
  /\ UNCHANGED waiting

(* Inputs that will not be served: a stopped Session, a closing runtime.   *)
Drop == \E S \in (SUBSET waiting) \ {{}} :
  /\ waiting' = waiting \ S
  /\ outcome' = [i \in Ids |-> IF i \in S THEN "lost" ELSE outcome[i]]
  /\ UNCHANGED serving

(* A runtime is taken down: its turn is cut short and what waits for it is *)
(* dropped.                                                                *)
Abandon == \E S \in SUBSET waiting, o \in {"interrupted", "lost"} :
  /\ waiting' = waiting \ S /\ serving' = {}
  /\ outcome' = [i \in Ids |-> IF i \in S THEN "lost"
                               ELSE IF i \in serving THEN o ELSE outcome[i]]

Next == Accept \/ Begin \/ Finish \/ Drop \/ Abandon

Spec == Init /\ [][Next]_vars
=============================================================================
