---------------------------- MODULE StagedRecursion ----------------------------
(***************************************************************************)
(* What a recursive operation on a parent image and its children promises: *)
(* stage by stage, every child finishes a stage before any begins the      *)
(* next; the parent changes its image after all children are prepared, and *)
(* only then do they change theirs; a failure at any point ends it.        *)
(***************************************************************************)
CONSTANT Child

VARIABLES
    stage,      \* the stage of the operation
    members,    \* the children that take part
    done,       \* the children that finished the stage
    changed     \* the children whose image changed

vars == <<stage, members, done, changed>>

ChildStages == {"pubcheck", "plan", "prepare", "execute"}
Following == CASE stage = "pubcheck" -> "plan"
               [] stage = "plan" -> "prepare"
               [] stage = "prepare" -> "commit"
               [] stage = "execute" -> "done"

Init ==
    /\ stage = "pubcheck" /\ members = Child
    /\ done = {} /\ changed = {}

Finish(c) ==
    /\ stage \in ChildStages /\ c \in members \ done
    /\ done' = done \cup {c}
    /\ UNCHANGED <<stage, members, changed>>

(* A child begins to change its image.                                     *)
Touch(c) ==
    /\ stage = "execute" /\ c \in members \ done
    /\ changed' = changed \cup {c}
    /\ UNCHANGED <<stage, members, done>>

(* All are done; children for which there is nothing to do drop out.       *)
Advance ==
    /\ stage \in ChildStages /\ done = members
    /\ stage' = Following
    /\ members' \in SUBSET members /\ done' = {}
    /\ UNCHANGED changed

Commit ==
    /\ stage = "commit" /\ stage' = "execute"
    /\ UNCHANGED <<members, done, changed>>

Fail ==
    /\ stage \notin {"done", "raised"}
    /\ stage' = "raised"
    /\ UNCHANGED <<members, done, changed>>

Next == (\E c \in Child : Finish(c) \/ Touch(c)) \/ Advance \/ Commit \/ Fail

Spec == Init /\ [][Next]_vars
=============================================================================
