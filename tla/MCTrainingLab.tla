--------------------------- MODULE MCTrainingLab ---------------------------
(* The samples and jobs of a project, and the validation of its weights,    *)
(* which read the jobs' results and none of their tables: a behaviour is    *)
(* one or the other, which reaches the states of both without those of      *)
(* their product.                                                           *)
EXTENDS TrainingLab, Validation
VARIABLE lab
partVars == <<lab, labVars, validationVars>>

\* A shuffle that moves every element of a list of three.
Rotated == [n \in 0..N |-> [i \in 1..n |-> ((i + 1) % n) + 1]]

\* Of the initial states of the samples one is enough where nobody uses them.
Init ==
  /\ LabInit /\ ValidationInit /\ lab \in {"samples", "validation"}
  /\ lab = "validation" => labels = [s \in Samples |-> "none"]
Next ==
  \/ lab = "samples" /\ LabNext /\ UNCHANGED <<lab, validationVars>>
  \/ lab = "validation" /\ ValidationNext /\ UNCHANGED <<lab, labVars>>

\* A thread that was started goes on; nobody has to press a button.
Fairness == \A j \in Jobs : WF_partVars(lab = "samples" /\ JobStep(j) /\ UNCHANGED <<lab, validationVars>>)
Spec == Init /\ [][Next]_partVars /\ Fairness
=============================================================================
