------------------------------ MODULE MCActions ------------------------------
EXTENDS Actions

\* A file with one or two jobs of up to two steps, and one that is called.
MCSteps ==
  {StepOf("secure-runner", "v1", c) : c \in {"none", "success", "other"}}
    \cup {StepOf("secure-runner", "v2", "none")}
    \cup {StepOf(a, "v1", "none") : a \in {"ensure-secure-runner", "checkout", "run"}}

MCProtected == JobOf(<<StepOf("secure-runner", "v1", "none")>>)

MCCallers ==
  {WorkflowOf({JobOf(s)}) : s \in BoundedSeq(MCSteps, 2)}
    \cup {WorkflowOf({MCProtected, CallOf(t)}) : t \in {"w1", "w2", "remote"}}

MCCalled ==
  {WorkflowOf({MCProtected, JobOf(s)}) : s \in BoundedSeq(MCSteps, 1)}
    \cup {Manifest, Broken}

MCFileTexts ==
  {[f \in {"w1", "w2"} |-> IF f = "w1" THEN a ELSE b] : a \in MCCallers, b \in MCCalled}
=============================================================================
