------------------------------- MODULE Drafting -------------------------------
(***************************************************************************)
(* What happens to a model's reply before a person may see it: validation  *)
(* (ai/generation/drafting.py), the output screen (ai/security/            *)
(* output_screen.py), the claim check (ai/grounding/claims.py) and the     *)
(* signal vector (ai/signals/features.py).                                 *)
(*                                                                         *)
(* A step is its text, the things in it that one could run (URLs, code-    *)
(* like tokens, commands) and the passage numbers it cites; one step is    *)
(* one claim.  A passage is the runnable things it contains outside and    *)
(* inside its Warnings section, and the number of its chunk.               *)
(***************************************************************************)
EXTENDS Integers, Sequences, FiniteSets, SequencesExt

CONSTANTS
    MaxSteps,      \* MAX_STEPS
    BareUrls,      \* runnable things that are a URL and nothing else ("www.x.org")
    Blank,         \* an empty text
    Certain        \* support 1.0

----------------------------------------------------------------------------
(* drafting.py *)

\* The first rule a step breaks, or "none".
StepProblem(step, n) ==
    IF step.text = Blank THEN "empty step"
    ELSE IF step.cites = {} THEN "step without citation"
    ELSE IF ~ step.cites \subseteq 1 .. n THEN "citation to a passage that does not exist"
    ELSE "none"

Faulty(steps, n) == {i \in DOMAIN steps : StepProblem(steps[i], n) # "none"}

FirstOf(S) == CHOOSE i \in S : \A j \in S : i <= j

\* What is wrong with the reply as a whole, once every step is in order.
ReplyProblem(canAnswer, steps, n) ==
    IF Len(steps) > MaxSteps THEN "too many steps"
    ELSE IF canAnswer /\ steps = <<>> THEN "can_answer is true but there are no steps"
    ELSE IF ~ canAnswer /\ steps # <<>> THEN "can_answer is false but steps were given"
    ELSE IF n = 0 /\ canAnswer THEN "claims an answer with no evidence"
    ELSE "none"

\* validate, for a reply that is an object with well-typed fields.
Rejection(reply, n) ==
    LET faulty == Faulty(reply.steps, n)
    IN  IF faulty # {} THEN StepProblem(reply.steps[FirstOf(faulty)], n)
        ELSE ReplyProblem(reply.canAnswer, reply.steps, n)

\* Mutant: what a rejected reply proposed is kept.
Validated_StepsKept(reply, n) ==
    [rejection |-> IF reply.form = "text" THEN "not an object of the schema" ELSE Rejection(reply, n),
     canAnswer |-> IF reply.canAnswer THEN "yes" ELSE "no",
     steps |-> reply.steps]

\* generate_draft; form is "text" when the reply is not JSON or not of the schema's types.
Validated(reply, n) ==
    IF reply.form = "text"
    THEN [rejection |-> "not an object of the schema", canAnswer |-> "unknown", steps |-> <<>>]
    ELSE [rejection |-> Rejection(reply, n),
          canAnswer |-> IF reply.canAnswer THEN "yes" ELSE "no",
          steps |-> IF Rejection(reply, n) = "none" THEN reply.steps ELSE <<>>]

\* Mutant: a draft that does not answer is shown too.
IsShowable_Unanswered(d) == d.rejection = "none"

\* DraftResult.shown
IsShowable(d) == d.rejection = "none" /\ d.canAnswer = "yes" /\ d.steps # <<>>

----------------------------------------------------------------------------
(* output_screen.py *)

\* screen_step: something runnable is in no cited passage, or only in their warnings;
\* a bare URL may be anywhere in them.
Blocked(step, passages) ==
    LET says  == UNION {passages[n].says : n \in step.cites}
        warns == UNION {passages[n].warns : n \in step.cites}
    IN  \/ ~ step.runs \subseteq says \cup warns
        \/ ~ step.runs \ BareUrls \subseteq says

\* screen
IsBlocked(steps, passages) == \E i \in DOMAIN steps : Blocked(steps[i], passages)

----------------------------------------------------------------------------
(* claims.py *)

MaxOf(S) == CHOOSE x \in S : \A y \in S : y <= x

\* entails[n]: the best score of a window of passage n for the claim; quotes: the
\* passages that contain the claim word for word.
Support(cites, entails, quotes) ==
    IF cites \cap quotes # {} THEN Certain ELSE MaxOf({entails[n] : n \in cites} \cup {0})

\* check_draft
Checked(steps, entails, quotes) ==
    [i \in DOMAIN steps |->
        [step |-> i, cited |-> steps[i].cites, support |-> Support(steps[i].cites, entails, quotes)]]

----------------------------------------------------------------------------
(* features.py *)

\* The signals a lane can turn on: the flags and counts of _grounding, the routing
\* margin of _routing (top: dense scores of the logged rows; probe: the best match in
\* another department, None if there is none), and the rows whose age, length and
\* warnings _evidence measures.
SignalsOf(draft, claims, rows, dense, probe, prob, None) ==
    LET Scored   == {i \in DOMAIN rows : rows[i].dense # 0}
        Place(i) == IF rows[i].final = 0 THEN 99 ELSE rows[i].final
        Best     == CHOOSE i \in Scored : \A j \in Scored :
                        Place(i) < Place(j) \/ (Place(i) = Place(j) /\ i <= j)
        Top      == IF Scored = {} THEN None ELSE dense[rows[Best].chunk]
        Cited    == UNION {draft.steps[i].cites : i \in DOMAIN draft.steps}
    IN  [deptProb |-> prob,
         probeMargin |-> IF Top = None \/ probe = None THEN None ELSE Top - probe,
         canAnswer |-> draft.canAnswer,
         nClaims |-> Len(claims),
         minSupport |-> IF claims = <<>> THEN None
                        ELSE Certain - MaxOf({Certain - claims[i].support : i \in DOMAIN claims}),
         evidence |-> {rows[i].chunk : i \in {j \in DOMAIN rows : rows[j].final \in Cited}}]
=============================================================================
