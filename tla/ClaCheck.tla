------------------------------ MODULE ClaCheck ------------------------------
(***************************************************************************)
(* The contributor-agreement check of one pull request: check_pr, load and *)
(* evaluate of scripts/cla_check.py, run by .github/workflows/cla.yml.     *)
(*                                                                         *)
(* A run reads the pull request, then its commits page by page, then the   *)
(* pull request again, and between any two of these calls the contributor  *)
(* may push and a maintainer may edit the trusted records.  Runs for one   *)
(* pull request do not overlap (the workflow's concurrency group), at most *)
(* one waits, and a run may stop at any call.                              *)
(***************************************************************************)
EXTENDS Integers, Sequences, FiniteSets

CONSTANTS
    Sha,             \* the heads the pull request may have
    CommitsOf,       \* the commits up to a head, [Sha -> Seq(Commit)]
    Account,         \* account numbers
    Owner,           \* the project owner's
    Submitter,       \* the pull request's
    Records,         \* the trusted records a maintainer may publish
    None,            \* no account, no review
    MaxCommits,      \* 250 in the code
    PageCommits,     \* 100 in the code
    MaxPushes, MaxEdits, MaxStops    \* bounds of the model, not of the code

Commit == [sha : Nat, author : Account \cup {None}, coauthored : BOOLEAN]

\* The policy and acceptance files: whether they parse and agree with CLA.md, the
\* policy's status, the accounts whose acceptance stands, and the reviewed heads.
Record ==
    [valid : BOOLEAN, active : BOOLEAN, accepted : SUBSET Account,
     reviews : [Sha -> {None} \cup SUBSET Account]]

ASSUME ConstantsAssumption ==
    /\ Owner \in Account /\ Submitter \in Account /\ None \notin Account
    /\ CommitsOf \in [Sha -> Seq(Commit)]
    /\ Records \subseteq Record
    /\ MaxCommits \in Nat \ {0} /\ PageCommits \in Nat \ {0}
    /\ MaxPushes \in Nat /\ MaxEdits \in Nat /\ MaxStops \in Nat

VARIABLES
    head,      \* the pull request's head
    trusted,   \* the records on the default branch
    status,    \* the commit status of each head
    queued,    \* a run waits to start
    phase,     \* the running check's next step, "idle" when none runs
    run,       \* what the running check has read so far, and whether another head strayed
               \* into it (a fact the check does not know)
    grounds,   \* of a head's success: the records, and whether another head had strayed in
    budget     \* the pushes, edits and stops left

vars == <<head, trusted, status, queued, phase, run, grounds, budget>>

outside == <<head, trusted, budget>>

-----------------------------------------------------------------------------
Init ==
    /\ head \in Sha
    /\ trusted \in Records
    /\ status = [s \in Sha |-> "none"]
    /\ queued = TRUE
    /\ phase = "idle"
    /\ run = [sha |-> head, count |-> 0, page |-> 1, commits |-> <<>>, records |-> trusted,
              strayed |-> FALSE]
    /\ grounds = [s \in Sha |-> {}]
    /\ budget = [pushes |-> MaxPushes, edits |-> MaxEdits, stops |-> MaxStops]

\* The environment: a push, an edit of the records, and a rerun after an edit.
Push ==
    /\ budget.pushes > 0
    /\ head' \in Sha \ {head}
    /\ queued' = TRUE
    /\ budget' = [budget EXCEPT !.pushes = @ - 1]
    /\ UNCHANGED <<trusted, status, phase, run, grounds>>

EditRecords ==
    /\ budget.edits > 0
    /\ trusted' \in Records \ {trusted}
    /\ queued' = TRUE
    /\ budget' = [budget EXCEPT !.edits = @ - 1]
    /\ UNCHANGED <<head, status, phase, run, grounds>>

\* The workflow checks the default branch out when its job starts.
StartRun ==
    /\ phase = "idle"
    /\ queued
    /\ queued' = FALSE
    /\ phase' = "read"
    /\ run' = [sha |-> head, count |-> 0, page |-> 1, commits |-> <<>>, records |-> trusted,
               strayed |-> FALSE]
    /\ UNCHANGED <<outside, status, grounds>>

ReadPullRequest ==
    /\ phase = "read"
    /\ run' = [run EXCEPT !.sha = head, !.count = Len(CommitsOf[head])]
    /\ phase' = "pending"
    /\ UNCHANGED <<outside, status, queued, grounds>>

\* Slip: the status is posted only where there is none.
OnlyFirst(current, posted) == IF current = "none" THEN posted ELSE current

Posted(current, posted) == posted

PostPending ==
    /\ phase = "pending"
    /\ status' = [status EXCEPT ![run.sha] = Posted(@, "pending")]
    /\ phase' = "load"
    /\ UNCHANGED <<outside, queued, run, grounds>>

\* load, and the two checks that precede the commit pages.
LoadRecords ==
    /\ phase = "load"
    /\ phase' = IF /\ run.records.valid /\ run.records.active
                   /\ run.count \in 1..MaxCommits
                THEN "fetch" ELSE "failure"
    /\ UNCHANGED <<outside, status, queued, run, grounds>>

Pages == (run.count + PageCommits - 1) \div PageCommits

\* One page of whatever commits the pull request has by now.
FetchPage ==
    /\ phase = "fetch"
    /\ LET all == CommitsOf[head]
           first == (run.page - 1) * PageCommits + 1
           last == IF first + PageCommits - 1 < Len(all) THEN first + PageCommits - 1
                   ELSE Len(all)
       IN  run' = [run EXCEPT !.commits = @ \o SubSeq(all, first, last), !.page = @ + 1,
                               !.strayed = @ \/ head # run.sha]
    /\ phase' = IF run.page >= Pages THEN "evaluate" ELSE "fetch"
    /\ UNCHANGED <<outside, status, queued, grounds>>

(***************************************************************************)
(* evaluate.                                                               *)
(***************************************************************************)
Approved(records) == {Owner} \cup records.accepted

\* Slip: a review vouches for an account that has not accepted.
ReviewVouches(account, records, review) ==
    IF account = None THEN review # None
    ELSE account \in Approved(records) \/ (review # None /\ account \in review)

\* An author is accepted, and named by the review if there is one; an author
\* without an account needs a review.
Covered(account, records, review) ==
    IF account = None THEN review # None
    ELSE account \in Approved(records) /\ (review = None \/ account \in review)

InventoryComplete(commits, count) ==
    /\ Len(commits) = count
    /\ Cardinality({commits[i].sha : i \in 1..Len(commits)}) = Len(commits)

Evaluates ==
    LET review == run.records.reviews[run.sha]
    IN  /\ InventoryComplete(run.commits, run.count)
        /\ review # None => review \subseteq Approved(run.records)
        /\ Covered(Submitter, run.records, review)
        /\ \A i \in 1..Len(run.commits) :
              /\ Covered(run.commits[i].author, run.records, review)
              /\ run.commits[i].coauthored => review # None

Evaluate ==
    /\ phase = "evaluate"
    /\ phase' = IF Evaluates THEN "recheck" ELSE "failure"
    /\ UNCHANGED <<outside, status, queued, run, grounds>>

\* Slip: the head is not compared again.
AnyHead == TRUE

SameHead == head = run.sha

Recheck ==
    /\ phase = "recheck"
    /\ phase' = IF SameHead THEN "success" ELSE "failure"
    /\ run' = [run EXCEPT !.strayed = @ /\ head = run.sha]
    /\ UNCHANGED <<outside, status, queued, grounds>>

PostSuccess ==
    /\ phase = "success"
    /\ status' = [status EXCEPT ![run.sha] = "success"]
    /\ grounds' = [grounds EXCEPT ![run.sha] = {[records |-> run.records,
                                                strayed |-> run.strayed]}]
    /\ phase' = "idle"
    /\ UNCHANGED <<outside, queued, run>>

PostFailure ==
    /\ phase = "failure"
    /\ status' = [status EXCEPT ![run.sha] = "failure"]
    /\ phase' = "idle"
    /\ UNCHANGED <<outside, queued, run, grounds>>

\* A call that raises: inside the try block a failure is posted next, elsewhere
\* the run ends.  The job's time limit, too, ends it at any step.
Stops ==
    /\ phase # "idle"
    /\ budget.stops > 0
    /\ budget' = [budget EXCEPT !.stops = @ - 1]
    /\ \/ phase \in {"load", "fetch", "evaluate", "recheck"} /\ phase' = "failure"
       \/ phase' = "idle"
    /\ UNCHANGED <<head, trusted, status, queued, run, grounds>>

Check ==
    \/ StartRun \/ ReadPullRequest \/ PostPending \/ LoadRecords \/ FetchPage
    \/ Evaluate \/ Recheck \/ PostSuccess \/ PostFailure

Next == Push \/ EditRecords \/ Check \/ Stops

Spec == Init /\ [][Next]_vars

\* The workflow service runs what is queued and a run goes on to its end; nothing
\* obliges anyone to push, to edit, or a call to fail.
FairSpec == Spec /\ WF_vars(Check)

-----------------------------------------------------------------------------
(* Properties.                                                             *)

\* What CONTRIBUTING.md asks of a pull request with this head: the submitter and
\* every commit author has accepted, or the commits' unknown authors and
\* co-authors are settled by a review of exactly this head, whose contributors
\* have all accepted and which leaves no identified author out.
Acceptable(s, records) ==
    LET authors == {CommitsOf[s][i].author : i \in 1..Len(CommitsOf[s])} \cup {Submitter}
        unclear == \/ None \in authors
                   \/ \E i \in 1..Len(CommitsOf[s]) : CommitsOf[s][i].coauthored
        reviewed == records.reviews[s] # None
    IN  /\ records.valid /\ records.active
        /\ authors \ {None} \subseteq records.accepted \cup {Owner}
        /\ unclear => reviewed
        /\ reviewed =>
              /\ authors \ {None} \subseteq records.reviews[s]
              /\ records.reviews[s] \subseteq records.accepted \cup {Owner}

\* A head is marked "success" only if all its commits are acceptable under the
\* trusted records its run had checked out, whatever was pushed while the run read
\* the commits page by page.  The one exception: the head was another one while a
\* page was read and is back when the run compares it.
SuccessMeansAccepted ==
    \A s \in Sha : status[s] = "success" =>
        \E ground \in grounds[s] : ground.strayed \/ Acceptable(s, ground.records)

\* From its pending mark until its verdict a run judges a head that says "pending":
\* whatever refuses, stops or kills it by then, and whatever is pushed or edited
\* meanwhile, no earlier success is left on that head.  The exception is a run that
\* ends before its pending mark (phases "read" and "pending"): the calls up to it are
\* outside the try block, and what the head said before stays.
NoOldSuccess ==
    phase \in {"load", "fetch", "evaluate", "recheck", "success", "failure"} =>
        status[run.sha] = "pending"

\* Once nobody pushes or edits any more and no call fails, the head gets a verdict,
\* and the verdict is the one the latest trusted records call for; a head of more
\* commits than the check reads fails whatever the records say.
HeadIsJudged ==
    <>[](\/ budget.stops < MaxStops
         \/ status[head] = IF /\ Acceptable(head, trusted)
                              /\ Len(CommitsOf[head]) <= MaxCommits
                           THEN "success" ELSE "failure")
=============================================================================
