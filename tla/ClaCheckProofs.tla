--------------------------- MODULE ClaCheckProofs ---------------------------
(***************************************************************************)
(* Proofs about ClaCheck, for every pull request, every set of records and *)
(* any number of pushes, edits and stops: what a success rests on, and     *)
(* that no earlier success stays once a run has posted its pending mark.   *)
(***************************************************************************)
EXTENDS ClaCheck, SequenceTheorems, TLAPS

(***************************************************************************)
(* The inductive invariant.                                                *)
(***************************************************************************)
Run ==
    [sha : Sha, count : Nat, page : Nat \ {0}, commits : Seq(Commit), records : Records,
     strayed : BOOLEAN]

Typed ==
    /\ head \in Sha
    /\ trusted \in Records
    /\ status \in [Sha -> {"none", "pending", "success", "failure"}]
    /\ run \in Run
    /\ DOMAIN grounds = Sha

\* Past load, the run works with records in force and knows how many commits its
\* head has.
InForce ==
    /\ phase \in {"pending", "load", "fetch", "evaluate", "recheck", "success"} =>
          run.count = Len(CommitsOf[run.sha])
    /\ phase \in {"fetch", "evaluate", "recheck", "success"} =>
          run.records.valid /\ run.records.active

\* Where the pages read so far end in a sequence of n commits.
Reached(page, n) ==
    IF (page - 1) * PageCommits < n THEN (page - 1) * PageCommits ELSE n

\* The pages of a run that no other head strayed into are the head's first commits.
Gathered ==
    /\ phase \in {"read", "pending", "load"} => run.commits = <<>> /\ run.page = 1
    /\ phase \in {"fetch", "evaluate"} /\ ~run.strayed =>
          run.commits = SubSeq(CommitsOf[run.sha], 1,
                               Reached(run.page, Len(CommitsOf[run.sha])))

Judged ==
    phase \in {"recheck", "success"} =>
        run.strayed \/ Acceptable(run.sha, run.records)

Inv == Typed /\ NoOldSuccess /\ InForce /\ Gathered /\ Judged /\ SuccessMeansAccepted

-----------------------------------------------------------------------------
LEMMA CommitsType ==
    ASSUME NEW s \in Sha
    PROVE  CommitsOf[s] \in Seq(Commit) /\ Len(CommitsOf[s]) \in Nat
  <1>1. CommitsOf[s] \in Seq(Commit)
    BY ConstantsAssumption
  <1> QED BY <1>1

\* A page continues the pages before it.
LEMMA PageExtends ==
    ASSUME NEW all \in Seq(Commit), NEW page \in Nat \ {0}, NEW first, NEW last,
           first = (page - 1) * PageCommits + 1,
           last = IF first + PageCommits - 1 < Len(all) THEN first + PageCommits - 1
                  ELSE Len(all)
    PROVE  /\ SubSeq(all, first, last) \in Seq(Commit)
           /\ SubSeq(all, 1, Reached(page, Len(all))) \o SubSeq(all, first, last)
                  = SubSeq(all, 1, Reached(page + 1, Len(all)))
  <1>1. PICK before : before = (page - 1) * PageCommits
    OBVIOUS
  <1>2. before \in Nat /\ PageCommits \in Nat \ {0} /\ Len(all) \in Nat
    <2>1. PageCommits \in Nat \ {0} /\ page - 1 \in Nat
      BY ConstantsAssumption
    <2> QED BY <1>1, <2>1
  <1>3. ((page + 1) - 1) * PageCommits = before + PageCommits
    <2>1. page * PageCommits = (page - 1) * PageCommits + PageCommits
      BY <1>2
    <2> QED BY <1>1, <2>1
  <1>4. PICK reached : reached = IF before < Len(all) THEN before ELSE Len(all)
    OBVIOUS
  <1>5. reached = Reached(page, Len(all)) /\ first = before + 1
    BY <1>1, <1>4 DEF Reached
  <1>6. last = Reached(page + 1, Len(all))
    BY <1>2, <1>3, <1>5 DEF Reached
  <1>7. /\ reached \in 0..Len(all) /\ last \in 0..Len(all) /\ reached <= last
        /\ reached = before \/ (last < first /\ reached = last)
    BY <1>2, <1>4, <1>5
  <1>8. SubSeq(all, first, last) \in Seq(Commit)
    <2>1. first \in Int /\ last \in Int
      BY <1>2, <1>5, <1>7
    <2>2. ASSUME NEW i \in first..last PROVE all[i] \in Commit
      <3>1. i \in 1..Len(all)
        BY <1>2, <1>5, <1>7
      <3> QED BY <3>1
    <2> QED BY <2>1, <2>2, SubSeqProperties
  <1>9. SubSeq(all, 1, reached) \o SubSeq(all, first, last) = SubSeq(all, 1, last)
    <2>1. CASE reached = before
      <3>1. /\ 1 \in 1..Len(all) + 1 /\ before \in (1 - 1)..Len(all) /\ last \in before..Len(all)
        BY <1>2, <1>7, <2>1
      <3>2. SubSeq(all, 1, before) \o SubSeq(all, before + 1, last) = SubSeq(all, 1, last)
        BY <3>1, ConcatAdjacentSubSeq, Zenon
      <3> QED BY <1>5, <2>1, <3>2
    <2>2. CASE last < first /\ reached = last
      <3>1. SubSeq(all, first, last) = <<>>
        <4>1. first \in Int /\ last \in Int /\ last < first
          BY <1>2, <1>5, <1>7, <2>2
        <4> QED BY <4>1, SubSeqEmpty, Zenon
      <3>2. SubSeq(all, 1, last) \in Seq(Commit)
        <4>1. 1 \in Int /\ last \in Int /\ \A i \in 1..last : all[i] \in Commit
          BY <1>2, <1>7
        <4> QED BY <4>1, SubSeqProperties
      <3> QED BY <2>2, <3>1, <3>2, ConcatEmptySeq
    <2> QED BY <1>7, <2>1, <2>2
  <1> QED BY <1>5, <1>6, <1>8, <1>9

\* How a run's record moves.
LEMMA RunFields ==
    ASSUME NEW r \in Run
    PROVE  /\ r.sha \in Sha /\ r.count \in Nat /\ r.page \in Nat \ {0}
           /\ r.commits \in Seq(Commit) /\ r.records \in Records /\ r.strayed \in BOOLEAN
           /\ \A s \in Sha, n \in Nat : [r EXCEPT !.sha = s, !.count = n] \in Run
  BY DEF Run

LEMMA ReadStep ==
    ASSUME Typed, ReadPullRequest
    PROVE  /\ run' \in Run /\ run'.sha = head /\ run'.count = Len(CommitsOf[head])
           /\ UNCHANGED <<run.page, run.commits, run.records, run.strayed>>
  <1>1. PICK n \in Nat : n = Len(CommitsOf[head])
    BY CommitsType DEF Typed
  <1>2. run' = [run EXCEPT !.sha = head, !.count = n]
    BY <1>1 DEF ReadPullRequest
  <1> QED BY <1>1, <1>2 DEF Run, Typed

\* A page read adds to the commits; it is the head's own page, or the run has strayed.
LEMMA PageStep ==
    ASSUME Typed, FetchPage
    PROVE  /\ run' \in Run /\ run'.page = run.page + 1
           /\ UNCHANGED <<run.sha, run.count, run.records>>
           /\ run'.strayed = (run.strayed \/ head # run.sha)
           /\ run.commits = SubSeq(CommitsOf[head], 1,
                                  Reached(run.page, Len(CommitsOf[head]))) =>
                 run'.commits = SubSeq(CommitsOf[head], 1,
                                       Reached(run'.page, Len(CommitsOf[head])))
  <1>1. PICK all \in Seq(Commit) : all = CommitsOf[head]
    BY CommitsType DEF Typed
  <1>2. PICK first : first = (run.page - 1) * PageCommits + 1
    OBVIOUS
  <1>3. PICK last : last = IF first + PageCommits - 1 < Len(all)
                           THEN first + PageCommits - 1 ELSE Len(all)
    OBVIOUS
  <1>4. run \in Run /\ run.page \in Nat \ {0} /\ run.commits \in Seq(Commit)
        /\ run.strayed \in BOOLEAN
    BY RunFields DEF Typed
  <1>5. /\ SubSeq(all, first, last) \in Seq(Commit)
        /\ SubSeq(all, 1, Reached(run.page, Len(all))) \o SubSeq(all, first, last)
               = SubSeq(all, 1, Reached(run.page + 1, Len(all)))
    BY <1>2, <1>3, <1>4, PageExtends
  <1>6. PICK commits : commits = run.commits \o SubSeq(all, first, last)
    OBVIOUS
  <1>7. commits \in Seq(Commit)
    BY <1>4, <1>5, <1>6
  <1>8. PICK page : page = run.page + 1
    OBVIOUS
  <1>9. page \in Nat \ {0}
    BY <1>4, <1>8
  <1>10. PICK strayed \in BOOLEAN : strayed = (run.strayed \/ head # run.sha)
    OBVIOUS
  <1>11. run' = [run EXCEPT !.commits = commits, !.page = page, !.strayed = strayed]
    BY <1>1, <1>2, <1>3, <1>6, <1>8, <1>10 DEF FetchPage
  <1>12. /\ run' \in Run /\ run'.page = page /\ run'.commits = commits
         /\ run'.strayed = strayed /\ UNCHANGED <<run.sha, run.count, run.records>>
    BY <1>4, <1>7, <1>9, <1>11 DEF Run
  <1> QED BY <1>1, <1>5, <1>6, <1>8, <1>10, <1>12

LEMMA RecheckStep ==
    ASSUME Typed, Recheck
    PROVE  /\ run' \in Run
           /\ UNCHANGED <<run.sha, run.count, run.records, run.page, run.commits>>
           /\ head = run.sha => run'.strayed = run.strayed
  <1>1. PICK strayed \in BOOLEAN : strayed = (run.strayed /\ head = run.sha)
    OBVIOUS
  <1>2. run' = [run EXCEPT !.strayed = strayed]
    BY <1>1 DEF Recheck
  <1>3. run \in Run /\ run.strayed \in BOOLEAN
    BY RunFields DEF Typed
  <1> QED BY <1>1, <1>2, <1>3 DEF Run

LEMMA StartStep ==
    ASSUME Typed, StartRun
    PROVE  run' \in Run /\ run'.commits = <<>> /\ run'.page = 1 /\ ~run'.strayed
  <1>1. <<>> \in Seq(Commit) /\ 1 \in Nat \ {0} /\ 0 \in Nat
    OBVIOUS
  <1> QED BY <1>1 DEF StartRun, Run, Typed

\* The steps of a run that only move it on.
Moves == LoadRecords \/ Evaluate \/ Stops

Environment == Push \/ EditRecords

LEMMA NextSplit ==
    ASSUME [Next]_vars
    PROVE  \/ Environment /\ UNCHANGED <<status, phase, run, grounds>>
           \/ Moves /\ UNCHANGED <<head, trusted, status, run, grounds>>
           \/ (StartRun \/ ReadPullRequest \/ FetchPage \/ Recheck)
              /\ UNCHANGED <<head, trusted, status, grounds>>
           \/ (PostPending \/ PostFailure) /\ UNCHANGED <<head, trusted, run, grounds>>
           \/ PostSuccess /\ UNCHANGED <<head, trusted, run>>
           \/ UNCHANGED vars
  BY DEF Next, Check, Environment, Moves, Push, EditRecords, LoadRecords, Evaluate, Stops,
         StartRun, ReadPullRequest, FetchPage, Recheck, PostPending, PostFailure,
         PostSuccess, outside

\* A posting changes the status of the run's head, and nothing else.
LEMMA PostStep ==
    ASSUME Typed, PostPending \/ PostSuccess \/ PostFailure
    PROVE  /\ \A s \in Sha : s # run.sha => status'[s] = status[s]
           /\ PostPending => status'[run.sha] = "pending"
           /\ PostSuccess => status'[run.sha] = "success"
           /\ PostFailure => status'[run.sha] = "failure"
           /\ status' \in [Sha -> {"none", "pending", "success", "failure"}]
  <1>1. run.sha \in Sha
    BY RunFields DEF Typed
  <1>2. PICK sha \in Sha : sha = run.sha
    BY <1>1
  <1>3. \/ PostPending /\ status' = [status EXCEPT ![sha] = "pending"]
        \/ PostSuccess /\ status' = [status EXCEPT ![sha] = "success"]
        \/ PostFailure /\ status' = [status EXCEPT ![sha] = "failure"]
    BY <1>2 DEF PostPending, PostSuccess, PostFailure, Posted
  <1>4. /\ PostPending => phase = "pending"
        /\ PostSuccess => phase = "success"
        /\ PostFailure => phase = "failure"
    BY DEF PostPending, PostSuccess, PostFailure
  <1> QED BY <1>2, <1>3, <1>4 DEF Typed

LEMMA TypedStep == ASSUME Typed, [Next]_vars PROVE Typed'
  <1>1. CASE Environment /\ UNCHANGED <<status, phase, run, grounds>>
    BY <1>1 DEF Environment, Push, EditRecords, Typed
  <1>2. CASE Moves /\ UNCHANGED <<head, trusted, status, run, grounds>>
    BY <1>2 DEF Typed
  <1>3. CASE /\ StartRun \/ ReadPullRequest \/ FetchPage \/ Recheck
             /\ UNCHANGED <<head, trusted, status, grounds>>
    <2>1. run' \in Run
      BY <1>3, StartStep, ReadStep, PageStep, RecheckStep
    <2> QED BY <1>3, <2>1 DEF Typed
  <1>4. CASE (PostPending \/ PostFailure) /\ UNCHANGED <<head, trusted, run, grounds>>
    BY <1>4, PostStep DEF Typed
  <1>5. CASE PostSuccess /\ UNCHANGED <<head, trusted, run>>
    <2>1. DOMAIN grounds' = Sha
      BY <1>5 DEF PostSuccess, Typed
    <2> QED BY <1>5, <2>1, PostStep DEF Typed
  <1>6. CASE UNCHANGED vars
    BY <1>6 DEF vars, Typed
  <1> QED BY <1>1, <1>2, <1>3, <1>4, <1>5, <1>6, NextSplit

LEMMA PendingStays == ASSUME Typed, NoOldSuccess, [Next]_vars PROVE NoOldSuccess'
  <1>1. CASE Environment /\ UNCHANGED <<status, phase, run, grounds>>
    BY <1>1 DEF NoOldSuccess
  <1>2. CASE Moves /\ UNCHANGED <<head, trusted, status, run, grounds>>
    BY <1>2 DEF Moves, LoadRecords, Evaluate, Stops, NoOldSuccess
  <1>3. CASE /\ StartRun \/ ReadPullRequest \/ FetchPage \/ Recheck
             /\ UNCHANGED <<head, trusted, status, grounds>>
    <2>1. CASE StartRun \/ ReadPullRequest
      BY <2>1 DEF StartRun, ReadPullRequest, NoOldSuccess
    <2>2. CASE FetchPage \/ Recheck
      <3>1. run'.sha = run.sha
        BY <2>2, PageStep, RecheckStep
      <3> QED BY <1>3, <2>2, <3>1 DEF FetchPage, Recheck, NoOldSuccess
    <2> QED BY <1>3, <2>1, <2>2
  <1>4. CASE (PostPending \/ PostFailure) /\ UNCHANGED <<head, trusted, run, grounds>>
    <2>1. CASE PostPending
      BY <1>4, <2>1, PostStep DEF NoOldSuccess
    <2>2. CASE PostFailure
      BY <2>2 DEF PostFailure, NoOldSuccess
    <2> QED BY <1>4, <2>1, <2>2
  <1>5. CASE PostSuccess /\ UNCHANGED <<head, trusted, run>>
    BY <1>5 DEF PostSuccess, NoOldSuccess
  <1>6. CASE UNCHANGED vars
    BY <1>6 DEF vars, NoOldSuccess
  <1> QED BY <1>1, <1>2, <1>3, <1>4, <1>5, <1>6, NextSplit

LEMMA InForceStep == ASSUME Typed, InForce, [Next]_vars PROVE InForce'
  <1>1. CASE Environment /\ UNCHANGED <<status, phase, run, grounds>>
    BY <1>1 DEF InForce
  <1>2. CASE Moves /\ UNCHANGED <<head, trusted, status, run, grounds>>
    BY <1>2 DEF Moves, LoadRecords, Evaluate, Stops, InForce
  <1>3. CASE /\ StartRun \/ ReadPullRequest \/ FetchPage \/ Recheck
             /\ UNCHANGED <<head, trusted, status, grounds>>
    <2>1. CASE StartRun
      BY <2>1 DEF StartRun, InForce
    <2>2. CASE ReadPullRequest
      <3>1. phase' = "pending" /\ run'.count = Len(CommitsOf[run'.sha])
        BY <2>2, ReadStep DEF ReadPullRequest
      <3> QED BY <3>1 DEF InForce
    <2>3. CASE FetchPage \/ Recheck
      <3>1. UNCHANGED <<run.sha, run.count, run.records>>
        BY <2>3, PageStep, RecheckStep
      <3>2. /\ phase \in {"fetch", "recheck"}
            /\ phase' \in {"fetch", "evaluate", "success", "failure"}
        BY <2>3 DEF FetchPage, Recheck
      <3> QED BY <3>1, <3>2 DEF InForce
    <2> QED BY <1>3, <2>1, <2>2, <2>3
  <1>4. CASE (PostPending \/ PostFailure) /\ UNCHANGED <<head, trusted, run, grounds>>
    BY <1>4 DEF PostPending, PostFailure, InForce
  <1>5. CASE PostSuccess /\ UNCHANGED <<head, trusted, run>>
    BY <1>5 DEF PostSuccess, InForce
  <1>6. CASE UNCHANGED vars
    BY <1>6 DEF vars, InForce
  <1> QED BY <1>1, <1>2, <1>3, <1>4, <1>5, <1>6, NextSplit

LEMMA GatheredStep == ASSUME Typed, Gathered, [Next]_vars PROVE Gathered'
  <1>1. CASE Environment /\ UNCHANGED <<status, phase, run, grounds>>
    BY <1>1 DEF Gathered
  <1>2. CASE Moves /\ UNCHANGED <<head, trusted, status, run, grounds>>
    <2>1. CASE LoadRecords /\ phase' = "fetch"
      <3>1. run.commits = <<>> /\ run.page = 1
        BY <2>1 DEF LoadRecords, Gathered
      <3>2. CommitsOf[run.sha] \in Seq(Commit) /\ Len(CommitsOf[run.sha]) \in Nat
        BY RunFields, CommitsType DEF Typed
      <3>3. Reached(run.page, Len(CommitsOf[run.sha])) = 0
        BY <3>1, <3>2, ConstantsAssumption DEF Reached
      <3>4. SubSeq(CommitsOf[run.sha], 1, 0) = <<>>
        BY SubSeqEmpty
      <3> QED BY <1>2, <2>1, <3>1, <3>3, <3>4 DEF Gathered
    <2>2. CASE ~(LoadRecords /\ phase' = "fetch")
      BY <1>2, <2>2 DEF Moves, LoadRecords, Evaluate, Stops, Gathered
    <2> QED BY <2>1, <2>2
  <1>3. CASE /\ StartRun \/ ReadPullRequest \/ FetchPage \/ Recheck
             /\ UNCHANGED <<head, trusted, status, grounds>>
    <2>1. CASE StartRun
      BY <2>1, StartStep DEF StartRun, Gathered
    <2>2. CASE ReadPullRequest
      BY <2>2, ReadStep DEF ReadPullRequest, Gathered
    <2>3. CASE FetchPage
      <3>1. phase = "fetch" /\ phase' \in {"fetch", "evaluate"} /\ run'.sha = run.sha
        BY <2>3, PageStep DEF FetchPage
      <3>2. ~run'.strayed => ~run.strayed /\ head = run.sha
        BY <2>3, PageStep
      <3> QED BY <2>3, <3>1, <3>2, PageStep DEF Gathered
    <2>4. CASE Recheck
      BY <2>4 DEF Recheck, Gathered
    <2> QED BY <1>3, <2>1, <2>2, <2>3, <2>4
  <1>4. CASE (PostPending \/ PostFailure) /\ UNCHANGED <<head, trusted, run, grounds>>
    BY <1>4 DEF PostPending, PostFailure, Gathered
  <1>5. CASE PostSuccess /\ UNCHANGED <<head, trusted, run>>
    BY <1>5 DEF PostSuccess, Gathered
  <1>6. CASE UNCHANGED vars
    BY <1>6 DEF vars, Gathered
  <1> QED BY <1>1, <1>2, <1>3, <1>4, <1>5, <1>6, NextSplit

-----------------------------------------------------------------------------
\* A run that no other head strayed into has exactly its head's commits when their
\* number is right.
LEMMA InventoryIsTheHead ==
    ASSUME Typed, InForce, Gathered, phase = "evaluate", ~run.strayed,
           Len(run.commits) = run.count
    PROVE  run.commits = CommitsOf[run.sha]
  <1>1. PICK all \in Seq(Commit) : all = CommitsOf[run.sha]
    BY RunFields, CommitsType DEF Typed
  <1>2. PICK n : n = Reached(run.page, Len(all))
    OBVIOUS
  <1>3. n \in 0..Len(all)
    <2>0. run.page \in Nat \ {0} /\ PageCommits \in Nat \ {0}
      BY RunFields, ConstantsAssumption DEF Typed
    <2>1. run.page - 1 \in Nat /\ PageCommits \in Nat /\ Len(all) \in Nat
      BY <2>0
    <2>2. (run.page - 1) * PageCommits \in Nat
      BY <2>1
    <2> QED BY <1>2, <2>1, <2>2 DEF Reached
  <1>4. run.commits = SubSeq(all, 1, n) /\ Len(run.commits) = Len(all)
    BY <1>1, <1>2 DEF Gathered, InForce
  <1>5. Len(SubSeq(all, 1, n)) = n
    <2>1. 1 \in Int /\ n \in Int
      BY <1>3
    <2>2. \A i \in 1..n : all[i] \in Commit
      BY <1>3
    <2>3. Len(SubSeq(all, 1, n)) = IF 1 <= n THEN n - 1 + 1 ELSE 0
      BY <2>1, <2>2, SubSeqProperties
    <2> QED BY <1>3, <2>3
  <1>6. SubSeq(all, 1, Len(all)) = all
    BY SubSeqFull
  <1> QED BY <1>1, <1>4, <1>5, <1>6

\* evaluate decides what CONTRIBUTING.md asks.
LEMMA EvaluatesRight ==
    ASSUME Typed, InForce, Gathered, phase = "evaluate", ~run.strayed, Evaluates
    PROVE  Acceptable(run.sha, run.records)
  <1>1. PICK all \in Seq(Commit) : all = CommitsOf[run.sha]
    BY RunFields, CommitsType DEF Typed
  <1>2. run.commits = all
    BY <1>1, InventoryIsTheHead DEF Evaluates, InventoryComplete
  <1>3. PICK review : review = run.records.reviews[run.sha]
    OBVIOUS
  <1>4. PICK approved : approved = {Owner} \cup run.records.accepted
    OBVIOUS
  <1>5. /\ review # None => review \subseteq approved
        /\ Covered(Submitter, run.records, review)
        /\ \A i \in 1..Len(all) :
              /\ Covered(all[i].author, run.records, review)
              /\ all[i].coauthored => review # None
    BY <1>2, <1>3, <1>4 DEF Evaluates, Approved
  <1>6. \A a : Covered(a, run.records, review) =>
                  IF a = None THEN review # None
                  ELSE a \in approved /\ (review = None \/ a \in review)
    BY <1>4 DEF Covered, Approved
  <1>7. Submitter # None
    BY ConstantsAssumption
  <1>8. PICK authors : authors = {all[i].author : i \in 1..Len(all)} \cup {Submitter}
    OBVIOUS
  <1>9. \A a \in authors : IF a = None THEN review # None
                            ELSE a \in approved /\ (review = None \/ a \in review)
    BY <1>5, <1>6, <1>8
  <1>10. run.records.valid /\ run.records.active
    BY DEF InForce
  <1>11. /\ authors \ {None} \subseteq run.records.accepted \cup {Owner}
         /\ None \in authors => review # None
         /\ review # None => authors \ {None} \subseteq review
         /\ review # None => review \subseteq run.records.accepted \cup {Owner}
    BY <1>4, <1>5, <1>9
  <1>12. (\E i \in 1..Len(all) : all[i].coauthored) => review # None
    BY <1>5
  <1> QED BY <1>1, <1>3, <1>8, <1>10, <1>11, <1>12 DEF Acceptable

LEMMA JudgedStep ==
    ASSUME Typed, InForce, Gathered, Judged, [Next]_vars
    PROVE  Judged'
  <1>1. CASE Environment /\ UNCHANGED <<status, phase, run, grounds>>
    BY <1>1 DEF Judged
  <1>2. CASE Moves /\ UNCHANGED <<head, trusted, status, run, grounds>>
    <2>1. CASE Evaluate
      <3>1. phase' = "recheck" => run.strayed \/ Acceptable(run.sha, run.records)
        BY <2>1, EvaluatesRight DEF Evaluate
      <3> QED BY <1>2, <2>1, <3>1 DEF Evaluate, Judged
    <2>2. CASE LoadRecords \/ Stops
      BY <1>2, <2>2 DEF LoadRecords, Stops, Judged
    <2> QED BY <1>2, <2>1, <2>2 DEF Moves
  <1>3. CASE /\ StartRun \/ ReadPullRequest \/ FetchPage \/ Recheck
             /\ UNCHANGED <<head, trusted, status, grounds>>
    <2>1. CASE StartRun \/ ReadPullRequest \/ FetchPage
      BY <2>1 DEF StartRun, ReadPullRequest, FetchPage, Judged
    <2>2. CASE Recheck
      <3>1. /\ phase = "recheck" /\ UNCHANGED <<run.sha, run.records>>
            /\ phase' = "success" => run'.strayed = run.strayed
            /\ phase' # "recheck"
        BY <2>2, RecheckStep DEF Recheck, SameHead
      <3> QED BY <3>1 DEF Judged
    <2> QED BY <1>3, <2>1, <2>2
  <1>4. CASE (PostPending \/ PostFailure) /\ UNCHANGED <<head, trusted, run, grounds>>
    BY <1>4 DEF PostPending, PostFailure, Judged
  <1>5. CASE PostSuccess /\ UNCHANGED <<head, trusted, run>>
    BY <1>5 DEF PostSuccess, Judged
  <1>6. CASE UNCHANGED vars
    BY <1>6 DEF vars, Judged
  <1> QED BY <1>1, <1>2, <1>3, <1>4, <1>5, <1>6, NextSplit

LEMMA SuccessStep ==
    ASSUME Typed, Judged, SuccessMeansAccepted, [Next]_vars
    PROVE  SuccessMeansAccepted'
  <1>1. CASE UNCHANGED <<status, grounds>>
    BY <1>1 DEF SuccessMeansAccepted
  <1>2. CASE (PostPending \/ PostFailure) /\ UNCHANGED <<head, trusted, run, grounds>>
    <2>1. \A s \in Sha : status'[s] = "success" => status[s] = "success"
      BY <1>2, PostStep
    <2> QED BY <1>2, <2>1 DEF SuccessMeansAccepted
  <1>3. CASE PostSuccess /\ UNCHANGED <<head, trusted, run>>
    <2>1. PICK ground : ground = [records |-> run.records, strayed |-> run.strayed]
      OBVIOUS
    <2>2. ground.strayed \/ Acceptable(run.sha, ground.records)
      BY <1>3, <2>1 DEF PostSuccess, Judged
    <2>3. grounds' = [grounds EXCEPT ![run.sha] = {ground}]
      BY <1>3, <2>1 DEF PostSuccess
    <2> SUFFICES ASSUME NEW s \in Sha, status'[s] = "success"
                 PROVE  \E g \in grounds'[s] : g.strayed \/ Acceptable(s, g.records)
      BY DEF SuccessMeansAccepted
    <2>4. CASE s = run.sha
      <3>1. grounds'[s] = {ground}
        BY <2>3, <2>4 DEF Typed
      <3> QED BY <2>2, <2>4, <3>1
    <2>5. CASE s # run.sha
      <3>1. status'[s] = status[s] /\ grounds'[s] = grounds[s]
        BY <1>3, <2>3, <2>5, PostStep DEF Typed
      <3> QED BY <3>1 DEF SuccessMeansAccepted
    <2> QED BY <2>4, <2>5
  <1> QED BY <1>1, <1>2, <1>3, NextSplit DEF vars

LEMMA InvAlways == Spec => []Inv
  <1>1. Init => Inv
    <2> SUFFICES ASSUME Init PROVE Inv
      OBVIOUS
    <2>1. run \in Run /\ run.commits = <<>> /\ run.page = 1
      <3>1. <<>> \in Seq(Commit) /\ 1 \in Nat \ {0} /\ 0 \in Nat
        OBVIOUS
      <3> QED BY <3>1 DEF Init, Run
    <2>2. \A s \in Sha : status[s] = "none"
      BY DEF Init
    <2>3. Typed
      BY <2>1 DEF Init, Typed
    <2> QED BY <2>1, <2>2, <2>3
         DEF Init, Inv, NoOldSuccess, InForce, Gathered, Judged, SuccessMeansAccepted
  <1>2. Inv /\ [Next]_vars => Inv'
    BY TypedStep, PendingStays, InForceStep, GatheredStep, JudgedStep, SuccessStep DEF Inv
  <1> QED BY <1>1, <1>2, PTL DEF Spec

\* A head marked "success" is one that CONTRIBUTING.md accepts under the records its run
\* had checked out, however pushes and edits fall between the calls of the run; the
\* exception is a run during which the head was another one while a page was read.
THEOREM SuccessIsEarned == Spec => []SuccessMeansAccepted
  <1>1. Inv => SuccessMeansAccepted
    BY DEF Inv
  <1> QED BY <1>1, InvAlways, PTL

\* From its pending mark until its verdict a run judges a head that says "pending", so
\* whatever refuses, stops or kills it by then leaves no earlier success on that head.
\* Of a run that ends before it has posted the mark nothing is said: what the head said
\* before stays.
THEOREM VerdictsFollowPending == Spec => []NoOldSuccess
  <1>1. Inv => NoOldSuccess
    BY DEF Inv
  <1> QED BY <1>1, InvAlways, PTL
=============================================================================
