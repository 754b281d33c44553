----------------------------- MODULE MCClaCheck -----------------------------
(* One pull request with five possible heads, commits read one per page.    *)
EXTENDS ClaCheck, TLC

CONSTANTS plain, mixed, unknown, joint, large

MCSha == {plain, mixed, unknown, joint, large}

C(number, author, coauthored) ==
    [sha |-> number, author |-> author, coauthored |-> coauthored]

MCCommitsOf ==
    (plain :> <<C(1, 2, FALSE), C(2, 2, FALSE)>>)
    @@ (mixed :> <<C(1, 2, FALSE), C(3, 3, FALSE)>>)
    @@ (unknown :> <<C(4, None, FALSE)>>)
    @@ (joint :> <<C(1, 2, FALSE), C(5, 2, TRUE), C(6, 1, FALSE)>>)
    @@ (large :> <<C(1, 2, FALSE), C(2, 2, FALSE), C(7, 2, FALSE), C(8, 1, FALSE)>>)

NoReviews == [s \in MCSha |-> None]

Accepting(accounts, reviews) ==
    [valid |-> TRUE, active |-> TRUE, accepted |-> accounts, reviews |-> reviews]

MCRecords ==
    {Accepting({2}, NoReviews),
     Accepting({2, 3}, NoReviews),
     Accepting({2}, [NoReviews EXCEPT ![unknown] = {2}, ![joint] = {1, 2}]),
     Accepting({2}, [NoReviews EXCEPT ![mixed] = {2, 3}, ![joint] = {2}]),
     [Accepting({}, NoReviews) EXCEPT !.active = FALSE],
     [Accepting({2}, NoReviews) EXCEPT !.valid = FALSE]}
=============================================================================
