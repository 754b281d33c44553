----------------------------- MODULE Traversal -----------------------------
(***************************************************************************)
(* What a directory walk promises, independent of the image format.        *)
(*                                                                         *)
(* A walk holds a queue of directory extents still to be read (frontier),  *)
(* the set of extents it has read (explored) and the set of extents it was *)
(* ever told about (discovered).  It reads one extent at a time, at most   *)
(* once each, and may learn about more extents while it does.  It ends     *)
(* "complete" only with nothing left to read; it may also give up, saying  *)
(* so ("partial": cancelled or stopped at a limit), or "failed".           *)
(*                                                                         *)
(* IsoCatalog and UdfCatalog implement this specification.                 *)
(***************************************************************************)
EXTENDS Naturals, Sequences

CONSTANT Extent          \* the keys under which a directory counts as read

VARIABLES
    stage,               \* "selecting", "walking", "complete", "partial", "failed"
    frontier,            \* the queue of extents to read, oldest first
    explored,            \* the extents read
    discovered           \* the extents ever queued

vars == <<stage, frontier, explored, discovered>>

Stages == {"selecting", "walking", "complete", "partial", "failed"}

TypeOK ==
    /\ stage \in Stages
    /\ frontier \in Seq(Extent)
    /\ explored \subseteq Extent
    /\ discovered \subseteq Extent

Init ==
    /\ stage = "selecting"
    /\ frontier = <<>>
    /\ explored = {}
    /\ discovered = {}

\* The walk starts from one root directory.
Choose ==
    /\ stage = "selecting"
    /\ stage' = "walking"
    /\ frontier' # <<>>
    /\ LET e == Head(frontier')
       IN  e \in Extent /\ frontier' = <<e>> /\ discovered' = {e}
    /\ UNCHANGED explored

\* The oldest queued extent is read for the first time.
Explore ==
    /\ stage = "walking"
    /\ frontier # <<>>
    /\ Head(frontier) \notin explored
    /\ explored' = explored \cup {Head(frontier)}
    /\ frontier' = Tail(frontier)
    /\ UNCHANGED <<stage, discovered>>

\* The oldest queued extent was read before: it is dropped.
Revisit ==
    /\ stage = "walking"
    /\ frontier # <<>>
    /\ Head(frontier) \in explored
    /\ frontier' = Tail(frontier)
    /\ UNCHANGED <<stage, explored, discovered>>

\* The directory being read names a subdirectory, which is queued last.
Discover ==
    /\ stage = "walking"
    /\ frontier' # <<>>
    /\ LET e == frontier'[Len(frontier')]
       IN  /\ e \in Extent
           /\ frontier' = Append(frontier, e)
           /\ discovered' = discovered \cup {e}
    /\ UNCHANGED <<stage, explored>>

\* Only an exhausted queue makes the listing complete.
Finish ==
    /\ stage = "walking"
    /\ frontier = <<>>
    /\ stage' = "complete"
    /\ UNCHANGED <<frontier, explored, discovered>>

\* Giving up says so, perhaps with the oldest extent just taken off the queue.
GiveUp ==
    /\ stage \in {"selecting", "walking"}
    /\ stage' \in {"partial", "failed"}
    /\ UNCHANGED discovered
    /\ \/ UNCHANGED <<frontier, explored>>
       \/ /\ frontier # <<>>
          /\ frontier' = Tail(frontier)
          /\ explored' \in {explored, explored \cup {Head(frontier)}}

Next == Choose \/ Explore \/ Revisit \/ Discover \/ Finish \/ GiveUp

Spec == Init /\ [][Next]_vars

-----------------------------------------------------------------------------
\* Every extent the walk was told about is read or still queued, until the
\* walk gives up.
NothingForgotten ==
    stage \in {"walking", "complete"} =>
        discovered = explored \cup {frontier[i] : i \in 1..Len(frontier)}

\* A listing that is called complete has read every directory it discovered.
CompleteMeansAllRead == stage = "complete" => discovered = explored
=============================================================================
