---------------------------- MODULE BoundedCopy ----------------------------
(***************************************************************************)
(* What streaming a file to a sink promises: whatever happens, the sink    *)
(* holds a prefix of the file, and the copy is "complete" only when it     *)
(* holds the whole of it.  FileStream implements this specification.       *)
(***************************************************************************)
EXTENDS Naturals, Sequences

CONSTANT Byte

VARIABLES
    content,   \* the bytes of the file, fixed
    sink,      \* the bytes the caller's writer has taken
    outcome    \* "running", "complete", "cancelled" or "failed"

vars == <<content, sink, outcome>>

Outcomes == {"running", "complete", "cancelled", "failed"}

Prefix(s, t) == Len(s) <= Len(t) /\ \A i \in 1..Len(s) : s[i] = t[i]

Init ==
    /\ content \in Seq(Byte)
    /\ sink = <<>>
    /\ outcome = "running"

\* Delivered bytes are never taken back or changed.
Extends == Prefix(sink, sink') /\ Prefix(sink', content)

Deliver ==
    /\ outcome = "running"
    /\ Extends
    /\ UNCHANGED <<content, outcome>>

Complete ==
    /\ outcome = "running"
    /\ sink = content
    /\ outcome' = "complete"
    /\ UNCHANGED <<content, sink>>

Stop ==
    /\ outcome = "running"
    /\ Extends
    /\ outcome' \in {"cancelled", "failed"}
    /\ UNCHANGED content

Next == Deliver \/ Complete \/ Stop

Spec == Init /\ [][Next]_vars

-----------------------------------------------------------------------------
\* The sink holds a prefix of the file, and all of it when the copy completes.
FaithfulPrefix ==
    /\ Prefix(sink, content)
    /\ outcome = "complete" => sink = content
=============================================================================
