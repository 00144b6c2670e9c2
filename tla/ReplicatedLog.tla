--------------------------- MODULE ReplicatedLog ---------------------------
(***************************************************************************)
(* What consensus promises the servers built on it: one sequence of chosen *)
(* entries that only grows, of which every replica knows a growing prefix. *)
(* An entry is chosen when some replica first knows it.                    *)
(***************************************************************************)
EXTENDS Naturals, Sequences

CONSTANT Replica

VARIABLES
    chosen,   \* the entries the system has committed to, in order
    known     \* known[r]: those replica r may apply

vars == <<chosen, known>>

StartsWith(s, t) == Len(t) <= Len(s) /\ SubSeq(s, 1, Len(t)) = t

Init ==
    /\ chosen = <<>>
    /\ known = [r \in Replica |-> <<>>]

\* Replica r extends the sequence, catching up with it if it was behind.
Choose(r) ==
    /\ Len(chosen') > Len(chosen) /\ StartsWith(chosen', chosen)
    /\ known' = [known EXCEPT ![r] = chosen']

Learn(r) ==
    /\ \E k \in Len(known[r])..Len(chosen) :
         known' = [known EXCEPT ![r] = SubSeq(chosen, 1, k)]
    /\ UNCHANGED chosen

Next == \E r \in Replica : Choose(r) \/ Learn(r)

Spec == Init /\ [][Next]_vars
=============================================================================
