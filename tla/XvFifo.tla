-------------------------------- MODULE XvFifo --------------------------------
(***************************************************************************)
(* What a thread that hands work to another thread's loop is promised:     *)
(* every item is handled, once, in the order in which the items were put.  *)
(***************************************************************************)
EXTENDS Naturals, Sequences

CONSTANT Producers

VARIABLES
    q,      \* the items put and not yet handled
    put,    \* put[p]: how many items producer p has put
    last    \* the item handled last

vars == <<q, put, last>>

(* The k-th item of producer p is the pair <<p, k>>. *)
Nothing == << >>

Init ==
    /\ q = << >>
    /\ put = [p \in Producers |-> 0]
    /\ last = Nothing

Put(p) ==
    /\ put' = [put EXCEPT ![p] = put[p] + 1]
    /\ q' = Append(q, <<p, put[p] + 1>>)
    /\ UNCHANGED last

Get ==
    /\ q # << >>
    /\ last' = Head(q)
    /\ q' = Tail(q)
    /\ UNCHANGED put

Next == Get \/ \E p \in Producers : Put(p)

Ordered == Init /\ [][Next]_vars

Spec == Ordered /\ WF_vars(Get)

=============================================================================
