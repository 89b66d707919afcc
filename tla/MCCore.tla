------------------------------- MODULE MCCore -------------------------------
(***************************************************************************)
(* The memory engine and the fixpoint loop, for TLC: a behaviour is one of *)
(* either (`part` says which; the other rests).                            *)
(***************************************************************************)
EXTENDS MemStore, SemiNaive

VARIABLE part

-----------------------------------------------------------------------------
(* Walks of odd and of even length in every graph of three nodes:          *)
(*   odd[x, y]  := *edge[x, y]                     no rule atom             *)
(*   odd[x, z]  := even[x, y], *edge[y, z]         one rule atom            *)
(*   even[x, z] := odd[x, y], odd[y, z]            the same symbol twice    *)
(*   ?[x]       := odd[x, y], even[x, y], not blocked[x]                    *)

Node == 1..3
Edge == {<<"edge", x, y>> : x, y \in Node} \ {<<"edge", x, x>> : x \in Node}
MCGiven == Edge \cup {<<"blocked", 1>>}
MCSymb == {"odd", "even", "?"}
MCFact == ({"odd", "even"} \X Node \X Node) \cup ({"?"} \X Node)
MCRule == 1..4
MCHeadOf == <<"odd", "odd", "even", "?">>
MCBody == << <<>>, <<"even">>, <<"odd", "odd">>, <<"odd", "even">> >>
MCNegates == <<FALSE, FALSE, FALSE, TRUE>>

Ground(r, h, b, s, a) == [rule |-> r, head |-> h, body |-> b, stored |-> s, absent |-> a]
MCInst ==
    {Ground(1, <<"odd", e[2], e[3]>>, <<>>, {e}, {}) : e \in Edge}
    \cup {Ground(2, <<"odd", x, e[3]>>, << <<"even", x, e[2]>> >>, {e}, {}) :
             x \in Node, e \in Edge}
    \cup {Ground(3, <<"even", x, z>>, << <<"odd", x, y>>, <<"odd", y, z>> >>, {}, {}) :
             x, y, z \in Node}
    \cup {Ground(4, <<"?", x>>, << <<"odd", x, y>>, <<"even", x, y>> >>, {}, {<<"blocked", x>>} \cap MCGiven) :
             x, y \in Node}

\* The least model of the rows g by naive iteration.
Consequence(g, M) ==
    {i.head : i \in {j \in MCInst : /\ j.stored \subseteq g
                                   /\ j.absent \cap g = {}
                                   /\ \A n \in DOMAIN j.body : j.body[n] \in M}}
Naive(g) ==
    LET it[n \in Nat] == IF n = 0 THEN {} ELSE Consequence(g, it[n - 1])
        least == it[8]
    IN  [p \in MCSymb |-> {f \in least : f[1] = p}]
MCModel == {Naive(g) : g \in {Edge, MCGiven, {<<"edge", 1, 2>>, <<"edge", 2, 1>>}}}

-----------------------------------------------------------------------------

AtRest ==
    /\ given = {} /\ total = NoFacts /\ delta = NoFacts /\ useTotal = [p \in Symb |-> FALSE]
    /\ epoch = 0 /\ pending = {} /\ toMerge = NoFacts /\ status = "done"

CoreInit ==
    \/ part = "engine" /\ Init /\ AtRest
    \/ part = "evaluation" /\ Init /\ store = Unset /\ SemiInit

CoreNext ==
    /\ UNCHANGED part
    /\ \/ part = "engine" /\ Next /\ UNCHANGED semiVars
       \/ part = "evaluation" /\ SemiNext /\ UNCHANGED vars

CoreSpec == CoreInit /\ [][CoreNext]_<<part, vars, semiVars>> /\ Fairness

\* The stores at the end are the least model, computed by naive iteration.
NaiveAgrees == status = "done" => total = Naive(given)
=============================================================================
