------------------------------ MODULE MCLaunch ------------------------------
(* The command lines of each run. *)
EXTENDS Launch

Good == {l \in Line : l.in \cup l.out \cup l.missing \subseteq 1..l.n /\ l.badin \cup l.badout = {}
                     /\ (l.n = 1 => l.missing = {})}
Foreground == {l \in Good : l.bg = 0 /\ Cardinality(l.in) + Cardinality(l.out) <= 2}
BgPlain == {l \in Good : l.bg = 1 /\ l.n = 1 /\ l.in \cup l.out = {}}
BgPipeline == {l \in Good : l.bg = 1 /\ l.n = 2 /\ l.in \cup l.out \cup l.missing = {}}
BadLastFile == {l \in Line : /\ l.bg = 0 /\ l.missing = {} /\ l.in \subseteq {l.n}
                             /\ l.out = {l.n} /\ l.badin = {} /\ l.badout = {l.n}}
BadLastInput == {l \in Line : /\ l.bg = 0 /\ l.missing = {} /\ l.in = {l.n}
                              /\ l.out \subseteq 1..l.n /\ l.badin = {l.n} /\ l.badout = {}}
Working == Foreground \cup BadLastFile \cup BadLastInput \cup BgPlain
BadSecondFile == {[n |-> 2, bg |-> 0, in |-> {2}, out |-> {1, 2}, missing |-> {},
                   badin |-> {}, badout |-> {2}]}
=============================================================================
