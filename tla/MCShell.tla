------------------------------ MODULE MCShell ------------------------------
(***************************************************************************)
(* One instance of every part of the c-shell.  A behavior runs one part:   *)
(* they share no state that two of their properties speak of, so that the  *)
(* product of their states would show nothing that the sum does not.       *)
(***************************************************************************)
EXTENDS MCShellJobs, ShellText, Peek, Hop, Lookup, Snoop

\* Quotes, escapes and redirections; then operators and redirections.
TwoAlphabets == {{"a", " ", "\\", "\"", "'", ">"}, {"a", " ", "|", "&", ";", ">", "<"}}

Texts(n) == UNION {[1..k -> {"a", NL}] : k \in 0..n}
Sources(n) == [kind : {"file", "stdin"}, data : Texts(n)]
Missing == [kind |-> "missing", data |-> <<>>]
OneOrTwoSources ==
  {<<x>> : x \in Sources(5)} \cup {<<x, y>> : x \in Sources(2) \cup {Missing}, y \in Sources(2)}

ThreeDirs == {"h", "x", "y"}
AllInHome == [d \in ThreeDirs |-> "h"]
\* Names that are the directory x, match every path but are none, are y.
NamesTyped == {[dir |-> "x", within |-> {"x"}], [dir |-> NoDir, within |-> ThreeDirs],
               [dir |-> "y", within |-> {"y"}]}

ThreePlaces == {"x", "y", "z"}
SubdirOf == [d \in ThreePlaces |-> IF d = "x" THEN "y" ELSE "z"]

Parts == {"jobs", "text", "peek", "hop", "lookup", "snoop"}

VARIABLE part

shellVars == <<vars, textVars, peekVars, hopVars, lookupVars, snoopVars, part>>

ShellInit ==
  /\ part \in Parts
  /\ Init /\ TextInit /\ PeekInit /\ HopInit /\ LookupInit /\ SnoopInit

ShellNext ==
  /\ UNCHANGED part
  /\ \/ /\ part = "jobs" /\ Next
        /\ UNCHANGED <<textVars, peekVars, hopVars, lookupVars, snoopVars>>
     \/ /\ part = "text" /\ TypeChar
        /\ UNCHANGED <<vars, peekVars, hopVars, lookupVars, snoopVars>>
     \/ /\ part = "peek" /\ PeekNext
        /\ UNCHANGED <<vars, textVars, hopVars, lookupVars, snoopVars>>
     \/ /\ part = "hop" /\ HopNext
        /\ UNCHANGED <<vars, textVars, peekVars, lookupVars, snoopVars>>
     \/ /\ part = "lookup" /\ LookupNext
        /\ UNCHANGED <<vars, textVars, peekVars, hopVars, snoopVars>>
     \/ /\ part = "snoop" /\ SnoopNext
        /\ UNCHANGED <<vars, textVars, peekVars, hopVars, lookupVars>>

\* The fairness of job control, for the behaviors that run it.
ShellFairness == WF_vars(part = "jobs" /\ Delivery) /\ WF_vars(part = "jobs" /\ Runs)

ShellSpec == ShellInit /\ [][ShellNext]_shellVars /\ ShellFairness
============================================================================
