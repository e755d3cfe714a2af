---------------------------- MODULE MCControlPlane ----------------------------
(* Rules on their way from an operator to an agent, and the control plane's    *)
(* other dealings with operators and agents.  The components share no          *)
(* variable: `part' says which one a behaviour is about, the others stay where *)
(* they start.                                                                 *)
EXTENDS RuleSync, RuleAdmin, PathTemplate, AgentView, PendingRequests, StorageSelfCheck,
        Sessions

CONSTANTS Small, Large

VARIABLE part

MCContent == {Small, Large}
MCSize == [c \in {Small, Large, Off} |-> IF c = Large THEN 2 ELSE 1]

MCBody(a, m, s, e) == [append |-> a, mode |-> m, size |-> s, enabled |-> e]
MCRuleBody == {MCBody("overwrite", "watch", 1, TRUE), MCBody("overwrite", "scheduled", 1, FALSE),
               MCBody("tail", "watch", 1, TRUE), MCBody(" TAIL", "watch", 1, TRUE),
               MCBody("overwrite", "poll", 3, TRUE)}

MCStr == [kind |-> "str", width |-> 0, zone |-> 0, format |-> <<>>]
MCStr2 == [MCStr EXCEPT !.width = 2]
MCNum == [MCStr EXCEPT !.kind = "int"]
MCNum2 == [MCNum EXCEPT !.width = 2]
MCTime(f, z) == [kind |-> "time", width |-> 0, zone |-> z, format |-> f]
MCPattern == {
  <<Field("a", MCStr), Lit("-"), Field("n", MCNum2)>>,
  <<Field("a", MCStr), Lit("/"), Field("b", MCStr)>>,
  <<Lit("*")>>,
  <<Field("time", MCTime(<<"D", "-", "H">>, 1))>>,
  <<Field("a", MCStr2), Field("n", MCNum)>>,
  <<Field("submit_time", MCTime(<<"D">>, 0)), Lit("/"), Field("time", MCTime(<<"D">>, 0))>>,
  <<Field("a", [MCStr EXCEPT !.zone = 1])>>,
  <<Field("time", MCStr)>>,
  <<Lit("x"), [is |-> "brace"]>>}
MCDest == {
  <<Lit("/"), Lit("/"), Field("agent_name", MCStr), Lit("/"),
    Field("time", MCTime(<<"D", "H">>, 0)), Lit("/"), Field("filename", MCStr)>>,
  <<Lit("/"), Field("a", MCStr), Lit("/"), Field("n", MCNum2)>>,
  <<Field("a", MCStr), Lit("-"), Field("b", MCStr)>>,
  <<Field("submit_time", MCTime(<<"D">>, 1)), Lit("/"), Field("n", MCNum), Lit("/"),
    Field("a", MCStr2)>>,
  <<Field("ext", MCStr)>>,
  <<Field("filename", MCStr), Lit("/"), Field("filename", MCStr2)>>,
  <<Field("submit_time", MCStr)>>,
  <<Field("filename", MCTime(<<>>, 0))>>,
  <<Lit("x"), Lit("/"), [is |-> "brace"]>>}
MCDir == <<"d">>
MCBase == {[base |-> <<MCDir>>, cron |-> FALSE], [base |-> <<MCDir, <<"{D}">>>>, cron |-> TRUE]}
MCPathRule == {[base |-> b.base, cron |-> b.cron, pattern |-> p, dest |-> d] :
                 b \in MCBase, p \in MCPattern, d \in MCDest}
MCName == {<<"x", "-", "1", "2">>, <<"x", ".", "y">>, <<"1", "-", "0">>, <<"x", "x", "7">>, <<"1">>}
MCFile == {<<MCDir, n>> : n \in MCName} \cup {<<MCDir, <<"1">>, n>> : n \in MCName}
MCAgent == <<"g">>

ControlPlaneInit ==
  /\ part \in {"rulesync", "rules", "paths", "agents", "requests", "selfcheck", "sessions"}
  /\ RuleInit /\ AdmInit /\ PathInit /\ ViewInit /\ PendInit /\ CheckInit /\ SesInit

ControlPlaneNext ==
  /\ UNCHANGED part
  /\ \/ part = "rulesync" /\ RuleNext
        /\ UNCHANGED <<admVars, pathVars, viewVars, pendVars, checkVars, sesVars>>
     \/ part = "rules" /\ AdmNext
        /\ UNCHANGED <<ruleVars, pathVars, viewVars, pendVars, checkVars, sesVars>>
     \/ part = "paths" /\ PathNext
        /\ UNCHANGED <<ruleVars, admVars, viewVars, pendVars, checkVars, sesVars>>
     \/ part = "agents" /\ ViewNext
        /\ UNCHANGED <<ruleVars, admVars, pathVars, pendVars, checkVars, sesVars>>
     \/ part = "requests" /\ PendNext
        /\ UNCHANGED <<ruleVars, admVars, pathVars, viewVars, checkVars, sesVars>>
     \/ part = "selfcheck" /\ (CheckStep \/ ParentCancelled)
        /\ UNCHANGED <<ruleVars, admVars, pathVars, viewVars, pendVars, sesVars>>
     \/ part = "sessions" /\ SesNext
        /\ UNCHANGED <<ruleVars, admVars, pathVars, viewVars, pendVars, checkVars>>


ControlPlaneSpec ==
  /\ ControlPlaneInit /\ [][ControlPlaneNext]_<<part, ruleVars, admVars, pathVars, viewVars, pendVars, checkVars, sesVars>>
===============================================================================
