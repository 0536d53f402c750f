---------------------------- MODULE MCSyncTable ----------------------------
(***************************************************************************)
(* Values for SyncTable: two of the six placeholders and two tasks.  Ranks *)
(* follow the alphabet; a dumped name begins with a quotation mark.  Rows  *)
(* have equal types, so that sorting meets ties.                           *)
(***************************************************************************)
EXTENDS SyncTable

MCNames == {"Module10", "Module8", "docs", "music"}

TwoTasks == {"docs", "music"}

\* As SyncTable.qml lists them; 0.7 is the constructor's for "module10".
MCPlaceholders == <<[name |-> "Module8", progress |-> 0], [name |-> "Module10", progress |-> 70]>>

MCText ==
    [name |-> [n \in MCNames |->
                  CASE n = "docs" -> 5
                    [] n = "Module10" -> 6
                    [] n = "Module8" -> 7
                    [] n = "music" -> 8],
     type |-> [n \in MCNames |-> IF n = "docs" THEN 2 ELSE 1]]

MCDumpText ==
    [n \in MCNames |->
        CASE n = "docs" -> 1
          [] n = "Module10" -> 2
          [] n = "Module8" -> 3
          [] n = "music" -> 4]

\* What the theorems of SyncTable_proofs ask of the names holds of these; TextOnly,
\* the third of their hypotheses, is what TextHeaders grants and AllHeaders does not.
ASSUME InstanceIsApart == PlaceholdersApart /\ NamesApart

TextHeaders == {"name", "type"}
AllHeaders == {"name", "type", "progress"}
=============================================================================
