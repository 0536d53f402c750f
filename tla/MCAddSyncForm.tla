--------------------------- MODULE MCAddSyncForm ---------------------------
(***************************************************************************)
(* Values for AddSyncForm: two folders on drives and one on the network,   *)
(* whose path loses its beginning, and two tasks to edit: one made with    *)
(* the form's own texts, and a cloud task whose type the list does not     *)
(* have in lower case, and whose source is not on this computer.           *)
(***************************************************************************)
EXTENDS AddSyncForm

MCFolders == {"C", "D", "//nas"}

MCPath == [f \in MCFolders |-> IF f = "//nas" THEN "s" ELSE f]

TwoRows ==
    {[name |-> "photos", source |-> "C", destination |-> "D", type |-> "Local", direction |-> "One-way"],
     [name |-> "mail", source |-> "cloud", destination |-> "D", type |-> "cloud", direction |-> "One-way"]}
=============================================================================
