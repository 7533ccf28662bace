------------------------------ MODULE MCDashPages ------------------------------
(* The pages for TLC: what can be asked on them.                           *)
EXTENDS DashPages

MCQuestions == [kind : {"delete", "setip", "removeip"}, id : Clients] \cup SettingQuestions
=============================================================================
