---- MODULE MCDataLayer ----
(* Instance of DataLayer for TLC: a day with a pause, or a longer break. *)
EXTENDS DataLayer

Pause == {4}
Break == {3, 4}
====
