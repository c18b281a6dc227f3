------------------------------ MODULE MCFence ------------------------------
(***************************************************************************)
(* A small instance of Fence: one watched project and one that is not.     *)
(***************************************************************************)
EXTENDS Fence

MCProjects == {"guardkit", "jarvis"}
MCWatch == {"guardkit"}
NoLists == {}
EachCheck == {{"relay_idle"}, {"guardkit"}}
=============================================================================
