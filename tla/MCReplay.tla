------------------------------ MODULE MCReplay ------------------------------
(* Replay of short runs that read and edit, their calls through one or two *)
(* adapters.                                                               *)
EXTENDS Replay

MCModifying == {<<"edit", "done">>}
=============================================================================
