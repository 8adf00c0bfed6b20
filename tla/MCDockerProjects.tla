-------------------------- MODULE MCDockerProjects --------------------------
(* Small instances of DockerProjects for TLC. *)
EXTENDS DockerProjects
=============================================================================
