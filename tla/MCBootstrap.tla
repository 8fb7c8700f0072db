---------------------------- MODULE MCBootstrap ----------------------------
(* Three default files with the configuration in the middle and two        *)
(* autostart entries, for TLC.                                              *)
EXTENDS Bootstrap
CONSTANTS agents, openclaw, skills, shell, browser
MCWalk == <<agents, openclaw, skills>>
MCDesktop == <<browser, shell>>
=============================================================================
