-------------------------- MODULE MCPortableUpdater --------------------------
(* Three releases, both platforms.                                           *)
EXTENDS PortableUpdater
=============================================================================
