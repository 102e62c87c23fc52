-------------------------- MODULE MCPatchLifecycle --------------------------
(***************************************************************************)
(* Small instances of PatchLifecycle for TLC.  Site 1 is the anchored code *)
(* site, site 2 code the signature does not cover, site 3 maintained data.*)
(***************************************************************************)
EXTENDS PatchLifecycle

FirstSite == {1}
LastSite == {3}

=============================================================================
