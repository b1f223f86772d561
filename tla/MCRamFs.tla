------------------------------ MODULE MCRamFs ------------------------------
(* Five nodes and directories that take two: directory na fills up, things  *)
(* are moved into it, and it is put below itself.                          *)
EXTENDS RamFs

CONSTANTS na, nb, nc

MCNames    == {na, nb, nc}
MCPaths    == {<<na>>, <<nb>>, <<na, na>>}
MCTargets  == {<<nb>>, <<na, nc>>}
MCContents == {<<>>, <<1>>, <<2, 3>>}
=============================================================================
