-------------------------- MODULE MCSessionWriter --------------------------
(* Small instances of SessionWriter for TLC.                               *)
EXTENDS SessionWriter

const_Streams == {1, 2}
const_OneStream == {1}
=============================================================================
