-------------------------- MODULE MCDoubleBuffered ---------------------------
(***************************************************************************)
(* DoubleBuffered with two panic hooks and four publications: a reader can *)
(* be overtaken by two of them, and the buffers are reused twice.          *)
(***************************************************************************)
EXTENDS DoubleBuffered

=============================================================================
