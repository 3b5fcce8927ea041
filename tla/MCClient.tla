------------------------------ MODULE MCClient ------------------------------
(* Small instances of Client: samples of two widths.                         *)
EXTENDS Client

\* The lengths of two samples differ by what a backlog row can spare (its
\* four decimals and one newline less than a live packet), or by more.
CloseWidths == {16, 21}
WideWidths  == {16, 23}

=============================================================================
