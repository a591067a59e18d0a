-------------------------- MODULE MCSnapshotPipeline --------------------------
(* Instances of SnapshotPipeline and of NotebookPage for TLC.  The notebooks   *)
(* of the repository are model values that may be exchanged; the cells whose   *)
(* pages are compared differ in each thing the renderers look at or leave out. *)
EXTENDS SnapshotPipeline, TLC

Symmetry == Permutations(Notebooks)

Text(lines, ends) == [lines |-> lines, ends |-> ends]
Line  == Text(<<"x">>, FALSE)
OtherText == Text(<<"x", "y">>, FALSE)

Cell(type, source, outputs, churn) ==
  [cell_type |-> type, source |-> source, outputs |-> outputs, churn |-> churn]
Output(type, text, images) ==
  [output_type |-> type, text |-> text, images |-> images, churn |-> 0]
Image(type, data) == [mime |-> type, data |-> data]

Png(data) == Output("display_data", Line, <<Image("image/png", data)>>)
Both      == Output("execute_result", Line, <<Image("image/gif", 1), Image("image/svg+xml", 1)>>)
Unknown   == Output("update_display_data", EmptyText, <<Image("image/png", 1)>>)

MCSampleCells ==
  { Cell("code", Line, <<>>, 0), Cell("code", Line, <<>>, 1),
    Cell("code", Text(<<"x">>, TRUE), <<>>, 0),
    Cell("markdown", Line, <<>>, 0), Cell("markdown", OtherText, <<>>, 0),
    Cell("code", EmptyText, <<>>, 0), Cell("code", Text(<<"">>, TRUE), <<>>, 0),
    Cell("code", Line, <<Output("stream", Line, <<>>)>>, 0),
    Cell("code", Line, <<Output("error", Line, <<>>), Png(1)>>, 0),
    Cell("code", Line, <<Png(2)>>, 0), Cell("code", OtherText, <<Png(1)>>, 0),
    Cell("code", Line, <<Both, Unknown>>, 0),
    Cell("code", EmptyText, <<Unknown>>, 0) }
=============================================================================
