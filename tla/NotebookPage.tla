---------------------------- MODULE NotebookPage ----------------------------
(***************************************************************************)
(* What the lab notebook shows of a notebook: the rich diff against the    *)
(* file at HEAD (notebook_diff.py), the readable page it is merged into    *)
(* (notebook_render.py), the figures that stand in for that page when the  *)
(* notebook file is left out (notebook_content.py), and which of a         *)
(* snapshot's pages shows what (delivery.py).  Functions of their input.   *)
(*                                                                         *)
(* A notebook is the sequence of its cells as they are in the file,        *)
(*   [cell_type, source, outputs, churn],                                  *)
(* and an output [output_type, text, images, churn], an image [mime, data]. *)
(* A text is its lines and whether a line end follows the last one.  Churn *)
(* is whatever else the file holds: ids, counts, metadata, HTML.  Markup,  *)
(* colours and the wording of titles are left out.                         *)
(***************************************************************************)
EXTENDS Naturals, Sequences, FiniteSets, SequencesExt

CONSTANTS
  SampleCells,   (* bound: the cells of the notebooks that are compared     *)
  MaxCells,      (* bound: how many cells they have                         *)
  Nothing        (* no cell, no diff, no page                               *)

ASSUME PageAssumption ==
  /\ MaxCells \in Nat
  /\ Nothing \notin SampleCells
  /\ \A cell \in SampleCells : IsFiniteSet(DOMAIN cell.outputs)

EmptyText    == [lines |-> <<>>, ends |-> FALSE]
KnownOutputs == {"stream", "display_data", "execute_result", "error"}
RichOutputs  == {"display_data", "execute_result"}

----------------------------------------------------------------------------
(* Normalisation: what the two renderers see of a cell.                    *)

\* An output without its churn: images are read from display data only, and of an
\* unknown type only the label is.
NormalizedOutput(o) ==
  [ output_type |-> o.output_type,
    text   |-> IF o.output_type \in KnownOutputs THEN o.text ELSE EmptyText,
    images |-> IF o.output_type \in RichOutputs THEN o.images ELSE <<>> ]

\* The diff leaves out outputs of unknown types, the page does not.
NormalizedOutputs(outputs) ==
  LET known  == {i \in DOMAIN outputs : outputs[i].output_type \in KnownOutputs}
      nth(n) == CHOOSE i \in known : Cardinality({k \in known : k <= i}) = n
  IN [n \in 1 .. Cardinality(known) |-> NormalizedOutput(outputs[nth(n)])]

NormalizedCell(cell) ==
  [ cell_type |-> cell.cell_type, source |-> cell.source,
    outputs |-> NormalizedOutputs(cell.outputs) ]

\* What makes two cells the same: images only by their types.
OutputKey(o) ==
  [ output_type |-> o.output_type, text |-> o.text,
    mimes |-> [i \in DOMAIN o.images |-> o.images[i].mime] ]
ComparisonKey(cell) ==
  [ cell_type |-> cell.cell_type, source |-> cell.source,
    outputs |-> [i \in DOMAIN cell.outputs |-> OutputKey(cell.outputs[i])] ]

\* str.strip() leaves nothing.
Blank(text) == \A i \in DOMAIN text.lines : text.lines[i] = ""

IsEmptyCell(cell) == Blank(cell.source) /\ cell.outputs = <<>>

\* Mutant: an empty cell hides all that come after it.
Kept_UpToFirstEmpty(cells) ==
  CHOOSE n \in 0 .. Len(cells) :
    /\ n < Len(cells) => IsEmptyCell(cells[n + 1])
    /\ \A i \in 1 .. n : ~IsEmptyCell(cells[i])

\* The number of cells up to the last one that is not empty.
Kept(cells) ==
  CHOOSE n \in 0 .. Len(cells) :
    /\ n > 0 => ~IsEmptyCell(cells[n])
    /\ \A i \in n + 1 .. Len(cells) : IsEmptyCell(cells[i])

WithoutTrailingEmptyCells(cells) == SubSeq(cells, 1, Kept(cells))

\* The cells the diff compares.
Compared(notebook) ==
  WithoutTrailingEmptyCells([i \in DOMAIN notebook |-> NormalizedCell(notebook[i])])

----------------------------------------------------------------------------
(* The diff, position by position.                                         *)

CellAt(cells, i) == IF i \in DOMAIN cells THEN cells[i] ELSE Nothing

CellStatus(before, after) ==
  CASE before = Nothing -> "added"
    [] after = Nothing  -> "removed"
    [] OTHER -> IF ComparisonKey(before) # ComparisonKey(after) THEN "changed" ELSE "unchanged"

SourceLines(cell) ==
  CASE cell = Nothing            -> <<>>
    [] cell.source.lines = <<>>  -> <<"">>
    [] OTHER                     -> cell.source.lines

\* An output's label, the lines of its text, a line for each image.
OutputLines(o) ==
  <<o.output_type>> \o o.text.lines \o [i \in DOMAIN o.images |-> o.images[i].mime]

OutputsLines(outputs) == FlattenSeq([i \in DOMAIN outputs |-> OutputLines(outputs[i])])

\* unified_diff, which has no lines when the two are equal.
NoChanges == [HEAD |-> <<>>, snapshot |-> <<>>]
LineDiff(before, after) ==
  IF before = after THEN NoChanges ELSE [HEAD |-> before, snapshot |-> after]

OutputDiff(before, after) ==
  LET was == OutputsLines(before.outputs)
      is  == OutputsLines(after.outputs)
  IN IF was = is THEN Nothing ELSE LineDiff(was, is)

\* One entry of the diff, with the section it is shown as when it stands alone.
Entry(before, after) ==
  LET status == CellStatus(before, after)
      cell   == IF after # Nothing THEN after ELSE before
      source == IF status # "unchanged"
                THEN LineDiff(SourceLines(before), SourceLines(after)) ELSE Nothing
      output == IF status = "changed" THEN OutputDiff(before, after) ELSE Nothing
  IN [ status |-> status, source_diff |-> source, output_diff |-> output,
       html |-> [ title |-> status, outputs |-> cell.outputs, output_diff |-> output,
                  source |-> IF status = "unchanged" THEN cell.source ELSE source ] ]

LongerOf(a, b) == IF Len(a) > Len(b) THEN a ELSE b

\* None when no cell has changed.
RenderNotebookDiff(before, after) ==
  LET was == Compared(before)
      is  == Compared(after)
      entries == [i \in DOMAIN LongerOf(was, is) |-> Entry(CellAt(was, i), CellAt(is, i))]
  IN IF \A i \in DOMAIN entries : entries[i].status = "unchanged" THEN Nothing ELSE entries

\* Against the file at HEAD; none if HEAD has none.
NotebookDiff(head, notebook) ==
  IF head = Nothing THEN Nothing ELSE RenderNotebookDiff(head, notebook)

----------------------------------------------------------------------------
(* The readable page.                                                      *)

\* In place of the source of an added or changed cell the page shows its diff.
SourceShown(cell, entry) ==
  IF entry # Nothing /\ entry.status \in {"added", "changed"}
  THEN entry.source_diff ELSE cell.source

OutputDiffShown(cell, entry) ==
  IF cell.cell_type = "code" /\ entry # Nothing /\ entry.status = "changed"
  THEN entry.output_diff ELSE Nothing

\* A section of the page; only code cells have outputs there.
RenderCell(cell, entry) ==
  [ title |-> IF entry # Nothing /\ entry.status \in {"added", "changed"}
              THEN entry.status ELSE "unchanged",
    source |-> SourceShown(cell, entry),
    outputs |-> IF cell.cell_type = "code"
                THEN [i \in DOMAIN cell.outputs |-> NormalizedOutput(cell.outputs[i])] ELSE <<>>,
    output_diff |-> OutputDiffShown(cell, entry) ]

\* A cell that was removed is shown as it is in the diff, in the place of whatever
\* empty cell the snapshot has there.
RenderNotebookHtml(notebook, diff) ==
  IF diff = Nothing
  THEN [i \in DOMAIN notebook |-> RenderCell(notebook[i], Nothing)]
  ELSE [i \in DOMAIN LongerOf(notebook, diff) |->
          LET entry == CellAt(diff, i) IN
          IF i \notin DOMAIN notebook \/ (entry # Nothing /\ entry.status = "removed")
          THEN entry.html ELSE RenderCell(notebook[i], entry)]

----------------------------------------------------------------------------
(* The pages of a snapshot.                                                *)

FigureTypes == <<"image/png", "image/jpeg", "image/svg+xml">>

\* The first image of an output that can be a figure, in the order of FigureTypes.
FigureOf(o) ==
  LET found == {k \in DOMAIN FigureTypes :
                  \E i \in DOMAIN o.images : o.images[i].mime = FigureTypes[k]}
  IN IF found = {} THEN Nothing
     ELSE CHOOSE image \in {o.images[i] : i \in DOMAIN o.images} :
            image.mime = FigureTypes[CHOOSE k \in found : \A l \in found : k <= l]

\* Of any output of any cell; the figures are numbered in this order.
ExtractFigures(notebook) ==
  UNION {{[cell |-> c, output |-> i, figure |-> FigureOf(notebook[c].outputs[i])] :
            i \in {k \in DOMAIN notebook[c].outputs : FigureOf(notebook[c].outputs[k]) # Nothing}} :
         c \in DOMAIN notebook}

\* The pages of a snapshot that show its notebook, with and without the file.
SnapshotPages(notebook, diff, include) ==
  [ notebook |-> IF include THEN RenderNotebookHtml(notebook, diff) ELSE Nothing,
    diff     |-> IF include \/ diff = Nothing THEN Nothing ELSE [i \in DOMAIN diff |-> diff[i].html],
    figures  |-> IF include THEN {} ELSE ExtractFigures(notebook) ]

----------------------------------------------------------------------------
(* What a reader of the pages can rely on.                                 *)

SampleNotebooks == UNION {[1 .. n -> SampleCells] : n \in 0 .. MaxCells}

\* What there is to compare at a position: its cell, as long as a cell that is not
\* empty is there or comes after it.
ReadAt(notebook, i) ==
  IF \E k \in i .. Len(notebook) : ~IsEmptyCell(NormalizedCell(notebook[k]))
  THEN NormalizedCell(notebook[i]) ELSE Nothing

SameAt(before, after, i) ==
  LET b == ReadAt(before, i)
      a == ReadAt(after, i)
  IN IF b = Nothing \/ a = Nothing THEN b = a ELSE ComparisonKey(b) = ComparisonKey(a)

Alike(before, after) ==
  \A i \in DOMAIN before \union DOMAIN after : SameAt(before, after, i)

\* Wherever the lines of a cell, or of the outputs it shows, differ from HEAD's, the
\* section of that cell has their diff; where nothing differs it has the cell.
ChangesShown(before, after, shown, include) ==
  \A i \in DOMAIN before \union DOMAIN after :
    LET b == ReadAt(before, i)
        a == ReadAt(after, i) IN
    /\ SourceLines(b) # SourceLines(a) =>
         shown[i].source = LineDiff(SourceLines(b), SourceLines(a))
    /\ b # Nothing /\ SameAt(before, after, i) => shown[i].source = a.source
    /\ b # Nothing /\ a # Nothing =>
         LET old == OutputsLines(b.outputs)
             new == OutputsLines(a.outputs) IN
         old # new /\ (include => a.cell_type = "code") =>
           shown[i].output_diff = LineDiff(old, new)

\* Every figure of a code cell is inline on the notebook's page or a page of its own.
FiguresShown(notebook, snapshot) ==
  \A c \in DOMAIN notebook : \A i \in DOMAIN notebook[c].outputs :
    LET o == notebook[c].outputs[i] IN
    o.output_type \in RichOutputs /\ notebook[c].cell_type = "code" /\ FigureOf(o) # Nothing =>
      IF snapshot.notebook # Nothing
      THEN snapshot.notebook[c].outputs[i].images = o.images
      ELSE [cell |-> c, output |-> i, figure |-> FigureOf(o)] \in snapshot.figures

\* The diff is there exactly when something a reader sees has changed, it is on one page,
\* it covers every cell before and after in its place, and no picture is lost to it.
TellsChanges(head, after, include) ==
  LET diff     == NotebookDiff(head, after)
      snapshot == SnapshotPages(after, diff, include)
      shown    == IF include THEN snapshot.notebook ELSE snapshot.diff IN
  /\ (diff = Nothing) = (head = Nothing \/ Alike(head, after))
  /\ include => snapshot.diff = Nothing
  /\ diff # Nothing => ChangesShown(head, after, shown, include)
  /\ FiguresShown(after, snapshot)

\* Whatever the notebook was at HEAD and is in the snapshot.
EveryPageTells ==
  \A head \in SampleNotebooks \union {Nothing}, after \in SampleNotebooks, include \in BOOLEAN :
    TellsChanges(head, after, include)
=============================================================================
