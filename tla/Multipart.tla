------------------------------- MODULE Multipart -------------------------------
(***************************************************************************)
(* The parser of a posted multipart form, one byte at a time: a byte that  *)
(* may belong to a delimiter is held back in the state, and written if the *)
(* delimiter does not go on.  The lines of the head of a part are bytes    *)
(* too: "D" names a field, "F" a file, "T" gives a type.                   *)
(***************************************************************************)
EXTENDS Integers, Sequences, SequencesExt

CONSTANTS
  boundary,     \* the boundary, bytes that are neither "r", "n" nor "-"
  BUFFER        \* bytes of a file that are handed over at once, 1460 in the code

ASSUME MultipartAssumption == Len(boundary) > 0 /\ BUFFER \in Nat \ {0}

NewForm == [state |-> "boundary", temp |-> <<>>, isFile |-> FALSE, value |-> <<>>,
            size |-> 0, buffer |-> <<>>, uploaded |-> <<>>, position |-> 0, parts |-> <<>>]

State(f, s) == [f EXCEPT !.state = s]
--------------------------------------------------------------------------------
\* handleUpload: the handler appends what it is given, at the index it is given.
Upload(f) ==
  [f EXCEPT !.buffer = <<>>,
            !.uploaded = SubSeq(@, 1, f.size - Len(f.buffer)) \o f.buffer]

\* A full buffer is handed over, and what there is when the packet ends.
_handleUploadByte(f, b, last) ==
  LET g == [f EXCEPT !.buffer = Append(@, b)]
  IN IF last \/ Len(g.buffer) = BUFFER THEN Upload(g) ELSE g

itemWriteByte(f, b, last) ==
  LET g == [f EXCEPT !.size = @ + 1]
  IN IF f.isFile THEN _handleUploadByte(g, b, last) ELSE [g EXCEPT !.value = Append(@, b)]

Data(f, b, last) == IF b # "r" THEN itemWriteByte(f, b, last) ELSE State(f, "feed1")

\* Mutant: what was held back is dropped.
NotDelimiter_Dropped(f, held, b, last) == Data(State(f, "data"), b, last)

\* It was no delimiter: what was held back is written, and b is looked at again.
NotDelimiter(f, held, b, last) ==
  LET Write(g, x) == itemWriteByte(g, x, last)
  IN Data(FoldLeft(Write, State(f, "data"), held), b, last)
--------------------------------------------------------------------------------
\* The first delimiter; p is the position of the byte in the body.
FirstBoundary(f, b, p) ==
  LET expected == <<"-", "-">> \o boundary \o <<"r", "n">>
  IN IF b # expected[p + 1] THEN State(f, "error")
     ELSE IF p + 1 = Len(expected) THEN [State(f, "headers") EXCEPT !.isFile = FALSE]
     ELSE f

\* An empty line ends the head; a file then needs a buffer.
Header(f, b, heap) ==
  IF b # "n" THEN (IF b = "r" THEN f ELSE [f EXCEPT !.temp = Append(@, b)])
  ELSE IF f.temp # <<>>
  THEN [f EXCEPT !.isFile = @ \/ f.temp \in {<<"T">>, <<"F">>}, !.temp = <<>>]
  ELSE IF f.isFile /\ heap = "malloc" THEN State(f, "error")
  ELSE [State(f, "data") EXCEPT !.size = 0, !.value = <<>>, !.buffer = <<>>, !.uploaded = <<>>]

\* The end of a part: a text, or a file that is not empty.
EndOfPart(f) ==
  IF ~f.isFile THEN [f EXCEPT !.parts = Append(@, f.value)]
  ELSE IF f.size = 0 THEN [f EXCEPT !.buffer = <<>>]
  ELSE [Upload(f) EXCEPT !.parts = Append(@, Upload(f).uploaded)]

BoundaryOrData(f, b, last) ==
  IF boundary[f.position + 1] # b
  THEN NotDelimiter(f, <<"r", "n", "-", "-">> \o SubSeq(boundary, 1, f.position), b, last)
  ELSE IF f.position = Len(boundary) - 1 THEN EndOfPart(State(f, "dash3"))
  ELSE [f EXCEPT !.position = @ + 1]

\* After a delimiter: the next part, or the end of the body, which is moved to
\* where the parser is.
Dash3OrReturn2(c, f, b, last) ==
  IF b = "-" THEN [c EXCEPT !.contentLength = c.parsedLength + 4, !.form = State(f, "finished")]
  ELSE [c EXCEPT !.form = IF b = "r" THEN State(f, "feed2")
                          ELSE NotDelimiter(f, <<"r", "n", "-", "-">> \o boundary, b, last)]

_parseMultipartPostByte(c, b, last) ==
  LET f == IF c.parsedLength = 0 THEN NewForm ELSE c.form
      To(g) == [c EXCEPT !.form = g]
      Expect(x, next, held) ==
        To(IF b = x THEN State(f, next) ELSE NotDelimiter(f, held, b, last))
  IN CASE f.state = "data"     -> To(Data(f, b, last))
       [] f.state = "boundary" -> To(FirstBoundary(f, b, c.parsedLength))
       [] f.state = "headers"  -> To(Header(f, b, c.heap))
       [] f.state = "feed1"    -> Expect("n", "dash1", <<"r">>)
       [] f.state = "dash1"    -> Expect("-", "dash2", <<"r", "n">>)
       [] f.state = "dash2"    ->
            To(IF b = "-" THEN [State(f, "second") EXCEPT !.position = 0]
               ELSE NotDelimiter(f, <<"r", "n", "-">>, b, last))
       [] f.state = "second"   -> To(BoundaryOrData(f, b, last))
       [] f.state = "dash3"    -> Dash3OrReturn2(c, f, b, last)
       [] f.state = "feed2"    ->
            To(IF b = "n" THEN [State(f, "headers") EXCEPT !.isFile = FALSE]
               ELSE NotDelimiter(f, <<"r", "n", "-", "-">> \o boundary \o <<"r">>, b, last))
       [] OTHER                -> c
================================================================================
