------------------------------ MODULE MCFileWriter ------------------------------
(***************************************************************************)
(* Small files for FileWriter.                                             *)
(***************************************************************************)
EXTENDS FileWriter

Frame(name, body, size) == [kind |-> "frame", name |-> name, body |-> body, size |-> size]
Box(name, size) == [kind |-> "box", name |-> name, size |-> size]

Plain == [container |-> FALSE, level10 |-> FALSE, store_jpeg_metadata |-> FALSE,
          jbrd |-> 0, index |-> 0, inputs |-> <<>>]
Container == [Plain EXCEPT !.container = TRUE]

\* A bare codestream of two frames, the second section by section.
Bare == [Plain EXCEPT !.inputs = <<Frame("F1", "fast", 4), Frame("F2", "streaming", 1)>>]

\* One frame in one box, its sections as they come, and an index.
OneBox == [Container EXCEPT !.index = 1, !.inputs = <<Frame("F1", "streaming", 2)>>]

\* A box ahead of the frames: the codestream header has a box of its own.
Partial == [Container EXCEPT !.level10 = TRUE,
              !.inputs = <<Box("Exif", 3), Frame("F1", "fast streaming", 2)>>]

\* Reconstruction data, two frames, an empty box behind them.
Jpeg == [Container EXCEPT !.store_jpeg_metadata = TRUE, !.jbrd = 1,
           !.inputs = <<Frame("F1", "oneshot", 3), Frame("F2", "fast", 4), Box("xml ", 0)>>]

\* Reconstruction data were to be stored, but no frame has any.
NoJpeg == [Container EXCEPT !.store_jpeg_metadata = TRUE,
             !.inputs = <<Frame("F1", "oneshot", 2)>>]

SmallJobs == {Bare, OneBox, Partial, Jpeg, NoJpeg}
=============================================================================
