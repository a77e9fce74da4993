------------------------------- MODULE IrohMC -------------------------------
(* The small instances of Iroh: files over a restart, two lines on a       *)
(* channel, a line and its answer, two channels one after the other, and a *)
(* channel after a restart.  Who accepts does not dial.                    *)
EXTENDS Iroh

TextosMC == << <<"b">>, <<"e1", "e2">> >>
Todo == {"stop", "suelta", "limpia", "corta"}
Tope(archivos, arranques, canal, lineas, pasa) ==
  [archivos |-> archivos, arranques |-> arranques, marcan |-> {"y"},
   canales |-> canal, lineas |-> lineas, pasa |-> pasa]
TopesMC ==
  {Tope({"f"}, 3, 0, <<0, 0>>, Todo), Tope({}, 2, 1, <<2, 0>>, Todo),
   Tope({}, 2, 1, <<1, 1>>, Todo), Tope({}, 2, 2, <<1, 0>>, {"limpia"}),
   Tope({}, 3, 2, <<1, 0>>, {"stop", "suelta"})}
=============================================================================
