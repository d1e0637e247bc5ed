---------------------------- MODULE MCRoiPipeline ----------------------------
(* A region of 6 by 6 cells, the smallest with a texture feature, in a frame *)
(* whose cells are two pixels apart: 35 features of which pictures of skin,  *)
(* of a wall and of both differ in every kind, packed into words of 16 bits. *)
EXTENDS RoiPipeline

Rgb(r, g, b) == r * 2048 + g * 32 + b
Skin == Rgb(24, 30, 11)
Wall == Rgb(9, 26, 14)

\* Captures take turns: a face on the wall, the wall with a lamp, night.
MCPictures ==
  LET Picture(At(_, _)) == FoldLeft(Append, <<>>, [p \in 1..72 |-> At((p - 1) \div 12, ((p - 1) % 12) \div 2)])
  IN  <<Picture(LAMBDA r, c : IF c \in 2..4 /\ r \in 1..5 THEN Skin ELSE Wall),
        Picture(LAMBDA r, c : IF c + r < 4 THEN Rgb(31, 63, 28) ELSE Wall),
        Picture(LAMBDA r, c : 0)>>
MCColour(shot, p) == IF p = 0 THEN 0 ELSE MCPictures[((shot + 2) % 3) + 1][p]

\* Two states are one when they differ in nothing that can be seen later.
\* The collector writes both halves of the address before it asks for its
\* first burst, and reads data only of a burst; what an earlier session left
\* there is the same capture for all its cells.  Once the trainer has read
\* the file, the collector is over.
MCView ==
  LET fresh == pc = "grab" /\ Len(got) > 4
      b == IF fresh THEN board ELSE [board EXCEPT !.addr = 0, !.data = <<>>]
  IN  <<trainerVars, IF at # "idle" THEN <<>>
                     ELSE <<b, got, roi, since, odd, pc, memory, file, told, budget>> >>

MCForgets == {{}, 0..2*35-1}
MCOverlay == <<1>>
MCCurve == <<>>
=============================================================================
