----------------------------- MODULE RoiFeatures -----------------------------
(***************************************************************************)
(* From a region of interest to the literals a Tsetlin machine reads: what *)
(* roi_tm/tm_common.py computes on the host, and what roi_features.h       *)
(* computes on the microcontroller.  The two have to agree bit for bit.    *)
(*                                                                         *)
(* A patch is the sequence of its RGB565 pixels, row by row.  A word of    *)
(* WORD bits is the set of the positions of its ones; feature and literal  *)
(* vectors are sets of the indices that are true.                          *)
(***************************************************************************)
EXTENDS Integers, Sequences, FiniteSets, SequencesExt

CONSTANTS ROI_COLS, ROI_ROWS,   \* cells of the region, 22 and 14
          WORD                  \* bits of a packed word, 32

\* Two blocks each way: with fewer, LBP_CELLS would not count the interior.
ASSUME RoiAssumption == /\ ROI_COLS \in Nat /\ ROI_COLS >= 4 /\ ROI_COLS % 2 = 0
                        /\ ROI_ROWS \in Nat /\ ROI_ROWS >= 4 /\ ROI_ROWS % 2 = 0
                        /\ WORD \in Nat \ {0}

ROI_CELLS == ROI_COLS * ROI_ROWS
DS == 2
DSW == ROI_COLS \div DS
DSH == ROI_ROWS \div DS
LBP_CELLS == (DSW - 2) * (DSH - 2)
COLOR_CELLS == DSW * DSH
N_LBP == LBP_CELLS * 8
N_FEATURES == N_LBP + 3 * COLOR_CELLS

Red(p) == p \div 2048
Green(p) == (p \div 32) % 64
Blue(p) == p % 32

-----------------------------------------------------------------------------
(* The host: tm_common.py *)

(* Sums over blocks of DS by DS pixels, scaled to 5 bits and brightness.   *)
_downsample_channels(roi) ==
  LET Block(r, c) == [k \in 0..DS*DS-1 |->
                        roi[(DS * r + (k \div DS)) * ROI_COLS + DS * c + (k % DS) + 1]]
      Sum(x) == x[0] + x[1] + x[2] + x[3]
  IN  [cell \in (0..DSH-1) \X (0..DSW-1) |->
         LET px == Block(cell[1], cell[2])
             Rs == Sum([k \in DOMAIN px |-> Red(px[k])])
             Gs == Sum([k \in DOMAIN px |-> Green(px[k])])
             Bs == Sum([k \in DOMAIN px |-> Blue(px[k])])
         IN  [bright |-> (Rs + Gs + Bs) \div 4, r |-> Rs \div 4, g |-> Gs \div 8, b |-> Bs \div 4]]

LBP_OFFSETS == <<<<-1, -1>>, <<-1, 0>>, <<-1, 1>>, <<0, -1>>, <<0, 1>>, <<1, -1>>, <<1, 0>>, <<1, 1>>>>

Brighter(d, cell, off) == d[<<cell[1] + off[1], cell[2] + off[2]>>].bright >= d[cell].bright

SkinCue(c) == c.r > c.g /\ c.g >= c.b /\ c.r - c.b >= 2

(* Texture bits of the interior cells, then three colour bits of every     *)
(* cell, colour by colour.                                                 *)
featurize(roi) ==
  LET d == _downsample_channels(roi)
      Interior(k) == <<1 + (k \div (DSW - 2)), 1 + (k % (DSW - 2))>>
      Cell(k) == d[<<k \div DSW, k % DSW>>]
  IN  {k \in 0..N_LBP-1 : Brighter(d, Interior(k \div 8), LBP_OFFSETS[(k % 8) + 1])}
        \cup {N_LBP + k : k \in {j \in 0..COLOR_CELLS-1 : Cell(j).r > Cell(j).g}}
        \cup {N_LBP + COLOR_CELLS + k : k \in {j \in 0..COLOR_CELLS-1 : Cell(j).r > Cell(j).b}}
        \cup {N_LBP + 2 * COLOR_CELLS + k : k \in {j \in 0..COLOR_CELLS-1 : SkinCue(Cell(j))}}

nwords(nlit) == (nlit + WORD - 1) \div WORD

pack_bits(bits, n) ==
  [w \in 0..nwords(n)-1 |-> {i \in 0..WORD-1 : w * WORD + i \in bits}]

\* The features, then their negations.
LiteralsOf(feat) == feat \cup {N_FEATURES + k : k \in (0..N_FEATURES-1) \ feat}

pack_literals(feat) == pack_bits(LiteralsOf(feat), 2 * N_FEATURES)

-----------------------------------------------------------------------------
(* The microcontroller: roi_features.h.  It walks the cells with running   *)
(* offsets, counts the features in idx, and sets one of two bits for each. *)

McuBlock(roi, o) ==
  LET row0 == 2 * ROI_COLS * (o \div DSW)
      cc == 2 * (o % DSW)
      p == <<roi[row0 + cc + 1], roi[row0 + cc + 2],
             roi[row0 + ROI_COLS + cc + 1], roi[row0 + ROI_COLS + cc + 2]>>
      rs == Red(p[1]) + Red(p[2]) + Red(p[3]) + Red(p[4])
      gs == Green(p[1]) + Green(p[2]) + Green(p[3]) + Green(p[4])
      bs == Blue(p[1]) + Blue(p[2]) + Blue(p[3]) + Blue(p[4])
  IN  [br |-> ((rs + gs + bs) \div 4) % 256, r |-> (rs \div 4) % 256,
       g5 |-> (gs \div 8) % 256, b |-> (bs \div 4) % 256]

(* The conditions handed to ROI_SET_FEAT, in the order of idx.             *)
McuConditions(roi) ==
  LET ds == [o \in 0..COLOR_CELLS-1 |-> McuBlock(roi, o)]
      At(k) == DSW * (1 + (k \div (DSW - 2))) + 1 + (k % (DSW - 2))
      Around(b) == <<b - DSW - 1, b - DSW, b - DSW + 1, b - 1, b + 1, b + DSW - 1, b + DSW, b + DSW + 1>>
  IN  [i \in 1..N_LBP |-> LET k == (i - 1) \div 8
                          IN  ds[Around(At(k))[((i - 1) % 8) + 1]].br >= ds[At(k)].br]
        \o [i \in 1..COLOR_CELLS |-> ds[i-1].r > ds[i-1].g5]
        \o [i \in 1..COLOR_CELLS |-> ds[i-1].r > ds[i-1].b]
        \o [i \in 1..COLOR_CELLS |-> /\ ds[i-1].r > ds[i-1].g5 /\ ds[i-1].g5 >= ds[i-1].b
                                     /\ ds[i-1].r - ds[i-1].b >= 2]

roi_featurize(roi) ==
  LET cond == McuConditions(roi)
      _bit(idx) == IF cond[idx + 1] THEN idx ELSE N_FEATURES + idx
      set == {_bit(idx) : idx \in 0..Len(cond)-1}
  IN  [w \in 0..nwords(2 * N_FEATURES)-1 |-> {b % WORD : b \in {x \in set : x \div WORD = w}}]
=============================================================================
