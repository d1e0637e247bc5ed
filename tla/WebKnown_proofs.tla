-------------------------- MODULE WebKnown_proofs --------------------------
(***************************************************************************)
(* What a user of WebApp knows of the device, for any number of threads,   *)
(* requests and faults and any size of the overlay.                        *)
(*                                                                         *)
(*   OverlayPosted         the overlay is what was posted, and is read     *)
(*                         back                                            *)
(*   SettingsAcknowledged  the camera's settings are what was set, and the *)
(*                         page of settings shows them                     *)
(*                                                                         *)
(* A post to the overlay has, after each answer, painted that much of its  *)
(* program over the cells it found (PaintsOn), a GET holds the first cells *)
(* of the screen (Reads), and nobody else draws meanwhile: OverlayInv.     *)
(*                                                                         *)
(* A setting is a set of bits in some registers (Mask).  What is known of  *)
(* it agrees with the camera's registers, unless a request under way stirs *)
(* its bits (SettingsKnown).  A setter's program ends in goals: bits that  *)
(* are made in a register at a place of the program; those that are due    *)
(* are met (GoalsMet), and what it read to put back next to them is what   *)
(* the register holds, or the board restarted since and nothing is known   *)
(* (Setting).  The page of settings holds what the registers it read hold  *)
(* (Browsing).  This is SettingsInv.                                       *)
(***************************************************************************)
EXTENDS WebApp_proofs

-----------------------------------------------------------------------------
(* What a list of operations makes of the overlay *)

Cells == 0..OSD_CELLS-1
Screen(d) == [on |-> d.on, cursor |-> d.cursor, cells |-> d.cells]
IsScreen(s) == DOMAIN s = {"on", "cursor", "cells"} /\ DOMAIN s.cells = Cells /\ s.cursor \in Cells

Paint(s, op) ==
  IF op.fn # "write" THEN s
  ELSE IF op.addr = REG_OSD_CTRL THEN OsdControl(s, op.value)
  ELSE IF op.addr = REG_OSD_ADDR THEN [s EXCEPT !.cursor = op.value]
  ELSE IF op.addr = REG_OSD_DATA THEN Advance([s EXCEPT !.cells[s.cursor] = op.value])
  ELSE s

\* The first k operations make e of s.
Painted(s, ops, k, e) ==
  \E f : /\ f[0] = s /\ f[k] = e
         /\ \A i \in 1..k : ops[i].fn # "raise" /\ f[i] = Paint(f[i-1], ops[i])

LEMMA PaintedNone == ASSUME NEW s, NEW ops, NEW e, Painted(s, ops, 0, e) PROVE e = s
BY DEF Painted

LEMMA PaintedStart == ASSUME NEW s, NEW ops PROVE Painted(s, ops, 0, s)
<1> DEFINE f == [i \in 0..0 |-> s]
<1>1. f[0] = s OBVIOUS
<1> HIDE DEF f
<1>2. QED BY <1>1 DEF Painted

LEMMA PaintedMore ==
  ASSUME NEW s, NEW ops, NEW k \in Nat, NEW e, Painted(s, ops, k, e), ops[k+1].fn # "raise"
  PROVE  Painted(s, ops, k + 1, Paint(e, ops[k+1]))
<1>1. PICK f : /\ f[0] = s /\ f[k] = e
               /\ \A i \in 1..k : ops[i].fn # "raise" /\ f[i] = Paint(f[i-1], ops[i])
  BY DEF Painted
<1> DEFINE g == [i \in 0..k+1 |-> IF i <= k THEN f[i] ELSE Paint(e, ops[k+1])]
<1>2. g[0] = s /\ g[k+1] = Paint(e, ops[k+1]) /\ \A i \in 0..k : g[i] = f[i]
  <2>1. 0 \in 0..k+1 /\ 0 <= k /\ k + 1 \in 0..k+1 /\ ~ (k + 1 <= k) OBVIOUS
  <2>2. \A i \in 0..k : i \in 0..k+1 /\ i <= k OBVIOUS
  <2>3. QED BY <1>1, <2>1, <2>2
<1> HIDE DEF g
<1>3. ASSUME NEW i \in 1..k+1 PROVE ops[i].fn # "raise" /\ g[i] = Paint(g[i-1], ops[i])
  <2>1. CASE i = k + 1
    <3>1. i - 1 = k /\ k \in 0..k BY <2>1
    <3>2. QED BY <1>1, <1>2, <2>1, <3>1
  <2>2. CASE i # k + 1
    <3>1. i \in 1..k /\ i \in 0..k /\ i - 1 \in 0..k BY <2>2
    <3>2. QED BY <1>1, <1>2, <3>1
  <2>3. QED BY <2>1, <2>2
<1>4. QED BY <1>2, <1>3 DEF Painted

LEMMA PaintedLess ==
  ASSUME NEW s, NEW ops, NEW k \in Nat, NEW e, Painted(s, ops, k + 1, e)
  PROVE  /\ ops[k+1].fn # "raise"
         /\ \E m : Painted(s, ops, k, m) /\ e = Paint(m, ops[k+1])
<1>1. PICK f : /\ f[0] = s /\ f[k+1] = e
               /\ \A i \in 1..k+1 : ops[i].fn # "raise" /\ f[i] = Paint(f[i-1], ops[i])
  BY DEF Painted
<1>2. k + 1 \in 1..k+1 /\ (k + 1) - 1 = k OBVIOUS
<1>3. ops[k+1].fn # "raise" /\ e = Paint(f[k], ops[k+1]) BY <1>1, <1>2
<1>4. \A i \in 1..k : i \in 1..k+1 OBVIOUS
<1>5. Painted(s, ops, k, f[k]) BY <1>1, <1>4 DEF Painted
<1>6. QED BY <1>3, <1>5

\* Operations one list after the other.
LEMMA PaintedJoin ==
  ASSUME NEW s, NEW a, NEW b, IsSeq(a), IsSeq(b), NEW e, Painted(s, a \o b, Len(a \o b), e)
  PROVE  \E m : Painted(s, a, Len(a), m) /\ Painted(m, b, Len(b), e)
<1>1. /\ Len(a) \in Nat /\ Len(b) \in Nat /\ Len(a \o b) = Len(a) + Len(b)
      /\ \A i \in 1..Len(a) : (a \o b)[i] = a[i]
      /\ \A i \in 1..Len(b) : (a \o b)[Len(a) + i] = b[i]
  BY SeqJoin
<1>2. PICK c : c = a \o b OBVIOUS
<1>3. PICK p \in Nat, r \in Nat : p = Len(a) /\ r = Len(b) BY <1>1
<1>4. PICK f : /\ f[0] = s /\ f[p+r] = e
               /\ \A i \in 1..p+r : c[i].fn # "raise" /\ f[i] = Paint(f[i-1], c[i])
  BY <1>1, <1>2, <1>3 DEF Painted
<1>5. Painted(s, a, p, f[p])
  <2>1. \A i \in 1..p : i \in 1..p+r /\ c[i] = a[i] BY <1>1, <1>2, <1>3
  <2>2. QED BY <1>4, <2>1 DEF Painted
<1>6. Painted(f[p], b, r, e)
  <2> DEFINE g == [i \in 0..r |-> f[p+i]]
  <2>1. g[0] = f[p] /\ g[r] = e BY <1>4
  <2>2. ASSUME NEW i \in 1..r PROVE b[i].fn # "raise" /\ g[i] = Paint(g[i-1], b[i])
    <3>1. p + i \in 1..p+r /\ (p + i) - 1 = p + (i - 1) /\ i \in 0..r /\ i - 1 \in 0..r OBVIOUS
    <3>2. c[p+i] = b[i] BY <1>1, <1>2, <1>3
    <3>3. g[i] = f[p+i] /\ g[i-1] = f[p+(i-1)] BY <3>1
    <3>4. QED BY <1>4, <3>1, <3>2, <3>3
  <2> HIDE DEF g
  <2>3. QED BY <2>1, <2>2 DEF Painted
<1>7. QED BY <1>3, <1>5, <1>6

LEMMA PaintedOne ==
  ASSUME NEW s, NEW op, NEW e, Painted(s, <<op>>, Len(<<op>>), e)
  PROVE  op.fn # "raise" /\ e = Paint(s, op)
<1>1. PICK ops : ops = <<op>> OBVIOUS
<1>2. Len(ops) = 1 /\ ops[1] = op BY <1>1
<1>3. PICK f : f[0] = s /\ f[1] = e /\ \A i \in 1..1 : ops[i].fn # "raise" /\ f[i] = Paint(f[i-1], ops[i])
  BY <1>1, <1>2 DEF Painted
<1>4. QED BY <1>2, <1>3

\* The next cell comes after the last one again.
LEMMA NextModulo == ASSUME NEW C \in Nat \ {0}, NEW k \in Nat PROVE ((k % C) + 1) % C = (k + 1) % C
<1>1. PICK p \in Nat, r \in 0..C-1 : p = k \div C /\ r = k % C /\ k = C * p + r BY Quotient
<1>2. CASE r + 1 < C
  <2>1. r + 1 \in 0..C-1 /\ k + 1 = C * p + (r + 1) /\ r + 1 = C * 0 + (r + 1) BY <1>1, <1>2
  <2>2. (k + 1) % C = r + 1 BY <1>1, <2>1, Remainder
  <2>3. (r + 1) % C = r + 1 BY <1>1, <2>1, Remainder
  <2>4. QED BY <1>1, <2>2, <2>3
<1>3. CASE r + 1 = C
  <2>1. 0 \in 0..C-1 /\ p + 1 \in Nat /\ k + 1 \in Nat /\ r + 1 \in Nat OBVIOUS
  <2>2. k + 1 = C * (p + 1) + 0
    <3>1. C * (p + 1) = C * p + C BY <1>1
    <3>2. QED BY <1>1, <1>3, <3>1
  <2>3. r + 1 = C * 1 + 0 BY <1>3
  <2>4. (k + 1) % C = 0
    <3>1. PICK a \in Nat, q \in Nat : a = k + 1 /\ q = p + 1 OBVIOUS
    <3>2. a = C * q + 0 BY <2>2, <3>1
    <3>3. a % C = 0 BY <2>1, <3>2, Remainder
    <3>4. QED BY <3>1, <3>3
  <2>5. (r + 1) % C = 0 BY <2>1, <2>3, Remainder
  <2>6. QED BY <1>1, <2>4, <2>5
<1>4. QED BY <1>1, <1>2, <1>3

\* The last of the first j characters that is written to a cell.
Here(at, j, i) == {k \in 1..j : (at + k - 1) % OSD_CELLS = i}

LEMMA MaxIs == ASSUME NEW S \in SUBSET Nat, NEW m \in S, \A k \in S : m >= k PROVE Max(S) = m
<1>1. Max(S) \in S /\ \A y \in S : Max(S) >= y BY DEF Max
<1>2. PICK x \in S : x = Max(S) BY <1>1
<1>3. x >= m /\ m >= x /\ x \in Nat /\ m \in Nat BY <1>1, <1>2
<1>4. QED BY <1>2, <1>3

LEMMA HereMore ==
  ASSUME NEW at \in Nat, NEW j \in Nat, NEW i
  PROVE  /\ i # (at + j) % OSD_CELLS => Here(at, j + 1, i) = Here(at, j, i)
         /\ i = (at + j) % OSD_CELLS => Here(at, j + 1, i) # {} /\ Max(Here(at, j + 1, i)) = j + 1
<1>1. /\ j + 1 \in 1..j+1 /\ at + (j + 1) - 1 = at + j
      /\ \A k \in 1..j+1 : k = j + 1 \/ k \in 1..j
      /\ \A k \in 1..j : k \in 1..j+1
  OBVIOUS
<1>2. ASSUME i # (at + j) % OSD_CELLS PROVE Here(at, j + 1, i) = Here(at, j, i) BY <1>1, <1>2 DEF Here
<1>3. ASSUME i = (at + j) % OSD_CELLS
      PROVE Here(at, j + 1, i) # {} /\ Max(Here(at, j + 1, i)) = j + 1
  <2>1. j + 1 \in Here(at, j + 1, i) BY <1>1, <1>3 DEF Here
  <2>2. Here(at, j + 1, i) \in SUBSET Nat /\ \A k \in Here(at, j + 1, i) : j + 1 >= k BY DEF Here
  <2>3. QED BY <2>1, <2>2, MaxIs
<1>4. QED BY <1>2, <1>3

\* A text is written from its cell on, and over its own start when it is longer
\* than the overlay.
LEMMA TextPainted ==
  ASSUME NEW s, IsScreen(s), NEW row, NEW col, NEW text \in Seq(Chars), NEW e,
         Painted(s, osd_write_text(row, col, text), Len(osd_write_text(row, col, text)), e)
  PROVE  /\ OnGrid(row, col) /\ IsScreen(e) /\ e.on = s.on
         /\ \A i \in Cells :
              LET here == Here(row * OSD_COLS + col, Len(text), i)
              IN  e.cells[i] = IF here = {} THEN s.cells[i] ELSE osd_byte(text[Max(here)])
<1> DEFINE ops == osd_write_text(row, col, text)
           at == row * OSD_COLS + col
           w == WriteSingle(REG_OSD_ADDR, at)
           d(i) == WriteSingle(REG_OSD_DATA, osd_byte(text[i]))
           ds == [i \in 1..Len(text) |-> d(i)]
           n == Len(text)
<1>1. OnGrid(row, col)
  <2>1. SUFFICES ASSUME ~ OnGrid(row, col) PROVE FALSE OBVIOUS
  <2>2. ops = <<Raise>> BY <2>1 DEF osd_write_text
  <2>3. Raise.fn # "raise" BY <2>2, PaintedOne
  <2>4. QED BY <2>3 DEF Raise
<1>2. at \in Cells /\ OSD_CELLS \in Nat \ {0} /\ at \in Nat
  <2>1. at \in 0..OSD_CELLS-1 /\ OSD_CELLS \in Nat \ {0} BY <1>1, GridCell
  <2> HIDE DEF at
  <2>2. QED BY <2>1 DEF Cells
<1>3. ops = <<w>> \o ds BY <1>1 DEF osd_write_text
<1>4. n \in Nat /\ Len(ds) = n /\ \A i \in 1..n : ds[i] = d(i) OBVIOUS
<1> HIDE DEF n
<1>5. IsSeq(<<w>>) /\ IsSeq(ds)
  <2> HIDE DEF w, d
  <2>1. <<w>> \in Seq({w}) /\ ds \in Seq({d(i) : i \in 1..n}) BY <1>4 DEF n
  <2>2. QED BY <2>1 DEF IsSeq
<1> HIDE DEF ds, ops
<1>6. PICK m : Painted(s, <<w>>, Len(<<w>>), m) /\ Painted(m, ds, Len(ds), e)
  <2> HIDE DEF w
  <2>1. Painted(s, <<w>> \o ds, Len(<<w>> \o ds), e) BY <1>3 DEF ops
  <2>2. QED BY <1>5, <2>1, PaintedJoin
<1>7. m = [s EXCEPT !.cursor = at]
  <2>1. m = Paint(s, w) BY <1>6, PaintedOne
  <2>2. w.fn = "write" /\ w.addr = REG_OSD_ADDR /\ w.value = at BY DEF WriteSingle
  <2>3. REG_OSD_ADDR # REG_OSD_CTRL BY DEF REG_OSD_ADDR, REG_OSD_CTRL
  <2> HIDE DEF w, at
  <2>4. QED BY <2>1, <2>2, <2>3 DEF Paint
<1> HIDE DEF at, w
<1>8. IsScreen(m) /\ m.on = s.on /\ m.cells = s.cells /\ m.cursor = at BY <1>2, <1>7 DEF IsScreen
<1> DEFINE At(j, x) == /\ IsScreen(x) /\ x.on = s.on /\ x.cursor = (at + j) % OSD_CELLS
                       /\ \A i \in Cells :
                            x.cells[i] = IF Here(at, j, i) = {} THEN s.cells[i]
                                         ELSE osd_byte(text[Max(Here(at, j, i))])
           N == {j \in Nat : j <= n => \A x : Painted(m, ds, j, x) => At(j, x)}
<1>9. 0 \in N
  <2>1. SUFFICES ASSUME NEW x, Painted(m, ds, 0, x) PROVE At(0, x) OBVIOUS
  <2>2. x = m BY <2>1, PaintedNone
  <2>3. \A i : Here(at, 0, i) = {} BY DEF Here
  <2>4. (at + 0) % OSD_CELLS = at
    <3>1. PICK C \in Nat \ {0} : C = OSD_CELLS /\ at \in 0..C-1 BY <1>2 DEF Cells
    <3>2. at = C * 0 + at /\ at + 0 = at BY <3>1
    <3>3. at % C = at BY <3>1, <3>2, Remainder
    <3>4. QED BY <3>1, <3>2, <3>3
  <2>5. QED BY <1>8, <2>2, <2>3, <2>4
<1>10. ASSUME NEW j \in Nat, j \in N PROVE j + 1 \in N
  <2>1. SUFFICES ASSUME j + 1 <= n, NEW x, Painted(m, ds, j + 1, x) PROVE At(j + 1, x) OBVIOUS
  <2>2. j <= n /\ j + 1 \in 1..n BY <1>4, <2>1
  <2>3. PICK y : Painted(m, ds, j, y) /\ x = Paint(y, ds[j+1]) BY <2>1, PaintedLess
  <2>4. At(j, y) BY <1>10, <2>2, <2>3
  <2>5. PICK c : c = (at + j) % OSD_CELLS OBVIOUS
  <2>6. c \in Cells /\ y.cursor = c /\ (c + 1) % OSD_CELLS = (at + (j + 1)) % OSD_CELLS
        /\ (at + (j + 1)) % OSD_CELLS \in Cells
    <3>1. at + j \in Nat /\ at + (j + 1) \in Nat /\ at + (j + 1) = (at + j) + 1 BY <1>2
    <3>2. (((at + j) % OSD_CELLS) + 1) % OSD_CELLS = ((at + j) + 1) % OSD_CELLS BY <1>2, <3>1, NextModulo
    <3>3. QED BY <2>4, <2>5, <3>1, <3>2, NextCell DEF Cells
  <2>7. PICK v : v = osd_byte(text[j+1]) OBVIOUS
  <2>8. x = Advance([y EXCEPT !.cells[c] = v])
    <3>1. PICK op : op = ds[j+1] OBVIOUS
    <3>2. op.fn = "write" /\ op.addr = REG_OSD_DATA /\ op.value = v BY <1>4, <2>2, <2>7, <3>1 DEF WriteSingle
    <3>3. REG_OSD_DATA # REG_OSD_CTRL /\ REG_OSD_DATA # REG_OSD_ADDR
      BY DEF REG_OSD_ADDR, REG_OSD_CTRL, REG_OSD_DATA
    <3>4. QED BY <2>3, <2>6, <3>1, <3>2, <3>3 DEF Paint
  <2>9. PICK z : z = [y EXCEPT !.cells[c] = v] OBVIOUS
  <2>10. /\ DOMAIN z = {"on", "cursor", "cells"} /\ z.on = s.on /\ z.cursor = c /\ DOMAIN z.cells = Cells
         /\ \A i \in Cells : z.cells[i] = IF i = c THEN v ELSE y.cells[i]
    BY <2>4, <2>6, <2>9 DEF IsScreen
  <2>11. x = [z EXCEPT !.cursor = (c + 1) % OSD_CELLS] BY <2>8, <2>9, <2>10 DEF Advance
  <2>12. /\ IsScreen(x) /\ x.on = s.on /\ x.cursor = (at + (j + 1)) % OSD_CELLS
         /\ \A i \in Cells : x.cells[i] = IF i = c THEN v ELSE y.cells[i]
    BY <2>6, <2>10, <2>11 DEF IsScreen
  <2>13. ASSUME NEW i \in Cells
         PROVE  x.cells[i] = IF Here(at, j + 1, i) = {} THEN s.cells[i]
                             ELSE osd_byte(text[Max(Here(at, j + 1, i))])
    <3>1. CASE i = c
      <4>1. Here(at, j + 1, i) # {} /\ Max(Here(at, j + 1, i)) = j + 1 BY <1>2, <2>5, <3>1, HereMore
      <4>2. QED BY <2>7, <2>12, <3>1, <4>1
    <3>2. CASE i # c
      <4>1. Here(at, j + 1, i) = Here(at, j, i) BY <1>2, <2>5, <3>2, HereMore
      <4>2. QED BY <2>4, <2>12, <3>2, <4>1
    <3>3. QED BY <3>1, <3>2
  <2>14. QED BY <2>12, <2>13
<1> HIDE DEF N
<1>11. Nat \subseteq N BY <1>9, <1>10, Induction
<1>12. n \in N BY <1>4, <1>11
<1>13. At(n, e) BY <1>4, <1>6, <1>12 DEF N
<1>14. QED BY <1>1, <1>13 DEF at, n

\* The first n lines, one after the other.
Line(lines, i) == [at |-> (i - 1) * OSD_COLS, text |-> lines[i]]
Lays(cells, lines, n, f) == f = [i \in 0..n |-> IF i = 0 THEN cells ELSE Written(f[i-1], Line(lines, i))]

LEMMA LaysExists ==
  ASSUME NEW cells, NEW lines, NEW n \in Nat
  PROVE  \E f : Lays(cells, lines, n, f)
<1> DEFINE N == {k \in Nat : \E f : Lays(cells, lines, k, f)}
<1>1. 0 \in N
  <2> DEFINE f == [i \in 0..0 |-> cells]
  <2>1. f = [i \in 0..0 |-> IF i = 0 THEN cells ELSE Written(f[i-1], Line(lines, i))] OBVIOUS
  <2>2. Lays(cells, lines, 0, f) BY <2>1 DEF Lays
  <2>3. QED BY <2>2
<1>2. ASSUME NEW k \in Nat, k \in N PROVE k + 1 \in N
  <2>1. PICK f : Lays(cells, lines, k, f) BY <1>2
  <2> DEFINE g == [i \in 0..k+1 |-> IF i <= k THEN f[i] ELSE Written(f[k], Line(lines, k + 1))]
  <2>2. \A i \in 0..k : f[i] = IF i = 0 THEN cells ELSE Written(f[i-1], Line(lines, i)) BY <2>1 DEF Lays
  <2>3. \A i \in 0..k : g[i] = f[i] BY <2>2
  <2>4. g[k+1] = Written(f[k], Line(lines, k + 1))
    <3>1. k + 1 \in 0..k+1 /\ ~ (k + 1 <= k) OBVIOUS
    <3>2. QED BY <3>1
  <2>5. g = [i \in 0..k+1 |-> g[i]] OBVIOUS
  <2> HIDE DEF g
  <2>6. ASSUME NEW i \in 0..k+1 PROVE g[i] = IF i = 0 THEN cells ELSE Written(g[i-1], Line(lines, i))
    <3>1. CASE i = 0 BY <2>2, <2>3, <3>1
    <3>2. CASE i # 0 /\ i <= k
      <4>1. i \in 0..k /\ i - 1 \in 0..k BY <3>2
      <4>2. g[i] = f[i] /\ g[i-1] = f[i-1] BY <2>3, <4>1
      <4>3. QED BY <2>2, <3>2, <4>1, <4>2
    <3>3. CASE i = k + 1
      <4>1. i - 1 = k /\ k \in 0..k /\ i # 0 BY <3>3
      <4>2. QED BY <2>3, <2>4, <3>3, <4>1
    <3>4. QED BY <3>1, <3>2, <3>3
  <2>7. Lays(cells, lines, k + 1, g) BY <2>5, <2>6 DEF Lays
  <2>8. QED BY <2>7
<1> HIDE DEF N
<1>3. Nat \subseteq N BY <1>1, <1>2, Induction
<1>4. QED BY <1>3 DEF N

LaidBy(cells, lines, n, f) ==
  /\ f[0] = cells
  /\ \A i \in Nat : i < n => f[i+1] = Written(f[i], Line(lines, i + 1))
  /\ Lined(cells, lines, n) = f[n]

LEMMA LinedIs ==
  ASSUME NEW cells, NEW lines, NEW n \in Nat
  PROVE  \E f : LaidBy(cells, lines, n, f)
<1>1. Lined(cells, lines, n) = (CHOOSE f : Lays(cells, lines, n, f))[n] BY DEF Lined, Lays, Line
<1>2. PICK f : f = CHOOSE g : Lays(cells, lines, n, g) OBVIOUS
<1>3. Lays(cells, lines, n, f) BY <1>2, LaysExists
<1>4. \A i \in 0..n : f[i] = IF i = 0 THEN cells ELSE Written(f[i-1], Line(lines, i)) BY <1>3 DEF Lays
<1>5. f[0] = cells BY <1>4
<1>6. ASSUME NEW i \in Nat, i < n PROVE f[i+1] = Written(f[i], Line(lines, i + 1))
  <2>1. PICK j : j = i + 1 OBVIOUS
  <2>2. j \in 0..n /\ j # 0 /\ j - 1 = i BY <1>6, <2>1
  <2>3. QED BY <1>4, <2>1, <2>2
<1>7. QED BY <1>1, <1>2, <1>5, <1>6 DEF LaidBy

\* The overlay shows what a user thinks is in its cells.
Alike(shown, cells) ==
  DOMAIN cells = Cells /\ \A i \in Cells : osd_char(shown[i]) = Printed(cells[i])

LEMMA TextAlike ==
  ASSUME NEW s, IsScreen(s), NEW row, NEW col, NEW text \in Seq(Chars), NEW e,
         Painted(s, osd_write_text(row, col, text), Len(osd_write_text(row, col, text)), e)
  PROVE  /\ OnGrid(row, col) /\ IsScreen(e) /\ e.on = s.on
         /\ \A cells : Alike(s.cells, cells) =>
              Alike(e.cells, Written(cells, [at |-> row * OSD_COLS + col, text |-> text]))
<1> DEFINE at == row * OSD_COLS + col
<1>1. /\ OnGrid(row, col) /\ IsScreen(e) /\ e.on = s.on
      /\ \A i \in Cells :
           LET here == Here(row * OSD_COLS + col, Len(text), i)
           IN  e.cells[i] = IF here = {} THEN s.cells[i] ELSE osd_byte(text[Max(here)])
  BY TextPainted
<1>2. ASSUME NEW cells, Alike(s.cells, cells)
      PROVE  Alike(e.cells, Written(cells, [at |-> at, text |-> text]))
  <2> DEFINE w == Written(cells, [at |-> at, text |-> text])
  <2>1. DOMAIN text = 1..Len(text) OBVIOUS
  <2>2. \A i : {k \in DOMAIN text : (at + k - 1) % OSD_CELLS = i} = Here(at, Len(text), i) BY <2>1 DEF Here
  <2>3. w = [i \in DOMAIN cells |->
               LET here == {k \in DOMAIN text : (at + k - 1) % OSD_CELLS = i}
               IN  IF here = {} THEN cells[i] ELSE text[Max(here)]]
    BY DEF Written
  <2>4. DOMAIN w = Cells BY <1>2, <2>3 DEF Alike
  <2>5. ASSUME NEW i \in Cells PROVE osd_char(e.cells[i]) = Printed(w[i])
    <3>1. w[i] = IF Here(at, Len(text), i) = {} THEN cells[i] ELSE text[Max(Here(at, Len(text), i))]
      BY <1>2, <2>2, <2>3, <2>5 DEF Alike
    <3>2. e.cells[i] = IF Here(at, Len(text), i) = {} THEN s.cells[i]
                       ELSE osd_byte(text[Max(Here(at, Len(text), i))])
      BY <1>1
    <3> HIDE DEF w, at
    <3>3. CASE Here(at, Len(text), i) = {} BY <1>2, <3>1, <3>2, <3>3 DEF Alike
    <3>4. CASE Here(at, Len(text), i) # {} BY <3>1, <3>2, <3>4 DEF Printed
    <3>5. QED BY <3>3, <3>4
  <2>6. QED BY <2>4, <2>5 DEF Alike
<1>3. QED BY <1>1, <1>2

\* The texts of the first k lines.
Texts(lines, k) == [i \in 1..k |-> osd_write_text(i - 1, 0, lines[i])]

LEMMA TextsSeq ==
  ASSUME NEW lines \in Seq(Seq(Chars)), NEW k \in Nat, k <= Len(lines)
  PROVE  Texts(lines, k) \in Seq(Seq(TextOps))
<1> DEFINE T == Seq(TextOps)
<1>1. \A i \in 1..k : osd_write_text(i - 1, 0, lines[i]) \in Seq(TextOps)
  <2>1. SUFFICES ASSUME NEW i \in 1..k PROVE osd_write_text(i - 1, 0, lines[i]) \in Seq(TextOps) OBVIOUS
  <2>2. i \in 1..Len(lines) OBVIOUS
  <2>3. lines[i] \in Seq(Chars) BY <2>2
  <2>4. QED BY <2>3, TextSeq
<1>2. Texts(lines, k) = [i \in 1..k |-> osd_write_text(i - 1, 0, lines[i])] BY DEF Texts
<1> HIDE DEF T
<1>3. Texts(lines, k) \in Seq(T) BY <1>1, <1>2 DEF T
<1>4. QED BY <1>3 DEF T

LEMMA TextsMore ==
  ASSUME NEW lines \in Seq(Seq(Chars)), NEW k \in Nat, k + 1 <= Len(lines)
  PROVE  /\ FlattenSeq(Texts(lines, k + 1)) = FlattenSeq(Texts(lines, k)) \o osd_write_text(k, 0, lines[k+1])
         /\ FlattenSeq(Texts(lines, k)) \in Seq(TextOps) /\ osd_write_text(k, 0, lines[k+1]) \in Seq(TextOps)
<1> DEFINE T == Seq(TextOps)
<1>1. PICK x : x = osd_write_text(k, 0, lines[k+1]) OBVIOUS
<1>2. x \in T
  <2>1. k + 1 \in 1..Len(lines) OBVIOUS
  <2>2. lines[k+1] \in Seq(Chars) BY <2>1
  <2>3. QED BY <1>1, <2>2, TextSeq
<1>3. PICK a : a = Texts(lines, k) OBVIOUS
<1>4. PICK b : b = Texts(lines, k + 1) OBVIOUS
<1>5. k <= Len(lines) /\ k + 1 \in Nat OBVIOUS
<1>6. a \in Seq(T) /\ b \in Seq(T) BY <1>3, <1>4, <1>5, TextsSeq
<1>7. Len(a) = k /\ Len(b) = k + 1
  <2>1. a = [i \in 1..k |-> a[i]] /\ b = [i \in 1..k+1 |-> b[i]] BY <1>3, <1>4 DEF Texts
  <2>2. DOMAIN a = 1..k /\ DOMAIN b = 1..k+1 BY <2>1
  <2> HIDE DEF T
  <2>3. QED BY <1>6, <2>2
<1>8. \A i \in 1..k : b[i] = a[i]
  <2>1. \A i \in 1..k : i \in 1..k+1 OBVIOUS
  <2>2. QED BY <1>3, <1>4, <2>1 DEF Texts
<1>9. b[k+1] = x
  <2>1. k + 1 \in 1..k+1 /\ (k + 1) - 1 = k OBVIOUS
  <2>2. QED BY <1>1, <1>4, <2>1 DEF Texts
<1> HIDE DEF T
<1>10. b = Append(a, x)
  <2>1. Append(a, x) \in Seq(T) /\ Len(Append(a, x)) = k + 1 /\ Append(a, x)[k+1] = x
        /\ \A i \in 1..k : Append(a, x)[i] = a[i]
    BY <1>2, <1>6, <1>7
  <2>2. \A i \in 1..k+1 : i = k + 1 \/ i \in 1..k OBVIOUS
  <2>3. \A i \in 1..k+1 : b[i] = Append(a, x)[i] BY <1>8, <1>9, <2>1, <2>2
  <2>4. QED BY <1>6, <1>7, <2>1, <2>3
<1>11. FlattenSeq(b) = FlattenSeq(a) \o x BY <1>2, <1>6, <1>10, FlattenAppend DEF T
<1>12. FlattenSeq(a) \in Seq(TextOps) BY <1>6, FlattenType DEF T
<1>13. QED BY <1>1, <1>2, <1>3, <1>4, <1>11, <1>12 DEF T

\* The lines of a post, each in its row.
LEMMA LinesAlike ==
  ASSUME NEW s, IsScreen(s), NEW lines \in Seq(Seq(Chars)), NEW n \in Nat, n <= Len(lines), NEW e,
         Painted(s, FlattenSeq(Texts(lines, n)), Len(FlattenSeq(Texts(lines, n))), e)
  PROVE  /\ IsScreen(e) /\ e.on = s.on
         /\ \A cells : Alike(s.cells, cells) => Alike(e.cells, Lined(cells, lines, n))
<1> DEFINE All(k) == FlattenSeq(Texts(lines, k))
           Good(k, x) ==
             /\ IsScreen(x) /\ x.on = s.on
             /\ \A f : /\ Alike(s.cells, f[0])
                       /\ \A i \in Nat : i < n => f[i+1] = Written(f[i], Line(lines, i + 1))
                       => Alike(x.cells, f[k])
           N == {k \in Nat : k <= n => \A x : Painted(s, All(k), Len(All(k)), x) => Good(k, x)}
<1>1. 0 \in N
  <2>1. SUFFICES ASSUME NEW x, Painted(s, All(0), Len(All(0)), x) PROVE Good(0, x) OBVIOUS
  <2>2. All(0) = <<>>
    <3>1. Texts(lines, 0) = <<>> BY DEF Texts
    <3>2. QED BY <3>1 DEF FlattenSeq
  <2>3. x = s BY <2>1, <2>2, PaintedNone
  <2>4. QED BY <2>3
<1>2. ASSUME NEW k \in Nat, k \in N PROVE k + 1 \in N
  <2>1. SUFFICES ASSUME k + 1 <= n, NEW x, Painted(s, All(k+1), Len(All(k+1)), x) PROVE Good(k + 1, x)
    <3> HIDE DEF All, Good
    <3>1. QED OBVIOUS
  <2>2. k < n /\ k + 1 <= Len(lines) /\ k <= n /\ k + 1 \in 1..Len(lines) BY <2>1
  <2>3. PICK w : w = osd_write_text(k, 0, lines[k+1]) OBVIOUS
  <2>4. /\ All(k+1) = All(k) \o w
        /\ All(k) \in Seq(TextOps) /\ w \in Seq(TextOps)
    BY <2>2, <2>3, TextsMore
  <2>5. \A y : Painted(s, All(k), Len(All(k)), y) => Good(k, y) BY <1>2, <2>2
  <2> HIDE DEF All
  <2>6. IsSeq(All(k)) /\ IsSeq(w) BY <2>4 DEF IsSeq
  <2>7. Painted(s, All(k) \o w, Len(All(k) \o w), x) BY <2>1, <2>4
  <2>8. PICK m : Painted(s, All(k), Len(All(k)), m) /\ Painted(m, w, Len(w), x) BY <2>6, <2>7, PaintedJoin
  <2>9. Good(k, m) BY <2>5, <2>8
  <2>10. lines[k+1] \in Seq(Chars) BY <2>2
  <2>11. /\ IsScreen(x) /\ x.on = m.on
         /\ \A cells : Alike(m.cells, cells) =>
              Alike(x.cells, Written(cells, [at |-> k * OSD_COLS + 0, text |-> lines[k+1]]))
    BY <2>3, <2>8, <2>9, <2>10, TextAlike
  <2>12. [at |-> k * OSD_COLS + 0, text |-> lines[k+1]] = Line(lines, k + 1)
    <3>1. PICK C \in Nat : C = OSD_COLS BY ScreenAssumption
    <3>2. k * C + 0 = ((k + 1) - 1) * C BY <3>1
    <3>3. QED BY <3>1, <3>2 DEF Line
  <2>13. ASSUME NEW f, Alike(s.cells, f[0]),
                \A i \in Nat : i < n => f[i+1] = Written(f[i], Line(lines, i + 1))
         PROVE  Alike(x.cells, f[k+1])
    <3>1. Alike(m.cells, f[k]) BY <2>9, <2>13
    <3>2. f[k+1] = Written(f[k], Line(lines, k + 1)) BY <2>2, <2>13
    <3>3. QED BY <2>11, <2>12, <3>1, <3>2
  <2>14. IsScreen(x) /\ x.on = s.on BY <2>9, <2>11
  <2>15. QED BY <2>13, <2>14
<1> HIDE DEF N
<1>3. Nat \subseteq N BY <1>1, <1>2, Induction
<1> HIDE DEF Good
<1>4. Good(n, e) BY <1>3 DEF N
<1>5. ASSUME NEW cells, Alike(s.cells, cells) PROVE Alike(e.cells, Lined(cells, lines, n))
  <2>1. PICK f : LaidBy(cells, lines, n, f) BY LinedIs
  <2>2. QED BY <1>4, <1>5, <2>1 DEF Good, LaidBy
<1>6. QED BY <1>4, <1>5 DEF Good

\* What is known of the cells is what they show.
Shown(x, shown) == x # <<>> => Alike(shown, x[1])

LEMMA ClearPainted ==
  ASSUME NEW s, IsScreen(s), NEW e, Painted(s, osd_clear, Len(osd_clear), e)
  PROVE  IsScreen(e) /\ Alike(e.cells, [i \in 0..OSD_CELLS-1 |-> Blank])
<1>1. e = Paint(s, WriteSingle(REG_OSD_CTRL, 2)) BY PaintedOne DEF osd_clear
<1>2. e = OsdControl(s, 2) BY <1>1 DEF Paint, WriteSingle
<1>3. PICK x : e = [[s EXCEPT !.on = x] EXCEPT !.cells = [i \in DOMAIN @ |-> 0], !.cursor = 0]
  <2>1. ~ (2 < 2) OBVIOUS
  <2>2. QED BY <1>2, <2>1 DEF OsdControl
<1>4. 0 \in Cells BY GridCell DEF Cells
<1>5. IsScreen(e) /\ \A i \in Cells : e.cells[i] = 0 BY <1>3, <1>4 DEF IsScreen
<1>6. osd_char(0) = <<"latin", 32>> BY DEF osd_char
<1>7. Printed(Blank) = <<"latin", 32>> BY DEF Printed, Blank, osd_byte, osd_char
<1>8. QED BY <1>5, <1>6, <1>7 DEF Alike, Cells

LEMMA EnabledPainted ==
  ASSUME NEW s, IsScreen(s), NEW on \in BOOLEAN, NEW e, Painted(s, osd_set_enabled(on), Len(osd_set_enabled(on)), e)
  PROVE  IsScreen(e) /\ e.on = on /\ e.cells = s.cells
<1>1. PICK v : v = IF on THEN 1 ELSE 0 OBVIOUS
<1>2. e = Paint(s, WriteSingle(REG_OSD_CTRL, v)) BY <1>1, PaintedOne DEF osd_set_enabled
<1>3. e = OsdControl(s, v) BY <1>2 DEF Paint, WriteSingle
<1>4. v < 2 /\ ((v % 2 = 1) <=> on) BY <1>1
<1>5. e = [s EXCEPT !.on = v % 2 = 1] BY <1>3, <1>4 DEF OsdControl
<1>6. QED BY <1>4, <1>5 DEF IsScreen

LEMMA ReadPainted ==
  ASSUME NEW s, NEW e, Painted(s, osd_enabled, Len(osd_enabled), e) PROVE e = s
<1>1. e = Paint(s, ReadHolding(REG_OSD_CTRL, 1)) BY PaintedOne DEF osd_enabled
<1>2. ReadHolding(REG_OSD_CTRL, 1).fn = "read" BY DEF ReadHolding
<1>3. QED BY <1>1, <1>2 DEF Paint

\* A post of the overlay that comes to its end has done what it says.
LEMMA PostPainted ==
  ASSUME NEW q, q.route = "osd_post", Typed(q), NEW s, IsScreen(s), NEW e,
         Painted(s, api_osd_post(q), Len(api_osd_post(q)), e)
  PROVE  /\ q.enabled # <<>> => e.on = q.enabled[1]
         /\ q.enabled = <<>> /\ ~ q.clear => e.on = s.on
         /\ \A k : Shown(k.cells, s.cells) => Shown(Posted(k, q), e.cells)
<1> DEFINE clear == IF q.clear THEN osd_clear ELSE <<>>
           lines == FlattenSeq(LineTexts(q))
           text == IF q.text # <<>> THEN osd_write_text(q.row, q.col, q.text[1]) ELSE <<>>
           on == IF q.enabled # <<>> THEN osd_set_enabled(q.enabled[1]) ELSE <<>>
<1>1. api_osd_post(q) = clear \o lines \o text \o on \o osd_enabled BY DEF api_osd_post, PostLines, PostText, PostEnabled, LineTexts
<1>2. /\ (q.text # <<>> => q.text[1] \in Seq(Chars)) /\ q.lines \in Seq(Seq(Chars)) /\ q.clear \in BOOLEAN
      /\ q.enabled \in {<<>>, <<TRUE>>, <<FALSE>>}
  BY DEF Typed
<1>3. PICK n \in Nat : n = Min({Len(q.lines), OSD_ROWS}) /\ n <= Len(q.lines) BY <1>2, LineSeq
<1>4. lines = FlattenSeq(Texts(q.lines, n)) BY <1>3 DEF LineTexts, Texts
<1>5. IsSeq(clear) /\ IsSeq(lines) /\ IsSeq(text) /\ IsSeq(on) /\ IsSeq(osd_enabled)
  <2>1. \A op : IsSeq(<<op>>)
    <3>1. \A op : <<op>> \in Seq({op}) OBVIOUS
    <3>2. QED BY <3>1 DEF IsSeq
  <2>2. IsSeq(<<>>)
    <3>1. <<>> \in Seq({}) OBVIOUS
    <3>2. QED BY <3>1 DEF IsSeq
  <2>3. IsSeq(clear) /\ IsSeq(on) /\ IsSeq(osd_enabled) BY <2>1, <2>2 DEF osd_clear, osd_set_enabled, osd_enabled
  <2>4. IsSeq(lines)
    <3>1. LineTexts(q) \in Seq(Seq(TextOps)) BY <1>2, LineSeq
    <3>2. FlattenSeq(LineTexts(q)) \in Seq(TextOps) BY <3>1, FlattenType
    <3>3. QED BY <3>2 DEF IsSeq
  <2>5. IsSeq(text)
    <3>1. CASE q.text # <<>>
      <4>1. osd_write_text(q.row, q.col, q.text[1]) \in Seq(TextOps) BY <1>2, <3>1, TextSeq
      <4>2. IsSeq(osd_write_text(q.row, q.col, q.text[1])) BY <4>1 DEF IsSeq
      <4>3. QED BY <3>1, <4>2
    <3>2. CASE q.text = <<>> BY <2>2, <3>2
    <3>3. QED BY <3>1, <3>2
  <2>6. QED BY <2>3, <2>4, <2>5
<1> DEFINE c2 == clear \o lines
           c3 == c2 \o text
           c4 == c3 \o on
<1>6. api_osd_post(q) = c4 \o osd_enabled BY <1>1
<1>7. \A a, b : IsSeq(a) /\ IsSeq(b) => IsSeq(a \o b) BY SeqJoin
<1> HIDE DEF clear, lines, text, on
<1>8. IsSeq(c2) BY <1>5, <1>7
<1> HIDE DEF c2
<1>9. IsSeq(c3) BY <1>5, <1>7, <1>8
<1> HIDE DEF c3
<1>10. IsSeq(c4) BY <1>5, <1>7, <1>9
<1> HIDE DEF c4
<1>11. PICK s4 : Painted(s, c4, Len(c4), s4) /\ Painted(s4, osd_enabled, Len(osd_enabled), e)
  <2>1. Painted(s, c4 \o osd_enabled, Len(c4 \o osd_enabled), e) BY <1>6
  <2>2. QED BY <1>5, <1>10, <2>1, PaintedJoin
<1>12. PICK s3 : Painted(s, c3, Len(c3), s3) /\ Painted(s3, on, Len(on), s4)
  <2>1. Painted(s, c3 \o on, Len(c3 \o on), s4) BY <1>11 DEF c4
  <2>2. QED BY <1>5, <1>9, <2>1, PaintedJoin
<1>13. PICK s2 : Painted(s, c2, Len(c2), s2) /\ Painted(s2, text, Len(text), s3)
  <2>1. Painted(s, c2 \o text, Len(c2 \o text), s3) BY <1>12 DEF c3
  <2>2. QED BY <1>5, <1>8, <2>1, PaintedJoin
<1>14. PICK s1 : Painted(s, clear, Len(clear), s1) /\ Painted(s1, lines, Len(lines), s2)
  <2>1. Painted(s, clear \o lines, Len(clear \o lines), s2) BY <1>13 DEF c2
  <2>2. QED BY <1>5, <2>1, PaintedJoin
<1> DEFINE base(k) == IF q.clear THEN <<[i \in 0..OSD_CELLS-1 |-> Blank]>> ELSE k.cells
<1>15. /\ IsScreen(s1) /\ (~ q.clear => s1.on = s.on)
       /\ \A k : Shown(k.cells, s.cells) => Shown(base(k), s1.cells)
  <2>1. CASE q.clear
    <3>1. clear = osd_clear BY <2>1 DEF clear
    <3>2. IsScreen(s1) /\ Alike(s1.cells, [i \in 0..OSD_CELLS-1 |-> Blank]) BY <1>14, <3>1, ClearPainted
    <3>3. QED BY <2>1, <3>2 DEF Shown
  <2>2. CASE ~ q.clear
    <3>1. clear = <<>> BY <2>2 DEF clear
    <3>2. s1 = s BY <1>14, <3>1, PaintedNone
    <3>3. QED BY <2>2, <3>2
  <2>3. QED BY <2>1, <2>2
<1>16. /\ IsScreen(s2) /\ s2.on = s1.on
       /\ \A cells : Alike(s1.cells, cells) => Alike(s2.cells, Lined(cells, q.lines, n))
  BY <1>2, <1>3, <1>4, <1>14, <1>15, LinesAlike
<1> DEFINE piece == [at |-> q.row * OSD_COLS + q.col, text |-> q.text[1]]
           over(cells) == IF q.text = <<>> THEN cells ELSE Written(cells, piece)
<1>17. /\ IsScreen(s3) /\ s3.on = s2.on
       /\ \A cells : Alike(s2.cells, cells) => Alike(s3.cells, over(cells))
  <2>1. CASE q.text # <<>>
    <3>1. text = osd_write_text(q.row, q.col, q.text[1]) BY <2>1 DEF text
    <3>2. Painted(s2, osd_write_text(q.row, q.col, q.text[1]), Len(osd_write_text(q.row, q.col, q.text[1])), s3)
      BY <1>13, <3>1
    <3>3. /\ IsScreen(s3) /\ s3.on = s2.on
          /\ \A cells : Alike(s2.cells, cells) => Alike(s3.cells, Written(cells, piece))
      BY <1>2, <1>16, <2>1, <3>2, TextAlike
    <3>4. QED BY <2>1, <3>3
  <2>2. CASE q.text = <<>>
    <3>1. text = <<>> BY <2>2 DEF text
    <3>2. s3 = s2 BY <1>13, <3>1, PaintedNone
    <3>3. QED BY <1>16, <2>2, <3>2
  <2>3. QED BY <2>1, <2>2
<1>18. /\ q.enabled # <<>> => s4.on = q.enabled[1]
       /\ q.enabled = <<>> => s4.on = s3.on
       /\ s4.cells = s3.cells
  <2>1. CASE q.enabled # <<>>
    <3>1. on = osd_set_enabled(q.enabled[1]) BY <2>1 DEF on
    <3>2. q.enabled[1] \in BOOLEAN
      <4>1. <<TRUE>>[1] = TRUE /\ <<FALSE>>[1] = FALSE OBVIOUS
      <4>2. CASE q.enabled = <<TRUE>> BY <4>1, <4>2
      <4>3. CASE q.enabled = <<FALSE>> BY <4>1, <4>3
      <4>4. QED BY <1>2, <2>1, <4>2, <4>3
    <3>3. Painted(s3, osd_set_enabled(q.enabled[1]), Len(osd_set_enabled(q.enabled[1])), s4) BY <1>12, <3>1
    <3>4. QED BY <1>17, <2>1, <3>2, <3>3, EnabledPainted
  <2>2. CASE q.enabled = <<>>
    <3>1. on = <<>> BY <2>2 DEF on
    <3>2. s4 = s3 BY <1>12, <3>1, PaintedNone
    <3>3. QED BY <2>2, <3>2
  <2>3. QED BY <2>1, <2>2
<1>19. e = s4 BY <1>11, ReadPainted
<1>20. ASSUME NEW k, Shown(k.cells, s.cells) PROVE Shown(Posted(k, q), e.cells)
  <2>1. Shown(base(k), s1.cells) BY <1>15, <1>20
  <2>2. Posted(k, q) = IF base(k) = <<>> THEN <<>> ELSE <<over(Lined(base(k)[1], q.lines, n))>>
    BY <1>3 DEF Posted
  <2> HIDE DEF base, over
  <2>3. CASE base(k) = <<>> BY <2>2, <2>3 DEF Shown
  <2>4. CASE base(k) # <<>>
    <3>1. Alike(s1.cells, base(k)[1]) BY <2>1, <2>4 DEF Shown
    <3>2. Alike(s3.cells, over(Lined(base(k)[1], q.lines, n))) BY <1>16, <1>17, <3>1
    <3>3. QED BY <1>18, <1>19, <2>2, <2>4, <3>2 DEF Shown
  <2>5. QED BY <2>3, <2>4
<1>21. QED BY <1>15, <1>16, <1>17, <1>18, <1>19, <1>20

\* The requests that change whether the overlay is shown, and its cells.
Hides(q) == q.route = "osd_post" \/ (q.route = "raw_post" /\ q.addr = REG_OSD_CTRL)
Draws(q) == q.route = "osd_post" \/ (q.route = "raw_post" /\ q.addr \in {REG_OSD_CTRL, REG_OSD_DATA})

LEMMA TouchesOverlay ==
  ASSUME NEW q, Typed(q), ~ Refused(q)
  PROVE  /\ REG_OSD_CTRL \in Touches(q) => Hides(q)
         /\ REG_OSD_DATA \in Touches(q) => Draws(q)
<1> DEFINE Two == {REG_OSD_CTRL, REG_OSD_DATA}
<1>1. Two \cap CamRegs = {} BY CamLow DEF REG_OSD_CTRL, REG_OSD_DATA
<1>2. \A a \in {REG_GRAB, REG_STREAM, REG_REINIT, REG_MCU_RESET, REG_BOOT_LEN, REG_BOOT_DATA, REG_OSD_ADDR} :
        a \notin Two
  BY DEF REG_OSD_CTRL, REG_OSD_DATA, REG_GRAB, REG_STREAM, REG_REINIT, REG_MCU_RESET, REG_BOOT_LEN,
         REG_BOOT_DATA, REG_OSD_ADDR
<1>3. CASE q.route = "control"
  <2>1. q.id \in Ids BY <1>3 DEF Refused, Ids
  <2>2. RegsOf(CONTROLS[q.id]) \subseteq CamRegs BY <2>1, CamHas
  <2>3. Range(gamma_register_addrs) \subseteq CamRegs BY DEF CamRegs
  <2>4. Touches(q) \subseteq CamRegs BY <1>3, <2>2, <2>3 DEF Touches
  <2>5. QED BY <1>1, <2>4
<1>4. CASE q.route = "coeff"
  <2>1. q.index \in Coeffs BY <1>4 DEF Refused, Coeffs
  <2>2. MTX_REGS[q.index + 1] \in CamRegs /\ MTXS_REG \in CamRegs BY <2>1, CamHas
  <2>3. Touches(q) = {MTX_REGS[q.index + 1], MTXS_REG} BY <1>4 DEF Touches
  <2>4. Touches(q) \subseteq CamRegs BY <2>2, <2>3
  <2>5. QED BY <1>1, <2>4
<1>5. CASE q.route = "center"
  <2>1. Touches(q) \subseteq CamRegs BY <1>5, CamHas DEF Touches
  <2>2. QED BY <1>1, <2>1
<1>6. CASE q.route \in {"osd_post", "raw_post"} BY <1>6 DEF Touches, Hides, Draws
<1>7. CASE q.route \notin {"control", "coeff", "center", "osd_post", "raw_post"} BY <1>2, <1>7 DEF Touches
<1>8. QED BY <1>3, <1>4, <1>5, <1>6, <1>7

\* An operation changes no more of the overlay than its request may.
Spares(q, d, e) ==
  /\ Healthy(e)
  /\ REG_OSD_CTRL \notin Touches(q) => e.on = d.on
  /\ REG_OSD_CTRL \notin Touches(q) /\ REG_OSD_DATA \notin Touches(q) => e.cells = d.cells

LEMMA ExecuteSpares ==
  ASSUME NEW d, Healthy(d), NEW q, NEW op, Tame(q, op)
  PROVE  Spares(q, d, Execute(d, op)[2])
<1>0. PICK e : e = Execute(d, op)[2] OBVIOUS
<1>h. Healthy(e) BY <1>0, ExecuteHealthy
<1>g. SUFFICES Spares(q, d, e) BY <1>0
<1>1. CASE op.fn = "write"
  <2>1. e = WriteReg(d, op.addr, op.value) BY <1>0, <1>1 DEF Execute
  <2>2. Wrote(d, op.addr, op.value, e) BY <2>1, WriteFace DEF Healthy
  <2>3. op.addr \in Touches(q) BY <1>1 DEF Tame
  <2>4. CASE op.addr \in CamRegs \/ op.addr = REG_REINIT \/ op.addr = REG_OSD_ADDR
    <3>1. e.on = d.on /\ e.cells = d.cells BY <2>2, <2>4 DEF Wrote, Healthy, BoardFields
    <3>2. QED BY <1>h, <3>1 DEF Spares
  <2>6. CASE op.addr = REG_OSD_CTRL BY <1>h, <2>3, <2>6 DEF Spares
  <2>8. CASE op.addr = REG_OSD_DATA
    <3>0. PICK v : v = op.value OBVIOUS
    <3>1. e = Advance([d EXCEPT !.cells[d.cursor] = v]) BY <2>2, <2>8, <3>0 DEF Wrote
    <3>2. e.on = d.on BY <3>1 DEF Advance, Healthy, BoardFields
    <3>3. QED BY <1>h, <2>3, <2>8, <3>2 DEF Spares
  <2>9. CASE op.addr \notin FaceRegs BY <1>h, <2>2, <2>9 DEF Wrote, Spares, Face
  <2>10. QED BY <2>4, <2>6, <2>8, <2>9 DEF FaceRegs
<1>2. CASE op.fn # "write"
  <2>1. e = ReadRegs(d, op.addr, op.count)[2] BY <1>0, <1>2 DEF Execute
  <2>2. Face(e) = Face(d) BY <2>1, ReadFace DEF Healthy
  <2>3. QED BY <1>h, <2>2 DEF Face, Spares
<1>3. QED BY <1>1, <1>2

LEMMA AfterSpares ==
  ASSUME NEW d, Healthy(d), NEW q, NEW op, Tame(q, op), NEW n \in Nat
  PROVE  Spares(q, d, After(d, op, n))
<1>1. PICK f : /\ f[0] = d
               /\ \A i \in Nat : i < n => f[i+1] = Execute(f[i], op)[2]
               /\ After(d, op, n) = f[n]
  BY AfterRuns
<1> DEFINE N == {i \in Nat : i <= n => Spares(q, d, f[i])}
<1>2. 0 \in N BY <1>1 DEF Spares
<1>3. ASSUME NEW i \in Nat, i \in N PROVE i + 1 \in N
  <2>1. SUFFICES ASSUME i + 1 <= n PROVE Spares(q, d, f[i+1]) OBVIOUS
  <2>2. i < n /\ Spares(q, d, f[i]) BY <1>3, <2>1
  <2>3. Healthy(f[i]) BY <2>2 DEF Spares
  <2>4. Spares(q, f[i], f[i+1]) BY <1>1, <2>2, <2>3, ExecuteSpares
  <2>5. QED BY <2>2, <2>4 DEF Spares
<1> HIDE DEF N
<1>4. Nat \subseteq N BY <1>2, <1>3, Induction
<1>5. QED BY <1>1, <1>4 DEF N

LEMMA AnswerSpares ==
  ASSUME NEW d, Healthy(d), NEW q, NEW op, Tame(q, op), NEW n \in Nat \ {0}
  PROVE  Spares(q, d, Answered(d, op, n)[2])
<1>1. CASE op.fn = "wait" BY <1>1 DEF Answered, Spares
<1>2. CASE op.fn # "wait"
  <2>1. n - 1 \in Nat OBVIOUS
  <2>2. PICK x : x = After(d, op, n - 1) OBVIOUS
  <2>3. Spares(q, d, x) BY <2>1, <2>2, AfterSpares
  <2>4. Spares(q, x, Execute(x, op)[2]) BY <2>3, ExecuteSpares DEF Spares
  <2>5. Answered(d, op, n) = Execute(x, op) BY <1>2, <2>2 DEF Answered
  <2>6. QED BY <2>3, <2>4, <2>5 DEF Spares
<1>3. QED BY <1>1, <1>2

-----------------------------------------------------------------------------
(* The operations of a post *)

PostOps == TextOps \cup {WriteSingle(REG_OSD_CTRL, v) : v \in {0, 1, 2}} \cup {ReadHolding(REG_OSD_CTRL, 1)}

LEMMA PostSeq ==
  ASSUME NEW q, q.route = "osd_post", Typed(q)
  PROVE  api_osd_post(q) \in Seq(PostOps)
<1> DEFINE clear == IF q.clear THEN osd_clear ELSE <<>>
           lines == FlattenSeq(LineTexts(q))
           text == IF q.text # <<>> THEN osd_write_text(q.row, q.col, q.text[1]) ELSE <<>>
           on == IF q.enabled # <<>> THEN osd_set_enabled(q.enabled[1]) ELSE <<>>
<1>1. api_osd_post(q) = clear \o lines \o text \o on \o osd_enabled BY DEF api_osd_post, PostLines, PostText, PostEnabled, LineTexts
<1>2. (q.text # <<>> => q.text[1] \in Seq(Chars)) /\ q.lines \in Seq(Seq(Chars)) BY DEF Typed
<1>3. \A v \in {0, 1, 2} : WriteSingle(REG_OSD_CTRL, v) \in PostOps BY DEF PostOps
<1>4. ReadHolding(REG_OSD_CTRL, 1) \in PostOps /\ TextOps \subseteq PostOps BY DEF PostOps
<1>5. \A op \in PostOps : <<op>> \in Seq(PostOps) OBVIOUS
<1>6. <<>> \in Seq(PostOps) OBVIOUS
<1>7. \A s \in Seq(TextOps) : s \in Seq(PostOps) BY <1>4
<1>8. clear \in Seq(PostOps) BY <1>3, <1>5, <1>6 DEF osd_clear
<1>9. lines \in Seq(PostOps)
  <2>1. LineTexts(q) \in Seq(Seq(TextOps)) BY <1>2, LineSeq
  <2>2. FlattenSeq(LineTexts(q)) \in Seq(TextOps) BY <2>1, FlattenType
  <2>3. QED BY <1>7, <2>2
<1>10. text \in Seq(PostOps)
  <2>1. CASE q.text # <<>>
    <3>1. osd_write_text(q.row, q.col, q.text[1]) \in Seq(TextOps) BY <1>2, <2>1, TextSeq
    <3>2. QED BY <1>7, <2>1, <3>1
  <2>2. CASE q.text = <<>> BY <1>6, <2>2
  <2>3. QED BY <2>1, <2>2
<1>11. on \in Seq(PostOps) BY <1>3, <1>5, <1>6 DEF osd_set_enabled
<1>12. osd_enabled \in Seq(PostOps) BY <1>4, <1>5 DEF osd_enabled
<1> HIDE DEF clear, lines, text, on, PostOps
<1>13. clear \o lines \in Seq(PostOps) BY <1>8, <1>9, JoinSeq
<1>14. clear \o lines \o text \in Seq(PostOps) BY <1>10, <1>13, JoinSeq
<1>15. clear \o lines \o text \o on \in Seq(PostOps) BY <1>11, <1>14, JoinSeq
<1>16. QED BY <1>1, <1>12, <1>15, JoinSeq

\* What an operation of a post is.
LEMMA PostOp ==
  ASSUME NEW op \in PostOps, op.fn # "raise"
  PROVE  \/ op.fn = "write" /\ op.addr = REG_OSD_CTRL
         \/ op.fn = "write" /\ op.addr = REG_OSD_ADDR /\ op.value \in Cells
         \/ op.fn = "write" /\ op.addr = REG_OSD_DATA
         \/ op.fn = "read" /\ op.addr = REG_OSD_CTRL /\ op.count = 1
<1>1. CASE op \in TextOps
  <2>1. op # Raise BY DEF Raise
  <2>2. QED BY <1>1, <2>1 DEF TextOps, WriteSingle, Cells
<1>2. CASE op \in {WriteSingle(REG_OSD_CTRL, v) : v \in {0, 1, 2}} BY <1>2 DEF WriteSingle
<1>3. CASE op = ReadHolding(REG_OSD_CTRL, 1)
  <2>1. op = [fn |-> "read", addr |-> REG_OSD_CTRL, count |-> 1, value |-> 0] BY <1>3 DEF ReadHolding
  <2>2. QED BY <2>1
<1>4. QED BY <1>1, <1>2, <1>3 DEF PostOps

LEMMA ExecutePaints ==
  ASSUME NEW d, Healthy(d), NEW op \in PostOps, op.fn # "raise"
  PROVE  Healthy(Execute(d, op)[2]) /\ Screen(Execute(d, op)[2]) = Paint(Screen(d), op)
<1>e. PICK e : e = Execute(d, op)[2] OBVIOUS
<1>s. PICK s : s = Screen(d) OBVIOUS
<1>0. s = [on |-> d.on, cursor |-> d.cursor, cells |-> d.cells] BY <1>s DEF Screen
<1>goal. SUFFICES Healthy(e) /\ Screen(e) = Paint(s, op) BY <1>e, <1>s
<1>1. REG_OSD_CTRL # REG_OSD_ADDR /\ REG_OSD_CTRL # REG_OSD_DATA /\ REG_OSD_ADDR # REG_OSD_DATA
      /\ REG_OSD_CTRL \notin CamRegs /\ REG_OSD_ADDR \notin CamRegs /\ REG_OSD_DATA \notin CamRegs
  BY CamLow DEF REG_OSD_CTRL, REG_OSD_ADDR, REG_OSD_DATA
<1>2. CASE op.fn = "write"
  <2>1. e = WriteReg(d, op.addr, op.value) BY <1>2, <1>e DEF Execute
  <2>2. Wrote(d, op.addr, op.value, e) BY <2>1, WriteFace DEF Healthy
  <2>3. op.addr = REG_OSD_ADDR => op.value \in Cells BY <1>1, <1>2, PostOp
  <2>4. op.addr \in {REG_OSD_CTRL, REG_OSD_ADDR, REG_OSD_DATA} BY <1>2, PostOp
  <2>5. Healthy(e) BY <1>1, <2>2, <2>3, <2>4, WroteHealthy DEF Cells
  <2>6. CASE op.addr = REG_OSD_CTRL
    <3>1. e = OsdControl(d, op.value) BY <2>2, <2>6 DEF Wrote
    <3>2. Paint(s, op) = OsdControl(s, op.value) BY <1>2, <2>6 DEF Paint
    <3>3. PICK v : v = op.value OBVIOUS
    <3> DEFINE x == v % 2 = 1
               zero == [i \in DOMAIN d.cells |-> 0]
    <3>4. CASE v < 2
      <4>1. e = [d EXCEPT !.on = x] BY <3>1, <3>3, <3>4 DEF OsdControl
      <4>2. Paint(s, op) = [s EXCEPT !.on = x] BY <3>2, <3>3, <3>4 DEF OsdControl
      <4> HIDE DEF x
      <4>3. QED BY <1>0, <4>1, <4>2, <2>5 DEF Screen, Healthy, BoardFields
    <3>5. CASE ~ (v < 2)
      <4> HIDE DEF x
      <4>1. e = [[d EXCEPT !.on = x] EXCEPT !.cells = [i \in DOMAIN @ |-> 0], !.cursor = 0]
        BY <3>1, <3>3, <3>5 DEF OsdControl, x
      <4>2. Paint(s, op) = [[s EXCEPT !.on = x] EXCEPT !.cells = [i \in DOMAIN @ |-> 0], !.cursor = 0]
        BY <3>2, <3>3, <3>5 DEF OsdControl, x
      <4>3. e.on = x /\ e.cells = zero /\ e.cursor = 0 BY <4>1 DEF Healthy, BoardFields
      <4>4. Paint(s, op) = [on |-> x, cursor |-> 0, cells |-> zero] BY <1>0, <4>2
      <4> HIDE DEF zero
      <4>5. QED BY <2>5, <4>3, <4>4 DEF Screen
    <3>6. QED BY <3>4, <3>5
  <2>7. CASE op.addr = REG_OSD_ADDR
    <3>1. e = [d EXCEPT !.cursor = op.value] BY <2>2, <2>7 DEF Wrote
    <3>2. Paint(s, op) = [s EXCEPT !.cursor = op.value] BY <1>1, <1>2, <2>7 DEF Paint
    <3>3. QED BY <1>0, <2>5, <3>1, <3>2 DEF Screen, Healthy, BoardFields
  <2>8. CASE op.addr = REG_OSD_DATA
    <3>1. PICK v : v = op.value OBVIOUS
    <3>2. e = Advance([d EXCEPT !.cells[d.cursor] = v]) BY <2>2, <2>8, <3>1 DEF Wrote
    <3>3. Paint(s, op) = Advance([s EXCEPT !.cells[s.cursor] = v]) BY <1>1, <1>2, <2>8, <3>1 DEF Paint
    <3> DEFINE to == [d.cells EXCEPT ![d.cursor] = v]
               at == (d.cursor + 1) % OSD_CELLS
    <3>4. e.on = d.on /\ e.cells = to /\ e.cursor = at
      BY <3>2 DEF Advance, Healthy, BoardFields
    <3>5. Paint(s, op) = [on |-> d.on, cursor |-> at, cells |-> to]
      <4>1. [s EXCEPT !.cells[s.cursor] = v] = [on |-> d.on, cursor |-> d.cursor, cells |-> to] BY <1>0
      <4>2. QED BY <3>3, <4>1 DEF Advance
    <3> HIDE DEF to, at
    <3>6. QED BY <2>5, <3>4, <3>5 DEF Screen
  <2>9. QED BY <2>4, <2>6, <2>7, <2>8
<1>3. CASE op.fn # "write"
  <2>1. op.addr = REG_OSD_CTRL /\ op.count = 1 BY <1>3, PostOp
  <2>2. e = ReadRegs(d, REG_OSD_CTRL, 1)[2] BY <1>3, <1>e, <2>1 DEF Execute
  <2>3. ~ Streams(REG_OSD_CTRL)
    BY DEF Streams, REG_OSD_CTRL, REG_OSD_DATA, OSD_STREAM_BASE
  <2>4. Face(e) = Face(d) /\ e.cursor = d.cursor BY <2>2, <2>3, ReadFace DEF Healthy
  <2>5. Healthy(e) BY <2>2, ReadHealthy
  <2>6. Paint(s, op) = s BY <1>3 DEF Paint
  <2>7. QED BY <1>0, <2>4, <2>5, <2>6 DEF Face, Screen
<1>4. QED BY <1>2, <1>3

\* What one operation of a post makes of the overlay, field by field.
LEMMA PaintIs ==
  ASSUME NEW s, IsScreen(s), NEW op
  PROVE  /\ op.fn # "write" => Paint(s, op) = s
         /\ op.fn = "write" /\ op.addr = REG_OSD_CTRL =>
              Paint(s, op) = [on |-> op.value % 2 = 1, cursor |-> IF op.value < 2 THEN s.cursor ELSE 0,
                              cells |-> IF op.value < 2 THEN s.cells ELSE [i \in Cells |-> 0]]
         /\ op.fn = "write" /\ op.addr = REG_OSD_ADDR =>
              Paint(s, op) = [on |-> s.on, cursor |-> op.value, cells |-> s.cells]
         /\ op.fn = "write" /\ op.addr = REG_OSD_DATA =>
              Paint(s, op) = [on |-> s.on, cursor |-> (s.cursor + 1) % OSD_CELLS,
                              cells |-> [s.cells EXCEPT ![s.cursor] = op.value]]
<1>0. REG_OSD_CTRL # REG_OSD_ADDR /\ REG_OSD_CTRL # REG_OSD_DATA /\ REG_OSD_ADDR # REG_OSD_DATA
  BY DEF REG_OSD_CTRL, REG_OSD_ADDR, REG_OSD_DATA
<1>1. DOMAIN s = {"on", "cursor", "cells"} /\ DOMAIN s.cells = Cells BY DEF IsScreen
<1>2. PICK v : v = op.value OBVIOUS
<1>3. ASSUME op.fn = "write", op.addr = REG_OSD_CTRL
      PROVE  Paint(s, op) = [on |-> v % 2 = 1, cursor |-> IF v < 2 THEN s.cursor ELSE 0,
                             cells |-> IF v < 2 THEN s.cells ELSE [i \in Cells |-> 0]]
  <2>1. Paint(s, op) = OsdControl(s, v) BY <1>2, <1>3 DEF Paint
  <2> DEFINE x == v % 2 = 1
             zero == [i \in Cells |-> 0]
  <2>2. CASE v < 2
    <3>1. Paint(s, op) = [s EXCEPT !.on = x] BY <2>1, <2>2 DEF OsdControl
    <3> HIDE DEF x
    <3>2. Paint(s, op) = [on |-> x, cursor |-> s.cursor, cells |-> s.cells] BY <1>1, <3>1
    <3>3. QED BY <2>2, <3>2 DEF x
  <2>3. CASE ~ (v < 2)
    <3>1. Paint(s, op) = [[s EXCEPT !.on = x] EXCEPT !.cells = [i \in DOMAIN @ |-> 0], !.cursor = 0]
      BY <2>1, <2>3 DEF OsdControl
    <3> HIDE DEF x
    <3>2. [i \in DOMAIN s.cells |-> 0] = zero BY <1>1
    <3> HIDE DEF zero
    <3>3. Paint(s, op) = [on |-> x, cursor |-> 0, cells |-> zero] BY <1>1, <3>1, <3>2
    <3>4. QED BY <2>3, <3>3 DEF x, zero
  <2>4. QED BY <2>2, <2>3
<1>4. ASSUME op.fn = "write", op.addr = REG_OSD_ADDR
      PROVE  Paint(s, op) = [on |-> s.on, cursor |-> v, cells |-> s.cells]
  <2>1. Paint(s, op) = [s EXCEPT !.cursor = v] BY <1>0, <1>2, <1>4 DEF Paint
  <2>2. QED BY <1>1, <2>1
<1>5. ASSUME op.fn = "write", op.addr = REG_OSD_DATA
      PROVE  Paint(s, op) = [on |-> s.on, cursor |-> (s.cursor + 1) % OSD_CELLS,
                             cells |-> [s.cells EXCEPT ![s.cursor] = v]]
  <2>1. Paint(s, op) = Advance([s EXCEPT !.cells[s.cursor] = v]) BY <1>0, <1>2, <1>5 DEF Paint
  <2>2. PICK to : to = [s.cells EXCEPT ![s.cursor] = v] OBVIOUS
  <2>3. [s EXCEPT !.cells[s.cursor] = v] = [on |-> s.on, cursor |-> s.cursor, cells |-> to] BY <1>1, <2>2
  <2>4. Paint(s, op) = [on |-> s.on, cursor |-> (s.cursor + 1) % OSD_CELLS, cells |-> to]
    BY <2>1, <2>3 DEF Advance
  <2>5. QED BY <2>2, <2>4
<1>6. op.fn # "write" => Paint(s, op) = s BY DEF Paint
<1>7. QED BY <1>2, <1>3, <1>4, <1>5, <1>6

\* Sent again, an operation does the same, or at least shows the same.
PaintsAgain(s, op) ==
  /\ IsScreen(Paint(s, op)) /\ Paint(Paint(s, op), op).on = Paint(s, op).on
  /\ ~ Repeats(op) => Paint(Paint(s, op), op) = Paint(s, op)

LEMMA PaintAgain ==
  ASSUME NEW op \in PostOps, op.fn # "raise", NEW s, IsScreen(s)
  PROVE  PaintsAgain(s, op) /\ \A x : IsScreen(x) /\ x.on = s.on => Paint(x, op).on = Paint(s, op).on
<1>0. /\ DOMAIN s = {"on", "cursor", "cells"} /\ DOMAIN s.cells = Cells /\ s.cursor \in Cells
      /\ OSD_CELLS \in Nat \ {0} /\ 0 \in Cells
  BY GridCell DEF IsScreen, Cells
<1>k. PICK e : e = Paint(s, op) OBVIOUS
<1>1. CASE op.fn # "write"
  <2>1. \A x : IsScreen(x) => Paint(x, op) = x BY <1>1, PaintIs
  <2>2. QED BY <2>1 DEF PaintsAgain
<1>2. CASE op.fn = "write" /\ op.addr = REG_OSD_CTRL
  <2>1. PICK v, on : v = op.value /\ on = (v % 2 = 1) OBVIOUS
  <2>2. \A x : IsScreen(x) => Paint(x, op) = [on |-> v % 2 = 1, cursor |-> IF v < 2 THEN x.cursor ELSE 0,
                                              cells |-> IF v < 2 THEN x.cells ELSE [i \in Cells |-> 0]]
    BY <1>2, <2>1, PaintIs
  <2>3. \A x : IsScreen(x) => Paint(x, op) = [on |-> on, cursor |-> IF v < 2 THEN x.cursor ELSE 0,
                                              cells |-> IF v < 2 THEN x.cells ELSE [i \in Cells |-> 0]]
    BY <2>1, <2>2
  <2>4. e = [on |-> on, cursor |-> IF v < 2 THEN s.cursor ELSE 0,
             cells |-> IF v < 2 THEN s.cells ELSE [i \in Cells |-> 0]]
    BY <1>k, <2>3
  <2>5. IsScreen(e) BY <1>0, <2>4 DEF IsScreen
  <2>6. Paint(e, op) = e BY <2>3, <2>4, <2>5
  <2>7. \A x : IsScreen(x) => Paint(x, op).on = on BY <2>3
  <2>8. QED BY <1>k, <2>5, <2>6, <2>7 DEF PaintsAgain
<1>3. CASE op.fn = "write" /\ op.addr = REG_OSD_ADDR /\ op.value \in Cells
  <2>1. \A x : IsScreen(x) => Paint(x, op) = [on |-> x.on, cursor |-> op.value, cells |-> x.cells]
    BY <1>3, PaintIs
  <2>2. e = [on |-> s.on, cursor |-> op.value, cells |-> s.cells] BY <1>k, <2>1
  <2>3. IsScreen(e) BY <1>0, <1>3, <2>2 DEF IsScreen
  <2>4. Paint(e, op) = e BY <2>1, <2>2, <2>3
  <2>5. \A x : IsScreen(x) => Paint(x, op).on = x.on BY <2>1
  <2>6. QED BY <1>k, <2>3, <2>4, <2>5 DEF PaintsAgain
<1>4. CASE op.fn = "write" /\ op.addr = REG_OSD_DATA
  <2>1. \A x : IsScreen(x) => Paint(x, op) = [on |-> x.on, cursor |-> (x.cursor + 1) % OSD_CELLS,
                                              cells |-> [x.cells EXCEPT ![x.cursor] = op.value]]
    BY <1>4, PaintIs
  <2>2. PICK to, at : to = [s.cells EXCEPT ![s.cursor] = op.value] /\ at = (s.cursor + 1) % OSD_CELLS OBVIOUS
  <2>3. e = [on |-> s.on, cursor |-> at, cells |-> to] BY <1>k, <2>1, <2>2
  <2>4. at \in Cells /\ DOMAIN to = Cells
    <3>1. s.cursor + 1 \in Nat BY <1>0 DEF Cells
    <3>2. QED BY <1>0, <2>2, <3>1, NextCell DEF Cells
  <2>5. IsScreen(e) BY <2>3, <2>4 DEF IsScreen
  <2>6. \A x : IsScreen(x) => Paint(x, op).on = x.on BY <2>1
  <2>7. Repeats(op) BY <1>4 DEF Repeats
  <2>8. QED BY <1>k, <2>5, <2>6, <2>7 DEF PaintsAgain
<1>5. QED BY <1>1, <1>2, <1>3, <1>4, PostOp

LEMMA HealthyScreen == ASSUME NEW d, Healthy(d) PROVE IsScreen(Screen(d))
BY DEF Healthy, Screen, IsScreen, Cells

\* The board after an operation of a post that was sent n times.
LEMMA AnswerPaints ==
  ASSUME NEW d, Healthy(d), NEW op \in PostOps, op.fn # "raise", NEW n \in Nat \ {0}
  PROVE  LET e == Answered(d, op, n)[2]
         IN  /\ e.on = Paint(Screen(d), op).on
             /\ n = 1 \/ ~ Repeats(op) => Screen(e) = Paint(Screen(d), op)
<1>0. n - 1 \in Nat /\ op.fn # "wait" BY PostOp
<1>1. PICK f : /\ f[0] = d
               /\ \A i \in Nat : i < n - 1 => f[i+1] = Execute(f[i], op)[2]
               /\ After(d, op, n - 1) = f[n-1]
  BY <1>0, AfterRuns
<1>2. PICK s : s = Screen(d) OBVIOUS
<1> DEFINE Good(x) == /\ Healthy(x) /\ Paint(Screen(x), op).on = Paint(s, op).on
                      /\ ~ Repeats(op) => Paint(Screen(x), op) = Paint(s, op)
           N == {i \in Nat : i <= n - 1 => Good(f[i])}
<1>3. 0 \in N BY <1>1, <1>2
<1>4. ASSUME NEW i \in Nat, i \in N PROVE i + 1 \in N
  <2>1. SUFFICES ASSUME i + 1 <= n - 1 PROVE Good(f[i+1])
    <3> HIDE DEF Good
    <3>1. QED BY <2>1
  <2>2. i < n - 1 /\ Good(f[i]) BY <1>4, <2>1
  <2>3. PICK x : x = f[i] OBVIOUS
  <2>4. PICK y : y = f[i+1] OBVIOUS
  <2>5. y = Execute(x, op)[2] BY <1>1, <2>2, <2>3, <2>4
  <2>6. Healthy(y) /\ Screen(y) = Paint(Screen(x), op) BY <2>2, <2>3, <2>5, ExecutePaints
  <2>7. IsScreen(Screen(x)) BY <2>2, <2>3, HealthyScreen
  <2>8. PaintsAgain(Screen(x), op) BY <2>7, PaintAgain
  <2>9. QED BY <2>2, <2>3, <2>4, <2>6, <2>8 DEF PaintsAgain
<1> HIDE DEF N
<1>5. Nat \subseteq N BY <1>3, <1>4, Induction
<1>6. PICK x : x = f[n-1] OBVIOUS
<1>7. Good(x) BY <1>0, <1>5, <1>6 DEF N
<1>8. PICK e : e = Answered(d, op, n)[2] OBVIOUS
<1>9. e = Execute(x, op)[2] BY <1>0, <1>1, <1>6, <1>8 DEF Answered
<1>10. Screen(e) = Paint(Screen(x), op) BY <1>7, <1>9, ExecutePaints
<1>11. e.on = Screen(e).on BY DEF Screen
<1>12. n = 1 => x = d BY <1>1, <1>6
<1>13. QED BY <1>2, <1>7, <1>8, <1>10, <1>11, <1>12

-----------------------------------------------------------------------------
(* What GET of the overlay asks for, and what it has *)

NLook == Len(Chunks(OSD_CELLS, MAX_READ))
LookRead(j) == ReadHolding(OSD_STREAM_BASE, Chunks(OSD_CELLS, MAX_READ)[j])
Upto(k) == IF k * MAX_READ <= OSD_CELLS THEN k * MAX_READ ELSE OSD_CELLS

LEMMA LookSum ==
  ASSUME NEW i \in 1..NLook
  PROVE  /\ Chunks(OSD_CELLS, MAX_READ)[i] \in 0..MAX_READ
         /\ Upto(i) = Upto(i-1) + Chunks(OSD_CELLS, MAX_READ)[i]
         /\ Upto(i-1) < OSD_CELLS
         /\ Upto(i-1) \in Nat
         /\ i = NLook => Upto(i) = OSD_CELLS
<1> DEFINE F == OSD_CELLS
           M == MAX_READ
           C == (F + M - 1) \div M
<1>1. F \in Nat \ {0} /\ M \in Nat \ {0} BY StreamAssumption, GridCell
<1> HIDE DEF F, M
<1>2. C \in Nat /\ (F + M - 1) % M \in 0..M-1 /\ F + M - 1 = M * C + ((F + M - 1) % M)
  <2>1. F + M - 1 \in Nat BY <1>1
  <2>2. QED BY <1>1, <2>1, Quotient
<1>3. F \div M \in Nat /\ F % M \in 0..M-1 /\ F = M * (F \div M) + (F % M) BY <1>1, Quotient
<1> HIDE DEF C
<1>4. Chunks(OSD_CELLS, MAX_READ) = [k \in 1..C |-> IF k * M <= F THEN M ELSE F % M]
  BY DEF Chunks, F, M, C
<1>5. NLook = C BY <1>2, <1>4 DEF NLook
<1>6. i \in 1..C BY <1>5
<1>7. M * C <= F + M - 1 /\ F <= M * C BY <1>1, <1>2
<1>8. (i - 1) * M < F /\ (i - 1) * M \in Nat
  <2>1. (i - 1) * M = i * M - M BY <1>1, <1>6
  <2>2. i * M <= C * M /\ C * M = M * C BY <1>1, <1>2, <1>6
  <2>3. QED BY <1>1, <1>2, <1>6, <1>7, <2>1, <2>2
<1>9. Upto(i-1) = (i - 1) * M BY <1>1, <1>8 DEF Upto, F, M
<1>10. Chunks(OSD_CELLS, MAX_READ)[i] = IF i * M <= F THEN M ELSE F % M BY <1>4, <1>6
<1>11. (i - 1) * M = i * M - M /\ i * M \in Nat BY <1>1, <1>6
<1>12. CASE i * M <= F
  <2>1. Upto(i) = i * M BY <1>12 DEF Upto, F, M
  <2>2. i = C => i * M = F
    <3>1. i = C => i * M = M * C BY <1>1, <1>2, <1>6
    <3>2. QED BY <1>7, <1>12, <3>1, <1>1, <1>11
  <2>3. QED BY <1>1, <1>5, <1>8, <1>9, <1>10, <1>11, <1>12, <2>1, <2>2 DEF F, M
<1>13. CASE ~ (i * M <= F)
  <2>1. Upto(i) = F BY <1>13 DEF Upto, F, M
  <2>2. F % M = F - (i - 1) * M
    <3>1. PICK q \in Nat : q = i - 1 BY <1>6
    <3>2. PICK r : r = F - q * M OBVIOUS
    <3>3. q * M = M * q /\ q * M = (i - 1) * M BY <1>1, <1>6, <3>1
    <3>4. r \in 0..M-1 /\ F = M * q + r BY <1>1, <1>6, <1>8, <1>11, <1>13, <3>2, <3>3
    <3>5. F % M = r BY <1>1, <3>1, <3>4, Remainder
    <3>6. QED BY <3>2, <3>3, <3>5
  <2>3. QED BY <1>1, <1>3, <1>8, <1>9, <1>10, <1>13, <2>1, <2>2 DEF F, M
<1>14. QED BY <1>12, <1>13

LEMMA SomeLooks == NLook \in Nat \ {0}
<1>1. PICK F \in Nat \ {0}, M \in Nat \ {0} : F = OSD_CELLS /\ M = MAX_READ BY StreamAssumption, GridCell
<1>2. PICK C : C = (F + M - 1) \div M OBVIOUS
<1>3. NLook \in Nat /\ NLook = C BY <1>1, <1>2, ChunkCount DEF NLook
<1>4. (F + M - 1) % M \in 0..M-1 /\ F + M - 1 = M * C + ((F + M - 1) % M)
  <2>1. F + M - 1 \in Nat OBVIOUS
  <2>2. QED BY <1>2, <2>1, Quotient
<1>5. C # 0
  <2>1. SUFFICES ASSUME C = 0 PROVE FALSE OBVIOUS
  <2>2. M * C = 0 BY <2>1
  <2>3. QED BY <1>4, <2>2
<1>6. QED BY <1>3, <1>5

\* The operations of a GET in their order.
LEMMA LookOp ==
  ASSUME NEW got, IsSeq(got), NEW q, q.route = "osd"
  PROVE  /\ Len(got) \in Nat
         /\ Len(got) = 0 => OpAfter(q, got) = ReadHolding(REG_OSD_CTRL, 1)
         /\ Len(got) = 1 => OpAfter(q, got) = WriteSingle(REG_OSD_ADDR, 0)
         /\ Len(got) \in 2..NLook+1 => OpAfter(q, got) = LookRead(Len(got) - 1)
         /\ Len(got) >= NLook + 2 => OpAfter(q, got) = End
<1> DEFINE one == <<ReadHolding(REG_OSD_CTRL, 1)>>
           two == <<WriteSingle(REG_OSD_ADDR, 0)>>
           str == ReadStream(OSD_STREAM_BASE, OSD_CELLS)
           body == one \o (two \o str)
           n == NLook
<1>1. Program(q, got) = body BY DEF Program, api_osd_get, osd_enabled, osd_read_text
<1>2. PICK l \in Nat : l = Len(got)
  <2>1. PICK S : got \in Seq(S) BY DEF IsSeq
  <2>2. QED BY <2>1
<1>3. n \in Nat /\ str = [i \in 1..n |-> LookRead(i)]
  BY SomeLooks DEF ReadStream, NLook, LookRead
<1> HIDE DEF n
<1>4. IsSeq(str) /\ Len(str) = n
  <2> DEFINE R == {str[i] : i \in 1..n}
  <2>1. str \in Seq(R) /\ Len(str) = n BY <1>3
  <2>2. QED BY <2>1 DEF IsSeq
<1>5. IsSeq(one) /\ Len(one) = 1 /\ one[1] = ReadHolding(REG_OSD_CTRL, 1)
      /\ IsSeq(two) /\ Len(two) = 1 /\ two[1] = WriteSingle(REG_OSD_ADDR, 0)
  <2>1. one \in Seq({ReadHolding(REG_OSD_CTRL, 1)}) /\ two \in Seq({WriteSingle(REG_OSD_ADDR, 0)}) OBVIOUS
  <2>2. QED BY <2>1 DEF IsSeq
<1>6. PICK tail : tail = two \o str OBVIOUS
<1> HIDE DEF one, two, str
<1>7. /\ IsSeq(tail) /\ Len(tail) = n + 1 /\ tail[1] = WriteSingle(REG_OSD_ADDR, 0)
      /\ \A i \in 2..n+1 : tail[i] = str[i-1]
  <2>1. /\ IsSeq(two \o str) /\ Len(two \o str) = Len(two) + Len(str)
        /\ \A i \in 1..Len(two) : (two \o str)[i] = two[i]
        /\ \A i \in Len(two)+1..Len(two)+Len(str) : (two \o str)[i] = str[i - Len(two)]
    BY <1>4, <1>5, SeqJoin
  <2>2. QED BY <1>3, <1>4, <1>5, <1>6, <2>1
<1>8. /\ Len(body) = n + 2 /\ body[1] = ReadHolding(REG_OSD_CTRL, 1)
      /\ \A i \in 2..n+2 : body[i] = tail[i-1]
  <2>1. /\ Len(one \o tail) = Len(one) + Len(tail)
        /\ \A i \in 1..Len(one) : (one \o tail)[i] = one[i]
        /\ \A i \in Len(one)+1..Len(one)+Len(tail) : (one \o tail)[i] = tail[i - Len(one)]
    BY <1>5, <1>7, SeqJoin
  <2>2. QED BY <1>3, <1>5, <1>6, <1>7, <2>1
<1> HIDE DEF body
<1>9. OpAfter(q, got) = IF l < n + 2 THEN body[l+1] ELSE End BY <1>1, <1>2, <1>8 DEF OpAfter
<1>10. l = 0 => OpAfter(q, got) = ReadHolding(REG_OSD_CTRL, 1) BY <1>3, <1>8, <1>9
<1>11. l = 1 => OpAfter(q, got) = WriteSingle(REG_OSD_ADDR, 0)
  <2>1. l = 1 => 2 \in 2..n+2 /\ l < n + 2 /\ body[l+1] = body[2] BY <1>3
  <2>2. QED BY <1>7, <1>8, <1>9, <2>1
<1>12. l \in 2..n+1 => OpAfter(q, got) = LookRead(l - 1)
  <2>1. SUFFICES ASSUME l \in 2..n+1 PROVE OpAfter(q, got) = LookRead(l - 1) OBVIOUS
  <2>2. l + 1 \in 2..n+2 /\ (l + 1) - 1 = l /\ l - 1 \in 1..n /\ l < n + 2 BY <1>3, <2>1
  <2>3. OpAfter(q, got) = str[l-1] BY <1>7, <1>8, <1>9, <2>1, <2>2
  <2>4. QED BY <1>3, <2>2, <2>3
<1>13. l >= n + 2 => OpAfter(q, got) = End BY <1>3, <1>9
<1>14. QED BY <1>2, <1>10, <1>11, <1>12, <1>13 DEF n

-----------------------------------------------------------------------------
\* The codes that a GET has so far.
Codes3(got) == FlattenSeq(SubSeq(got, 3, Len(got)))

Gathered(got) ==
  /\ IsSeq(got) /\ Len(got) <= 2 + NLook
  /\ \E S : SubSeq(got, 3, Len(got)) \in Seq(Seq(S))
  /\ Len(Codes3(got)) = IF Len(got) <= 2 THEN 0 ELSE Upto(Len(got) - 2)

LEMMA NothingRead ==
  ASSUME NEW got, IsSeq(got), Len(got) < 3
  PROVE  Gathered(got) /\ Len(Codes3(got)) = 0
<1>1. PICK S : got \in Seq(S) BY DEF IsSeq
<1>2. SubSeq(got, 3, Len(got)) = <<>> BY <1>1
<1>3. <<>> \in Seq(Seq({})) OBVIOUS
<1>4. Codes3(got) = <<>> BY <1>2 DEF Codes3, FlattenSeq
<1>5. Len(got) <= 2 /\ Len(<<>>) = 0 BY <1>1
<1>6. QED BY <1>2, <1>3, <1>4, <1>5, SomeLooks DEF Gathered

LEMMA ThirdOn ==
  ASSUME NEW S, NEW s \in Seq(S), NEW n \in Nat, n >= 2, Len(s) = n
  PROVE  /\ SubSeq(s, 3, n) \in Seq(S) /\ Len(SubSeq(s, 3, n)) = n - 2
         /\ \A i \in 1..n-2 : SubSeq(s, 3, n)[i] = s[i+2]
OBVIOUS

LEMMA AppendThird ==
  ASSUME NEW S, NEW got \in Seq(S), NEW r \in S, Len(got) >= 2
  PROVE  SubSeq(Append(got, r), 3, Len(Append(got, r))) = Append(SubSeq(got, 3, Len(got)), r)
<1> DEFINE a == Append(got, r)
           x == SubSeq(a, 3, Len(a))
           y == SubSeq(got, 3, Len(got))
           z == Append(y, r)
           n == Len(got)
<1>1. n \in Nat /\ n >= 2 /\ a \in Seq(S) /\ Len(a) = n + 1 /\ a[n+1] = r
      /\ \A i \in 1..n : a[i] = got[i]
  OBVIOUS
<1>2. y \in Seq(S) /\ Len(y) = n - 2 /\ \A i \in 1..n-2 : y[i] = got[i+2]
  BY <1>1, ThirdOn
<1> HIDE DEF a, n
<1>3. x \in Seq(S) /\ Len(x) = n - 1 /\ \A i \in 1..n-1 : x[i] = a[i+2]
  BY <1>1
<1> HIDE DEF x, y
<1>4. z \in Seq(S) /\ Len(z) = n - 1 /\ z[n-1] = r /\ \A i \in 1..n-2 : z[i] = y[i]
  BY <1>1, <1>2
<1> HIDE DEF z
<1>5. ASSUME NEW i \in 1..n-1 PROVE x[i] = z[i]
  <2>1. CASE i = n - 1
    <3>1. i + 2 = n + 1 BY <1>1, <2>1
    <3>2. QED BY <1>1, <1>3, <1>4, <2>1, <3>1
  <2>2. CASE i # n - 1
    <3>1. PICK j \in 1..n : j = i + 2 BY <1>1, <2>2
    <3>2. i \in 1..n-2 BY <1>1, <2>2
    <3>3. QED BY <1>1, <1>2, <1>3, <1>4, <3>1, <3>2
  <2>3. QED BY <2>1, <2>2
<1>6. x = z BY <1>1, <1>3, <1>4, <1>5
<1>7. QED BY <1>6 DEF x, y, z, a, n

\* One more chunk.
LEMMA LookAdded ==
  ASSUME NEW got, Gathered(got), Len(got) \in 2..NLook+1, NEW T, NEW r \in Seq(T),
         Len(r) = Chunks(OSD_CELLS, MAX_READ)[Len(got) - 1]
  PROVE  /\ Gathered(Append(got, r))
         /\ Codes3(Append(got, r)) = Codes3(got) \o r
         /\ Len(Codes3(got)) \in Nat /\ Len(Codes3(got)) < OSD_CELLS /\ Len(Codes3(got)) + Len(r) <= OSD_CELLS
         /\ IsSeq(Codes3(got))
<1> DEFINE a == Append(got, r)
           y == SubSeq(got, 3, Len(got))
           i == Len(got) - 1
<1>1. PICK S0 : got \in Seq(S0) BY DEF Gathered, IsSeq
<1>2. PICK S1 : y \in Seq(Seq(S1)) BY DEF Gathered
<1> DEFINE S == S1 \cup T
           Q == S0 \cup {r}
<1>3. got \in Seq(Q) /\ r \in Q /\ a \in Seq(Q) /\ Len(a) = Len(got) + 1 /\ Len(got) \in Nat BY <1>1
<1>4. SubSeq(a, 3, Len(a)) = Append(y, r)
  <2> HIDE DEF Q
  <2>1. Len(got) >= 2 BY <1>3
  <2>2. QED BY <1>3, <2>1, AppendThird
<1>5. y \in Seq(Seq(S)) /\ r \in Seq(S)
  <2>1. Seq(S1) \subseteq Seq(S) /\ Seq(T) \subseteq Seq(S) OBVIOUS
  <2> HIDE DEF y, S
  <2>2. QED BY <1>2, <2>1
<1> HIDE DEF y, S, Q
<1>6. Append(y, r) \in Seq(Seq(S))
  <2> DEFINE X == Seq(S)
  <2>1. y \in Seq(X) /\ r \in X BY <1>5
  <2> HIDE DEF X
  <2>2. Append(y, r) \in Seq(X) BY <2>1
  <2>3. QED BY <2>2 DEF X
<1>7. Codes3(a) = Codes3(got) \o r
  <2>1. Codes3(a) = FlattenSeq(Append(y, r)) BY <1>4 DEF Codes3
  <2>2. Codes3(got) = FlattenSeq(y) BY DEF Codes3, y
  <2>3. FlattenSeq(Append(y, r)) = FlattenSeq(y) \o r BY <1>5, FlattenAppend
  <2>4. QED BY <2>1, <2>2, <2>3
<1>8. Codes3(got) \in Seq(S) BY <1>5, FlattenType DEF Codes3, y
<1>9. i \in 1..NLook BY <1>3, SomeLooks
<1>10. /\ Len(r) \in 0..MAX_READ /\ Upto(i) = Upto(i-1) + Len(r) /\ Upto(i-1) \in Nat /\ Upto(i-1) < OSD_CELLS
  BY <1>9, LookSum
<1>11. Len(Codes3(got)) = Upto(i-1)
  <2>1. CASE Len(got) = 2
    <3>1. i - 1 = 0 BY <2>1
    <3>2. Upto(0) = 0 BY StreamAssumption, GridCell DEF Upto
    <3>3. QED BY <2>1, <3>1, <3>2 DEF Gathered
  <2>2. CASE Len(got) # 2
    <3>1. Len(got) \in Nat /\ Len(got) >= 2 BY <1>3, SomeLooks
    <3>2. PICK l \in Nat : l = Len(got) BY <3>1
    <3>3. ~ (l <= 2) /\ l - 2 = (l - 1) - 1 BY <2>2, <3>1, <3>2
    <3>4. ~ (Len(got) <= 2) /\ Len(got) - 2 = i - 1 BY <3>2, <3>3
    <3>5. QED BY <3>4 DEF Gathered
  <2>3. QED BY <2>1, <2>2
<1>12. Len(Codes3(a)) = Len(Codes3(got)) + Len(r)
  <2>1. Len(Codes3(got) \o r) = Len(Codes3(got)) + Len(r) BY <1>5, <1>8, SecondPart
  <2>2. QED BY <1>7, <2>1
<1>13. Gathered(a)
  <2>1. Len(Codes3(a)) = Upto(i) BY <1>10, <1>11, <1>12
  <2>2. ~ (Len(a) <= 2) /\ Len(a) - 2 = i /\ Len(a) <= 2 + NLook BY <1>3, SomeLooks
  <2>3. QED BY <1>3, <1>4, <1>6, <2>1, <2>2 DEF Gathered, IsSeq
<1>14. Upto(i) <= OSD_CELLS BY GridCell, StreamAssumption, <1>9, SomeLooks DEF Upto
<1>15. QED BY <1>7, <1>8, <1>10, <1>11, <1>13, <1>14 DEF IsSeq

\* After the last chunk nothing is missing.
LEMMA AllRead ==
  ASSUME NEW got, Gathered(got), Len(got) >= NLook + 2
  PROVE  Len(Codes3(got)) = OSD_CELLS
<1>1. Len(got) \in Nat
  <2>1. PICK S : got \in Seq(S) BY DEF Gathered, IsSeq
  <2>2. QED BY <2>1
<1>2. NLook \in 1..NLook /\ ~ (Len(got) <= 2) BY <1>1, SomeLooks
<1>3. Len(got) - 2 = NLook BY <1>1, SomeLooks DEF Gathered
<1>4. Upto(NLook) = OSD_CELLS BY <1>2, LookSum
<1>5. QED BY <1>2, <1>3, <1>4 DEF Gathered

-----------------------------------------------------------------------------
(* What a request leaves of what is known of the overlay *)

SeenFields == {"control", "coeff", "center", "cells", "on"}

Forgets(s, q, e) ==
  /\ DOMAIN e = SeenFields
  /\ e.cells \in {s.cells, <<>>} /\ (Draws(q) => e.cells = <<>>)
  /\ e.on \in {s.on, <<>>} /\ (Hides(q) => e.on = <<>>)
  /\ q.route = "osd" => e = s

LEMMA PokedForgets ==
  ASSUME NEW s, DOMAIN s = SeenFields, NEW a, NEW e, e = Poked(s, a)
  PROVE  /\ DOMAIN e = SeenFields
         /\ e.cells = IF a \in {REG_OSD_CTRL, REG_OSD_DATA} THEN <<>> ELSE s.cells
         /\ e.on = IF a = REG_OSD_CTRL THEN <<>> ELSE s.on
BY DEF Poked, SeenFields

LEMMA DoubtForgets ==
  ASSUME NEW s, DOMAIN s = SeenFields, NEW q, q.route \in Routes
  PROVE  Forgets(s, q, Doubt(s, q))
<1>1. PICK e : e = Doubt(s, q) OBVIOUS
<1> SUFFICES Forgets(s, q, e) BY <1>1
<1>2. CASE q.route = "control"
  <2>1. PICK x : e = [s EXCEPT !.control = x] BY <1>1, <1>2 DEF Doubt
  <2>2. QED BY <1>2, <2>1 DEF Forgets, SeenFields, Draws, Hides
<1>3. CASE q.route = "coeff"
  <2>1. PICK x : e = [s EXCEPT !.coeff = x] BY <1>1, <1>3 DEF Doubt
  <2>2. QED BY <1>3, <2>1 DEF Forgets, SeenFields, Draws, Hides
<1>4. CASE q.route = "center"
  <2>1. e = [s EXCEPT !.center = <<>>] BY <1>1, <1>4 DEF Doubt
  <2>2. QED BY <1>4, <2>1 DEF Forgets, SeenFields, Draws, Hides
<1>5. CASE q.route = "raw_post"
  <2>1. e = Poked(s, q.addr) BY <1>1, <1>5 DEF Doubt
  <2>2. QED BY <1>5, <2>1, PokedForgets DEF Forgets, Draws, Hides
<1>6. CASE q.route \in {"osd_post", "upload"}
  <2>1. e = [s EXCEPT !.cells = <<>>, !.on = <<>>] BY <1>1, <1>6 DEF Doubt
  <2>2. QED BY <1>6, <2>1 DEF Forgets, SeenFields, Draws, Hides
<1>7. CASE q.route = "reset_defaults"
  <2>1. e = Poked(s, REG_REINIT) BY <1>1, <1>7 DEF Doubt
  <2>2. REG_REINIT \notin {REG_OSD_CTRL, REG_OSD_DATA} BY DEF REG_REINIT, REG_OSD_CTRL, REG_OSD_DATA
  <2>3. QED BY <1>7, <2>1, <2>2, PokedForgets DEF Forgets, Draws, Hides
<1>8. CASE q.route \notin {"control", "coeff", "center", "raw_post", "osd_post", "upload", "reset_defaults"}
  <2>1. e = s BY <1>1, <1>8 DEF Doubt
  <2>2. QED BY <1>8, <2>1 DEF Forgets, Draws, Hides
<1>9. QED BY <1>2, <1>3, <1>4, <1>5, <1>6, <1>7, <1>8

LEMMA LearnForgets ==
  ASSUME NEW s, DOMAIN s = SeenFields, NEW q, q.route \in Routes, q.route # "osd_post", NEW twice
  PROVE  Forgets(s, q, Learn(s, q, twice))
<1>1. PICK e : e = Learn(s, q, twice) OBVIOUS
<1> SUFFICES Forgets(s, q, e) BY <1>1
<1>2. CASE q.route = "control"
  <2>1. PICK x : e = [s EXCEPT !.control = x] BY <1>1, <1>2 DEF Learn
  <2>2. QED BY <1>2, <2>1 DEF Forgets, SeenFields, Draws, Hides
<1>3. CASE q.route = "coeff"
  <2>1. PICK x : e = [s EXCEPT !.coeff = x] BY <1>1, <1>3 DEF Learn
  <2>2. QED BY <1>3, <2>1 DEF Forgets, SeenFields, Draws, Hides
<1>4. CASE q.route = "center"
  <2>1. PICK x : e = [s EXCEPT !.center = x] BY <1>1, <1>4 DEF Learn
  <2>2. QED BY <1>4, <2>1 DEF Forgets, SeenFields, Draws, Hides
<1>5. CASE q.route \notin {"control", "coeff", "center"}
  <2>1. e = Doubt(s, q) BY <1>1, <1>5 DEF Learn
  <2>2. QED BY <2>1, DoubtForgets
<1>6. QED BY <1>2, <1>3, <1>4, <1>5

LEMMA LearnPost ==
  ASSUME NEW s, DOMAIN s = SeenFields, NEW q, q.route = "osd_post", NEW twice, NEW e, e = Learn(s, q, twice)
  PROVE  /\ DOMAIN e = SeenFields
         /\ e.cells = IF twice THEN <<>> ELSE Posted(s, q)
         /\ e.on = IF q.enabled # <<>> THEN q.enabled ELSE IF q.clear THEN <<>> ELSE s.on
<1>1. PICK x : x = IF twice THEN <<>> ELSE Posted(s, q) OBVIOUS
<1>2. PICK y : y = IF q.enabled # <<>> THEN q.enabled ELSE IF q.clear THEN <<>> ELSE s.on OBVIOUS
<1>3. e = [s EXCEPT !.cells = x, !.on = y] BY <1>1, <1>2 DEF Learn
<1>4. DOMAIN e = SeenFields /\ e.cells = x /\ e.on = y BY <1>3 DEF SeenFields
<1>5. QED BY <1>1, <1>2, <1>4

-----------------------------------------------------------------------------
(* What a GET of the overlay is answered *)

LEMMA OnRead ==
  ASSUME NEW d, NEW n \in Nat \ {0}
  PROVE  Answered(d, ReadHolding(REG_OSD_CTRL, 1), n) = <<<<d.on>>, d>>
<1> DEFINE op == ReadHolding(REG_OSD_CTRL, 1)
           a == REG_OSD_CTRL
<1>1. op = [fn |-> "read", addr |-> a, count |-> 1, value |-> 0] BY DEF ReadHolding
<1>2. a \in Nat /\ ~ (a >= STREAM_BASE) /\ ~ (a = REG_OSD_DATA \/ a >= OSD_STREAM_BASE)
  BY DEF STREAM_BASE, REG_OSD_DATA, OSD_STREAM_BASE, REG_OSD_CTRL
<1>3. ReadOne(d, a) = d.on
  <2>1. a \notin CamRegs BY CamLow DEF REG_OSD_CTRL
  <2>2. a \notin {REG_GRAB, REG_BOOT_STATUS} /\ a # REG_GRAB_DATA_HI /\ a # REG_GRAB_DATA_LO
    BY DEF REG_GRAB, REG_BOOT_STATUS, REG_GRAB_DATA_HI, REG_GRAB_DATA_LO, REG_OSD_CTRL
  <2>3. QED BY <2>1, <2>2 DEF ReadOne
<1> HIDE DEF a
<1>4. ReadRegs(d, a, 1) = <<<<d.on>>, d>>
  <2>1. ReadRegs(d, a, 1) = <<[i \in 1..1 |-> ReadOne(d, a + i - 1)], d>> BY <1>2 DEF ReadRegs
  <2>2. \A i \in 1..1 : ReadOne(d, a + i - 1) = d.on
    <3>1. SUFFICES ASSUME NEW i \in 1..1 PROVE ReadOne(d, a + i - 1) = d.on OBVIOUS
    <3>2. a + i - 1 = a BY <1>2
    <3>3. QED BY <1>3, <3>2
  <2>3. [i \in 1..1 |-> ReadOne(d, a + i - 1)] = <<d.on>> BY <2>2
  <2>4. QED BY <2>1, <2>3
<1>5. Execute(d, op) = <<<<d.on>>, d>> BY <1>1, <1>4 DEF Execute
<1>6. op.fn # "wait" BY <1>1
<1> HIDE DEF op
<1>7. PICK U : /\ d \in U
               /\ \A V \in SUBSET U :
                    d \in V /\ (\A x \in V : Execute(x, op)[2] \in U => Execute(x, op)[2] \in V)
                    => \E x \in V : Answered(d, op, n) = Execute(x, op)
  BY <1>6, Often
<1>8. \E x \in {d} : Answered(d, op, n) = Execute(x, op)
  <2>1. {d} \in SUBSET U BY <1>7
  <2>2. \A x \in {d} : Execute(x, op)[2] \in {d} BY <1>5
  <2>3. QED BY <1>7, <2>1, <2>2
<1>9. QED BY <1>5, <1>8 DEF op

LEMMA Homed ==
  ASSUME NEW d, Healthy(d), NEW n \in Nat \ {0}
  PROVE  Answered(d, WriteSingle(REG_OSD_ADDR, 0), n)[2].cursor = 0
<1>1. PICK op : op = WriteSingle(REG_OSD_ADDR, 0) OBVIOUS
<1>2. op.fn = "write" /\ op.addr = REG_OSD_ADDR /\ op.value = 0 BY <1>1 DEF WriteSingle
<1>3. PICK q : q = [route |-> "osd"] OBVIOUS
<1>4. Tame(q, op)
  <2>1. REG_OSD_ADDR \in Touches(q) BY <1>3 DEF Touches
  <2>2. REG_OSD_ADDR \notin CamRegs BY CamLow DEF REG_OSD_ADDR
  <2>3. 0 \in 0..OSD_CELLS-1 BY GridCell
  <2>4. QED BY <1>2, <2>1, <2>2, <2>3 DEF Tame, Fits
<1>5. PICK x : x = After(d, op, n - 1) OBVIOUS
<1>6. Healthy(x)
  <2>1. n - 1 \in Nat OBVIOUS
  <2>2. QED BY <1>4, <1>5, <2>1, AfterHealthy
<1>7. Answered(d, op, n) = Execute(x, op) BY <1>2, <1>5 DEF Answered
<1>8. PICK e : e = WriteReg(x, REG_OSD_ADDR, 0) OBVIOUS
<1>9. Execute(x, op)[2] = e BY <1>2, <1>8 DEF Execute
<1>10. Wrote(x, REG_OSD_ADDR, 0, e) BY <1>6, <1>8, WriteFace DEF Healthy
<1>11. e = [x EXCEPT !.cursor = 0] BY <1>10 DEF Wrote
<1>12. e.cursor = 0 BY <1>6, <1>11 DEF Healthy, BoardFields
<1>13. QED BY <1>1, <1>7, <1>9, <1>12

LEMMA LookAnswer ==
  ASSUME NEW d, NEW j, LookRead(j).fn = "read", NEW c, c = Chunks(OSD_CELLS, MAX_READ)[j]
  PROVE  /\ c \in 1..125 /\ Repeats(LookRead(j))
         /\ Answered(d, LookRead(j), 1)[1] = [i \in 1..c |-> d.cells[(d.cursor + i - 1) % OSD_CELLS]]
         /\ DOMAIN d = BoardFields => Answered(d, LookRead(j), 1)[2].cursor = (d.cursor + c) % OSD_CELLS
<1> DEFINE op == LookRead(j)
           a == OSD_STREAM_BASE
<1>1. c \in 1..125 /\ op = [fn |-> "read", addr |-> a, count |-> c, value |-> 0]
  BY DEF LookRead, ReadHolding, Raise
<1> HIDE DEF op
<1>2. op.fn = "read" /\ op.addr = a /\ op.count = c BY <1>1
<1>3. ~ (a >= STREAM_BASE) /\ a >= OSD_STREAM_BASE BY DEF OSD_STREAM_BASE, STREAM_BASE
<1>4. Answered(d, op, 1) = Execute(After(d, op, 0), op) BY <1>2 DEF Answered
<1>5. After(d, op, 0) = d
  <2>1. PICK f : f[0] = d /\ After(d, op, 0) = f[0] BY AfterRuns
  <2>2. QED BY <2>1
<1>6. Execute(d, op) = ReadCells(d, c) BY <1>2, <1>3 DEF Execute, ReadRegs
<1>7. /\ ReadCells(d, c)[1] = [i \in 1..c |-> d.cells[(d.cursor + i - 1) % OSD_CELLS]]
      /\ ReadCells(d, c)[2] = [d EXCEPT !.cursor = (@ + c) % OSD_CELLS]
  BY DEF ReadCells
<1>8. DOMAIN d = BoardFields => ReadCells(d, c)[2].cursor = (d.cursor + c) % OSD_CELLS
  BY <1>7 DEF BoardFields
<1>9. Repeats(op) BY <1>2, <1>3 DEF Repeats
<1>10. QED BY <1>1, <1>4, <1>5, <1>6, <1>7, <1>8, <1>9 DEF op

-----------------------------------------------------------------------------
(* The overlay under the requests *)

Drawing(t) == InBody(t) /\ thread[t].got # <<>>
OverlayKnown(k, d) ==
  /\ (\A u \in Threads : Drawing(u) => ~ Hides(thread[u].q)) => Known(k.on, d.on)
  /\ (\A u \in Threads : Drawing(u) => ~ Draws(thread[u].q)) => Shown(k.cells, d.cells)

\* A post under way has painted what its first operations paint on an overlay
\* that was as it was known.
PaintsOn(k, d, q, got, odd) ==
  \E s, e : /\ IsScreen(s) /\ Known(k.on, s.on) /\ Shown(k.cells, s.cells)
            /\ Len(got) <= Len(api_osd_post(q))
            /\ Painted(s, api_osd_post(q), Len(got), e)
            /\ IsScreen(e) /\ d.on = e.on
            /\ "twice" \notin odd => Screen(d) = e
Posting(t) ==
  LET th == thread[t]
  IN  InBody(t) /\ th.q.route = "osd_post" /\ "restarted" \notin th.odd =>
        PaintsOn(seen, board, th.q, th.got, th.odd)

\* A GET under way has read what is known.
Reads(k, d, got) ==
  /\ Gathered(got)
  /\ Len(got) >= 1 => Known(k.on, got[1][1])
  /\ k.cells # <<>> =>
       /\ Len(got) >= 2 => d.cursor = Len(Codes3(got)) % OSD_CELLS
       /\ \A i \in 1..Len(Codes3(got)) : osd_char(Codes3(got)[i]) = Printed(k.cells[1][i-1])
Watched(t) == thread[t].q.route = "osd" /\ (InBody(t) \/ (thread[t].at = "leave" /\ thread[t].res = "ok"))
Looking(t) ==
  Watched(t) /\ "twice" \notin thread[t].odd => Reads(seen, board, thread[t].got)

OverlayInv ==
  /\ DOMAIN seen = SeenFields /\ OverlayKnown(seen, board)
  /\ \A t \in Threads : Posting(t) /\ Looking(t)

\* What a request in its body has to itself.
LEMMA OneUses ==
  ASSUME LockInv, CourseInv, NEW t \in Threads, InBody(t), NEW u \in Threads \ {t}
  PROVE  ~ InBody(u) /\ ~ Watched(u)
<1>1. lock = t BY DEF LockInv, Uses, InBody
<1>2. ~ InBody(u) BY <1>1 DEF LockInv, Uses, InBody
<1>3. ~ (thread[u].at = "leave" /\ thread[u].res = "ok" /\ thread[u].q.route = "osd")
  <2>1. Course(u) BY DEF CourseInv
  <2>2. QED BY <1>1, <2>1 DEF Course
<1>4. QED BY <1>2, <1>3 DEF Watched

\* Nothing that matters to the overlay happens.
Stays(u) ==
  \/ /\ thread'[u].at = thread[u].at /\ thread'[u].q = thread[u].q /\ thread'[u].got = thread[u].got
     /\ thread'[u].res = thread[u].res /\ thread[u].odd \subseteq thread'[u].odd
  \/ /\ ~ InBody(u) /\ ~ InBody(u)' /\ (Watched(u)' => Watched(u) /\ thread'[u].got = thread[u].got
                                                     /\ thread[u].odd \subseteq thread'[u].odd)

LEMMA StillKnown ==
  ASSUME OverlayInv, seen' = seen, board'.on = board.on, board'.cells = board.cells,
         \A u \in Threads : InBody(u)' = InBody(u) /\ (InBody(u) => thread'[u].q = thread[u].q
                                                                   /\ thread'[u].got = thread[u].got)
  PROVE  OverlayKnown(seen, board)'
<1>1. \A u \in Threads : Drawing(u)' => Drawing(u) /\ thread'[u].q = thread[u].q BY DEF Drawing
<1>2. \A u \in Threads : Drawing(u) => Drawing(u)' /\ thread'[u].q = thread[u].q BY DEF Drawing
<1>3. OverlayKnown(seen, board) BY DEF OverlayInv
<1>4. QED BY <1>1, <1>2, <1>3 DEF OverlayKnown

LEMMA OverlayStill ==
  ASSUME OverlayInv, seen' = seen,
         board'.on = board.on, board'.cells = board.cells, board'.cursor = board.cursor,
         \A u \in Threads : Stays(u)
  PROVE  OverlayInv'
<1>1. OverlayKnown(seen, board)' BY StillKnown DEF Stays, InBody
<1>2. Screen(board') = Screen(board) BY DEF Screen
<1>3. ASSUME NEW u \in Threads PROVE Posting(u)' /\ Looking(u)'
  <2>1. Posting(u) /\ Looking(u) /\ Stays(u) BY DEF OverlayInv
  <2>2. Posting(u)'
    <3>1. SUFFICES ASSUME InBody(u)', thread'[u].q.route = "osd_post", "restarted" \notin thread'[u].odd
                   PROVE  PaintsOn(seen', board', thread'[u].q, thread'[u].got, thread'[u].odd)
      BY DEF Posting
    <3>2. InBody(u) /\ thread'[u].q = thread[u].q /\ thread'[u].got = thread[u].got
          /\ thread[u].odd \subseteq thread'[u].odd
      BY <2>1, <3>1 DEF Stays, InBody
    <3>3. PaintsOn(seen, board, thread[u].q, thread[u].got, thread[u].odd) BY <2>1, <3>1, <3>2 DEF Posting
    <3>4. QED BY <1>2, <3>2, <3>3 DEF PaintsOn
  <2>3. Looking(u)'
    <3>1. SUFFICES ASSUME Watched(u)', "twice" \notin thread'[u].odd
                   PROVE  Reads(seen', board', thread'[u].got)
      BY DEF Looking
    <3>2. Watched(u) /\ thread'[u].got = thread[u].got /\ thread[u].odd \subseteq thread'[u].odd
      BY <2>1, <3>1 DEF Stays, Watched, InBody
    <3>3. Reads(seen, board, thread[u].got) BY <2>1, <3>1, <3>2 DEF Looking
    <3>4. QED BY <3>2, <3>3 DEF Reads
  <2>4. QED BY <2>2, <2>3
<1>4. QED BY <1>1, <1>3 DEF OverlayInv

\* A request in its body ends: what is known is forgotten or still so.
LEMMA OverlayEnds ==
  ASSUME LockInv, CourseInv, OverlayInv, NEW t \in Threads, OthersKept(t), InBody(t), ~ InBody(t)',
         DOMAIN seen' = SeenFields, Known(seen'.on, board'.on), Shown(seen'.cells, board'.cells),
         Looking(t)'
  PROVE  OverlayInv'
<1>1. ASSUME NEW u \in Threads \ {t} PROVE ~ InBody(u)' /\ ~ Watched(u)'
  <2>1. ~ InBody(u) /\ ~ Watched(u) BY OneUses
  <2>2. QED BY <2>1 DEF OthersKept, InBody, Watched
<1>2. \A u \in Threads : Posting(u)' /\ Looking(u)' BY <1>1 DEF Posting, Looking
<1>3. OverlayKnown(seen, board)' BY DEF OverlayKnown
<1>4. QED BY <1>2, <1>3 DEF OverlayInv

\* The request in its body forgets what it may have changed.
LEMMA Forgotten ==
  ASSUME LockInv, CourseInv, OverlayInv, NEW t \in Threads, InBody(t), NEW k, NEW d,
         Forgets(seen, thread[t].q, k), d = board \/ Spares(thread[t].q, board, d)
  PROVE  DOMAIN k = SeenFields /\ Known(k.on, d.on) /\ Shown(k.cells, d.cells)
<1>1. Course(t) /\ thread[t].at \in {"body", "fetch"} BY DEF CourseInv, InBody
<1>2. PICK q : q = thread[t].q OBVIOUS
<1>3. Typed(q) /\ ~ Refused(q) BY <1>1, <1>2 DEF Course
<1>4. /\ REG_OSD_CTRL \in Touches(q) => Hides(q)
      /\ REG_OSD_DATA \in Touches(q) => Draws(q)
  BY <1>3, TouchesOverlay
<1>5. Hides(q) => Draws(q) BY DEF Hides, Draws
<1>6. /\ ~ Hides(q) => d.on = board.on
      /\ ~ Draws(q) => d.cells = board.cells
  BY <1>2, <1>4, <1>5 DEF Spares
<1>7. \A u \in Threads : Drawing(u) => u = t BY OneUses DEF Drawing
<1>8. OverlayKnown(seen, board) BY DEF OverlayInv
<1>9. /\ ~ Hides(q) => Known(seen.on, d.on)
      /\ ~ Draws(q) => Shown(seen.cells, d.cells)
  BY <1>2, <1>6, <1>7, <1>8 DEF OverlayKnown
<1>10. QED BY <1>2, <1>9 DEF Forgets, Known, Shown

LEMMA OverlayGivesUp ==
  ASSUME LockInv, CourseInv, OverlayInv, NEW t \in Threads, OthersKept(t), GivesUp(t)
  PROVE  OverlayInv'
<1>1. InBody(t) /\ ~ InBody(t)' /\ thread'[t].res # "ok" /\ Course(t) BY DEF GivesUp, InBody, CourseInv
<1>2. Looking(t)' BY <1>1 DEF Looking, Watched
<1>3. PICK q : q = thread[t].q OBVIOUS
<1>4. Typed(q) /\ ~ Refused(q) /\ q.route # "state" /\ Heard(q, thread[t].got)
      /\ thread[t].op = OpAfter(q, thread[t].got)
  BY <1>1, <1>3 DEF Course, InBody, Busy
<1>r. q.route \in Routes BY <1>4 DEF Typed
<1>5. CASE Untouched /\ thread[t].q.route = "grab"
  <2>1. ~ Hides(q) /\ ~ Draws(q) BY <1>3, <1>5 DEF Hides, Draws
  <2>2. \A u \in Threads : Drawing(u) => u = t BY <1>1, OneUses DEF Drawing
  <2>3. OverlayKnown(seen, board) /\ DOMAIN seen = SeenFields BY DEF OverlayInv
  <2>4. Known(seen.on, board.on) /\ Shown(seen.cells, board.cells)
    BY <1>3, <2>1, <2>2, <2>3 DEF OverlayKnown, Drawing
  <2>5. DOMAIN seen' = SeenFields /\ Known(seen'.on, board'.on) /\ Shown(seen'.cells, board'.cells)
    BY <1>5, <2>3, <2>4 DEF Untouched
  <2>6. QED BY <1>1, <1>2, <2>5, OverlayEnds
<1>6. CASE /\ seen' = Doubt(seen, thread[t].q)
           /\ \/ board' = board
              \/ Calling(t) /\ \E n \in Nat : board' = After(board, thread[t].op, n)
  <2>1. DOMAIN seen = SeenFields BY DEF OverlayInv
  <2>2. Forgets(seen, q, Doubt(seen, q)) BY <1>r, <2>1, DoubtForgets
  <2>3. board' = board \/ Spares(q, board, board')
    <3>1. SUFFICES ASSUME Calling(t), NEW n \in Nat, board' = After(board, thread[t].op, n)
                   PROVE  Spares(q, board, board')
      BY <1>6
    <3>2. thread[t].op.fn # "end" BY <3>1 DEF Calling
    <3>3. Tame(q, thread[t].op) BY <1>4, <3>2, OpTame
    <3>4. Healthy(board) BY DEF CourseInv
    <3>5. QED BY <3>1, <3>3, <3>4, AfterSpares
  <2>4. DOMAIN seen' = SeenFields /\ Known(seen'.on, board'.on) /\ Shown(seen'.cells, board'.cells)
    BY <1>1, <1>3, <1>6, <2>2, <2>3, Forgotten
  <2>5. QED BY <1>1, <1>2, <2>4, OverlayEnds
<1>7. QED BY <1>5, <1>6 DEF GivesUp

LEMMA OverlaySucceeds ==
  ASSUME LockInv, CourseInv, OverlayInv, NEW t \in Threads, OthersKept(t), Succeeds(t)
  PROVE  OverlayInv'
<1>1. InBody(t) /\ ~ InBody(t)' /\ Course(t) /\ board' = board /\ Same(t) /\ thread[t].op.fn = "end"
  BY DEF Succeeds, InBody, CourseInv
<1>2. PICK q, got, odd : q = thread[t].q /\ got = thread[t].got /\ odd = thread[t].odd OBVIOUS
<1>3. Typed(q) /\ ~ Refused(q) /\ Heard(q, got) /\ thread[t].op = OpAfter(q, got)
  BY <1>1, <1>2 DEF Course, InBody, Busy
<1>4. q.route \in Routes BY <1>3 DEF Typed
<1>5. DOMAIN seen = SeenFields /\ OverlayKnown(seen, board) /\ Posting(t) /\ Looking(t) BY DEF OverlayInv
<1>6. seen' = IF "restarted" \notin odd THEN Learn(seen, q, "twice" \in odd) ELSE Doubt(seen, q)
  BY <1>2 DEF Succeeds
<1>7. CASE q.route = "osd_post" /\ "restarted" \notin odd
  <2>1. PICK twice : twice = ("twice" \in odd) OBVIOUS
  <2>2. seen' = Learn(seen, q, twice) BY <1>6, <1>7, <2>1
  <2>3. /\ DOMAIN seen' = SeenFields
        /\ seen'.cells = IF twice THEN <<>> ELSE Posted(seen, q)
        /\ seen'.on = IF q.enabled # <<>> THEN q.enabled ELSE IF q.clear THEN <<>> ELSE seen.on
    <3>1. PICK k : k = seen' OBVIOUS
    <3>2. k = Learn(seen, q, twice) /\ DOMAIN seen = SeenFields /\ q.route = "osd_post" BY <1>5, <1>7, <2>2, <3>1
    <3>3. /\ DOMAIN k = SeenFields
          /\ k.cells = IF twice THEN <<>> ELSE Posted(seen, q)
          /\ k.on = IF q.enabled # <<>> THEN q.enabled ELSE IF q.clear THEN <<>> ELSE seen.on
      BY <3>2, LearnPost
    <3>4. QED BY <3>1, <3>3
  <2>4. PaintsOn(seen, board, q, got, odd) BY <1>1, <1>2, <1>5, <1>7 DEF Posting
  <2>5. PICK s, e : /\ IsScreen(s) /\ Known(seen.on, s.on) /\ Shown(seen.cells, s.cells)
                    /\ Len(got) <= Len(api_osd_post(q))
                    /\ Painted(s, api_osd_post(q), Len(got), e)
                    /\ board.on = e.on
                    /\ "twice" \notin odd => Screen(board) = e
    BY <2>4 DEF PaintsOn
  <2>6. Len(got) = Len(api_osd_post(q))
    <3>1. PICK n \in Nat, m \in Nat : n = Len(got) /\ m = Len(api_osd_post(q))
      <4>1. IsSeq(got) BY <1>3 DEF Heard
      <4>2. PICK S : got \in Seq(S) BY <4>1 DEF IsSeq
      <4>3. api_osd_post(q) \in Seq(PostOps) BY <1>3, <1>7, PostSeq
      <4>4. Len(got) \in Nat /\ Len(api_osd_post(q)) \in Nat BY <4>2, <4>3
      <4>5. QED BY <4>4
    <3>2. Program(q, got) = api_osd_post(q) BY <1>7 DEF Program
    <3>3. n < m => thread[t].op = api_osd_post(q)[n+1] BY <1>3, <3>1, <3>2 DEF OpAfter
    <3>4. n < m => thread[t].op \in PostOps
      <4>1. api_osd_post(q) \in Seq(PostOps) BY <1>3, <1>7, PostSeq
      <4>2. n < m => n + 1 \in 1..Len(api_osd_post(q)) BY <3>1
      <4>3. QED BY <3>3, <4>1, <4>2
    <3>5. \A op \in PostOps : op.fn # "end" BY PostOp
    <3>6. ~ (n < m) BY <1>1, <3>4, <3>5
    <3>7. QED BY <2>5, <3>1, <3>6
  <2>7. /\ q.enabled # <<>> => e.on = q.enabled[1]
        /\ q.enabled = <<>> /\ ~ q.clear => e.on = s.on
        /\ Shown(seen.cells, s.cells) => Shown(Posted(seen, q), e.cells)
    <3>1. Painted(s, api_osd_post(q), Len(api_osd_post(q)), e) BY <2>5, <2>6
    <3>2. QED BY <1>3, <1>7, <2>5, <3>1, PostPainted
  <2>8. Known(seen'.on, board'.on) BY <1>1, <2>3, <2>5, <2>7 DEF Known
  <2>9. Shown(seen'.cells, board'.cells)
    <3>1. CASE twice BY <2>3, <3>1 DEF Shown
    <3>2. CASE ~ twice
      <4>1. Screen(board) = e BY <2>1, <2>5, <3>2
      <4>2. e.cells = board.cells BY <4>1 DEF Screen
      <4>3. QED BY <1>1, <2>3, <2>5, <2>7, <3>2, <4>2
    <3>3. QED BY <3>1, <3>2
  <2>10. Looking(t)' BY <1>1, <1>2, <1>7 DEF Looking, Watched, Same
  <2>11. QED BY <1>1, <2>3, <2>8, <2>9, <2>10, OverlayEnds
<1>8. CASE ~ (q.route = "osd_post" /\ "restarted" \notin odd)
  <2>1. Forgets(seen, q, seen')
    <3>1. CASE "restarted" \in odd BY <1>4, <1>5, <1>6, <3>1, DoubtForgets
    <3>2. CASE "restarted" \notin odd
      <4>1. seen' = Learn(seen, q, "twice" \in odd) BY <1>6, <3>2
      <4>2. QED BY <1>4, <1>5, <1>8, <3>2, <4>1, LearnForgets
    <3>3. QED BY <3>1, <3>2
  <2>2. DOMAIN seen' = SeenFields /\ Known(seen'.on, board'.on) /\ Shown(seen'.cells, board'.cells)
    BY <1>1, <1>2, <2>1, Forgotten
  <2>3. Looking(t)'
    <3>1. SUFFICES ASSUME Watched(t)', "twice" \notin thread'[t].odd PROVE Reads(seen', board', thread'[t].got)
      BY DEF Looking
    <3>2. q.route = "osd" /\ thread'[t].got = got /\ thread'[t].odd = odd BY <1>1, <1>2, <3>1 DEF Watched, Same
    <3>3. seen' = seen BY <2>1, <3>2 DEF Forgets
    <3>4. Reads(seen, board, got) BY <1>1, <1>2, <1>5, <3>1, <3>2 DEF Looking, Watched
    <3>5. QED BY <1>1, <3>2, <3>3, <3>4
  <2>4. QED BY <1>1, <2>2, <2>3, OverlayEnds
<1>9. QED BY <1>7, <1>8

\* One more operation of a post.
LEMMA PostHears ==
  ASSUME NEW k, NEW d, Healthy(d), NEW q, Typed(q), q.route = "osd_post", NEW got, IsSeq(got), NEW odd, NEW odd2,
         PaintsOn(k, d, q, got, odd), NEW op, op = OpAfter(q, got), op.fn \notin {"raise", "end"},
         NEW n \in Nat \ {0}, odd \subseteq odd2, n > 1 /\ Repeats(op) => "twice" \in odd2,
         NEW r
  PROVE  PaintsOn(k, Answered(d, op, n)[2], q, Append(got, r), odd2)
<1>1. PICK s, e : /\ IsScreen(s) /\ Known(k.on, s.on) /\ Shown(k.cells, s.cells)
                  /\ Len(got) <= Len(api_osd_post(q))
                  /\ Painted(s, api_osd_post(q), Len(got), e)
                  /\ IsScreen(e) /\ d.on = e.on
                  /\ "twice" \notin odd => Screen(d) = e
  BY DEF PaintsOn
<1>2. PICK body : body = api_osd_post(q) OBVIOUS
<1>3. body \in Seq(PostOps) BY <1>2, PostSeq
<1>4. PICK l \in Nat, m \in Nat : l = Len(got) /\ m = Len(body)
  <2>1. PICK S : got \in Seq(S) BY DEF IsSeq
  <2>2. Len(got) \in Nat /\ Len(body) \in Nat BY <1>3, <2>1
  <2>3. QED BY <2>2
<1>5. op = IF l < m THEN body[l+1] ELSE End BY <1>2, <1>4 DEF OpAfter, Program
<1>6. End.fn = "end" BY DEF End, Raise
<1>7. l < m /\ op = body[l+1] BY <1>5, <1>6
<1>8. op \in PostOps
  <2>1. l + 1 \in 1..Len(body) BY <1>4, <1>7
  <2>2. QED BY <1>3, <1>7, <2>1
<1>9. Len(Append(got, r)) = l + 1 BY <1>4, AppendSeq
<1>10. PICK f : f = Paint(e, op) OBVIOUS
<1>11. Painted(s, body, l + 1, f)
  <2>1. Painted(s, body, l, e) BY <1>1, <1>2, <1>4
  <2>2. body[l+1].fn # "raise" BY <1>7
  <2>3. QED BY <1>7, <1>10, <2>1, <2>2, PaintedMore
<1>12. PICK x : x = Answered(d, op, n)[2] OBVIOUS
<1>13. /\ x.on = Paint(Screen(d), op).on
       /\ n = 1 \/ ~ Repeats(op) => Screen(x) = Paint(Screen(d), op)
  BY <1>8, <1>12, AnswerPaints
<1>14. IsScreen(f) /\ x.on = f.on
  <2>1. PaintsAgain(e, op) BY <1>1, <1>8, PaintAgain
  <2>2. \A z : IsScreen(z) /\ z.on = e.on => Paint(z, op).on = Paint(e, op).on BY <1>1, <1>8, PaintAgain
  <2>3. IsScreen(Screen(d)) /\ Screen(d).on = e.on BY <1>1, HealthyScreen DEF Screen
  <2>4. QED BY <1>10, <1>13, <2>1, <2>2, <2>3 DEF PaintsAgain
<1>15. "twice" \notin odd2 => Screen(x) = f
  <2>1. SUFFICES ASSUME "twice" \notin odd2 PROVE Screen(x) = f OBVIOUS
  <2>2. n = 1 \/ ~ Repeats(op) BY <2>1
  <2>3. Screen(d) = e BY <1>1, <2>1
  <2>4. QED BY <1>10, <1>13, <2>2, <2>3
<1>16. l + 1 <= Len(body) BY <1>4, <1>7
<1>17. QED BY <1>1, <1>2, <1>9, <1>11, <1>12, <1>14, <1>15, <1>16 DEF PaintsOn

\* One more answer to a GET.
LEMMA LookHears ==
  ASSUME NEW k, NEW d, Healthy(d), Known(k.on, d.on), Shown(k.cells, d.cells),
         NEW q, q.route = "osd", NEW got, Reads(k, d, got),
         NEW op, op = OpAfter(q, got), op.fn \notin {"raise", "end"},
         NEW n \in Nat \ {0}, ~ (n > 1 /\ Repeats(op))
  PROVE  Reads(k, Answered(d, op, n)[2], Append(got, Answered(d, op, n)[1]))
<1>1. PICK r, e : r = Answered(d, op, n)[1] /\ e = Answered(d, op, n)[2] OBVIOUS
<1>2. PICK a : a = Append(got, r) OBVIOUS
<1>3. IsSeq(got) /\ Gathered(got) BY DEF Reads, Gathered
<1>4. PICK l \in Nat : l = Len(got)
  <2>1. PICK S : got \in Seq(S) BY <1>3 DEF IsSeq
  <2>2. QED BY <2>1
<1>5. IsSeq(a) /\ Len(a) = l + 1 /\ a[l+1] = r /\ \A i \in 1..l : a[i] = got[i]
  <2>1. IsSeq(a) /\ Len(a) = l + 1 BY <1>2, <1>3, <1>4, AppendSeq
  <2>2. PICK S : got \in Seq(S) BY <1>3 DEF IsSeq
  <2>3. QED BY <1>2, <1>4, <2>1, <2>2
<1>6. /\ l = 0 => op = ReadHolding(REG_OSD_CTRL, 1)
      /\ l = 1 => op = WriteSingle(REG_OSD_ADDR, 0)
      /\ l \in 2..NLook+1 => op = LookRead(l - 1)
      /\ l >= NLook + 2 => op = End
  BY <1>3, <1>4, LookOp
<1>7. OSD_CELLS \in Nat \ {0} /\ NLook \in Nat \ {0} BY GridCell, SomeLooks
<1> SUFFICES Reads(k, e, a) BY <1>1, <1>2
<1>8. l >= 1 => Known(k.on, a[1][1])
  <2>1. l >= 1 => 1 \in 1..l /\ a[1] = got[1] BY <1>5
  <2>2. QED BY <1>4, <2>1 DEF Reads
<1>9. CASE l = 0
  <2>1. r = <<d.on>> BY <1>1, <1>6, <1>9, OnRead
  <2>2. a[1] = r /\ Len(a) = 1 BY <1>5, <1>9
  <2>n. IsSeq(a) /\ Len(a) < 3
    <3>1. IsSeq(a) BY <1>5
    <3>2. Len(a) < 3 BY <2>2
    <3>3. QED BY <3>1, <3>2
  <2>3. Gathered(a) /\ Len(Codes3(a)) = 0 BY <2>n, NothingRead
  <2>4. Known(k.on, a[1][1]) BY <2>1, <2>2 DEF Known
  <2>5. QED BY <2>2, <2>3, <2>4 DEF Reads
<1>10. CASE l = 1
  <2>1. e.cursor = 0 BY <1>1, <1>6, <1>10, Homed
  <2>2. Len(a) = 2 BY <1>5, <1>10
  <2>n. IsSeq(a) /\ Len(a) < 3
    <3>1. IsSeq(a) BY <1>5
    <3>2. Len(a) < 3 BY <2>2
    <3>3. QED BY <3>1, <3>2
  <2>3. Gathered(a) /\ Len(Codes3(a)) = 0 BY <2>n, NothingRead
  <2>4. 0 % OSD_CELLS = 0 BY <1>7
  <2>5. QED BY <1>8, <1>10, <2>1, <2>2, <2>3, <2>4 DEF Reads
<1>11. CASE l \in 2..NLook+1
  <2>1. PICK j \in 1..NLook : j = l - 1 /\ op = LookRead(j) BY <1>6, <1>7, <1>11
  <2>2. LookRead(j).fn = "read"
    <3>1. LookRead(j).fn \in {"read", "raise"} BY DEF LookRead, ReadHolding, Raise
    <3>2. QED BY <2>1, <3>1
  <2>3. PICK c : c = Chunks(OSD_CELLS, MAX_READ)[j] OBVIOUS
  <2>4. c \in 1..125 /\ Repeats(op) BY <2>1, <2>2, <2>3, LookAnswer
  <2>5. n = 1 BY <2>4
  <2>6. /\ r = [i \in 1..c |-> d.cells[(d.cursor + i - 1) % OSD_CELLS]]
        /\ e.cursor = (d.cursor + c) % OSD_CELLS
    BY <1>1, <2>1, <2>2, <2>3, <2>5, LookAnswer DEF Healthy
  <2>7. PICK cn \in Nat : cn = c /\ cn >= 1 BY <2>4
  <2> DEFINE T == {r[i] : i \in 1..cn}
  <2>8. r \in Seq(T) /\ Len(r) = cn
    <3>1. r = [i \in 1..cn |-> r[i]] /\ \A i \in 1..cn : r[i] \in T BY <2>6, <2>7
    <3> HIDE DEF T
    <3>2. QED BY <3>1, IsSequence
  <2> HIDE DEF T
  <2>9. /\ Gathered(a) /\ Codes3(a) = Codes3(got) \o r
        /\ Len(Codes3(got)) \in Nat /\ Len(Codes3(got)) < OSD_CELLS /\ Len(Codes3(got)) + Len(r) <= OSD_CELLS
        /\ IsSeq(Codes3(got))
    <3>1. Len(got) \in 2..NLook+1 /\ Len(r) = Chunks(OSD_CELLS, MAX_READ)[Len(got) - 1]
      BY <1>4, <1>11, <2>1, <2>3, <2>7, <2>8
    <3>2. QED BY <1>2, <1>3, <2>8, <3>1, LookAdded
  <2>10. PICK p \in Nat : p = Len(Codes3(got)) /\ p < OSD_CELLS /\ p + cn <= OSD_CELLS BY <2>8, <2>9
  <2>11. /\ Len(Codes3(a)) = p + cn
         /\ \A i \in 1..p : Codes3(a)[i] = Codes3(got)[i]
         /\ \A i \in p+1..p+cn : Codes3(a)[i] = r[i-p]
    <3>1. IsSeq(r) BY <2>8 DEF IsSeq
    <3>2. PICK x : x = Codes3(got) OBVIOUS
    <3>3. /\ Len(x \o r) = Len(x) + Len(r)
          /\ \A i \in 1..Len(x) : (x \o r)[i] = x[i]
          /\ \A i \in Len(x)+1..Len(x)+Len(r) : (x \o r)[i] = r[i - Len(x)]
      BY <2>9, <3>1, <3>2, SeqJoin
    <3>4. QED BY <2>8, <2>9, <2>10, <3>2, <3>3
  <2>12. ASSUME k.cells # <<>>
         PROVE  /\ e.cursor = Len(Codes3(a)) % OSD_CELLS
                /\ \A i \in 1..Len(Codes3(a)) : osd_char(Codes3(a)[i]) = Printed(k.cells[1][i-1])
    <3>1. d.cursor = p % OSD_CELLS BY <1>4, <1>11, <2>10, <2>12 DEF Reads
    <3>2. p % OSD_CELLS = p BY <1>7, <2>10
    <3>3. d.cursor = p BY <3>1, <3>2
    <3>4. e.cursor = (p + cn) % OSD_CELLS BY <2>6, <2>7, <3>3
    <3>5. Alike(d.cells, k.cells[1]) BY <2>12 DEF Shown
    <3>6. ASSUME NEW i \in 1..p+cn PROVE osd_char(Codes3(a)[i]) = Printed(k.cells[1][i-1])
      <4>1. CASE i \in 1..p BY <2>10, <2>11, <2>12, <4>1 DEF Reads
      <4>2. CASE i \notin 1..p
        <5>1. PICK x \in 1..cn : x = i - p /\ i \in p+1..p+cn BY <4>2
        <5>2. i - 1 \in Nat /\ i - 1 < OSD_CELLS /\ p + x - 1 = i - 1
          <6>1. PICK C \in Nat : C = OSD_CELLS BY <1>7
          <6>2. p + cn <= C BY <2>10, <6>1
          <6>3. i \in p+1..p+cn /\ x = i - p BY <5>1
          <6>4. QED BY <6>1, <6>2, <6>3
        <5>3. (i - 1) % OSD_CELLS = i - 1 BY <1>7, <5>2
        <5>4. r[x] = d.cells[(p + x - 1) % OSD_CELLS] BY <2>6, <2>7, <3>3, <5>1
        <5>5. r[x] = d.cells[i-1] BY <5>2, <5>3, <5>4
        <5>6. i - 1 \in Cells BY <1>7, <5>2 DEF Cells
        <5>7. osd_char(d.cells[i-1]) = Printed(k.cells[1][i-1]) BY <3>5, <5>6 DEF Alike
        <5>8. Codes3(a)[i] = r[x] BY <2>11, <5>1
        <5>9. QED BY <5>5, <5>7, <5>8
      <4>3. QED BY <4>1, <4>2
    <3>7. QED BY <2>11, <3>4, <3>6
  <2>13. QED BY <1>4, <1>8, <1>11, <2>9, <2>12 DEF Reads
<1>12. l \in 2..NLook+1 \/ l = 0 \/ l = 1
  <2>1. End.fn = "end" BY DEF End, Raise
  <2>2. ~ (l >= NLook + 2) BY <1>6, <2>1
  <2>3. QED BY <1>7, <2>2
<1>13. QED BY <1>9, <1>10, <1>11, <1>12

\* A thread goes to where it is not in its body, or comes into it.
LEMMA OverlayWalks ==
  ASSUME LockInv, CourseInv, OverlayInv, NEW t \in Threads, OthersKept(t), Walks(t)
  PROVE  OverlayInv'
<1>1. Same(t) /\ seen' = seen /\ board' = board BY DEF Walks, Untouched
<1>2. Course(t) BY DEF CourseInv
<1>3. \A u \in Threads \ {t} : Stays(u) BY DEF OthersKept, Stays
<1>4. ~ InBody(t) BY DEF Walks, Asks, Locks, Tests, Drops, Opens, InBody
<1>5. CASE thread'[t].at # "body"
  <2>1. ~ InBody(t)' BY <1>4, <1>5 DEF Walks, Asks, Locks, Tests, Drops, Opens, InBody
  <2>2. ~ Watched(t)'
    <3>1. CASE Asks(t)
      <4>1. thread'[t].q.route = "state" /\ ~ InBody(t)' BY <1>1, <1>2, <2>1, <3>1 DEF Same, Course, Asks
      <4>2. QED BY <4>1 DEF Watched
    <3>2. CASE Locks(t) \/ Tests(t) \/ Drops(t) \/ Opens(t)
      <4>1. thread[t].res # "ok" BY <1>2, <3>2 DEF Course, Busy, Early, Locks, Tests, Drops, Opens
      <4>2. thread'[t].res # "ok" BY <3>2, <4>1 DEF Locks, Tests, Drops, Opens
      <4>3. QED BY <2>1, <4>2 DEF Watched
    <3>3. QED BY <3>1, <3>2 DEF Walks
  <2>3. Stays(t) BY <1>4, <2>1, <2>2 DEF Stays
  <2>4. QED BY <1>1, <1>3, <2>3, OverlayStill
<1>6. CASE thread'[t].at = "body"
  <2>1. thread[t].at = "open" /\ InBody(t)' BY <1>6 DEF Walks, Asks, Locks, Tests, Drops, Opens, InBody
  <2>2. thread[t].q.route = "connect" /\ thread'[t].q = thread[t].q BY <1>1, <1>2, <2>1 DEF Course, Same
  <2>3. lock = t
    <3>1. Uses(t) BY <2>1 DEF Uses
    <3>2. QED BY <3>1 DEF LockInv
  <2>4. ASSUME NEW u \in Threads \ {t} PROVE thread'[u] = thread[u] /\ ~ InBody(u)
    <3>1. ~ Uses(u) BY <2>3 DEF LockInv
    <3>2. QED BY <3>1 DEF OthersKept, Uses, InBody
  <2>5. \A u \in Threads : ~ Drawing(u) BY <1>4, <2>4 DEF Drawing
  <2>6. Known(seen.on, board.on) /\ Shown(seen.cells, board.cells) /\ DOMAIN seen = SeenFields
    BY <2>5 DEF OverlayInv, OverlayKnown
  <2>7. OverlayKnown(seen, board)' BY <1>1, <2>6 DEF OverlayKnown
  <2>8. Posting(t)' /\ Looking(t)' BY <2>2 DEF Posting, Looking, Watched
  <2>9. ASSUME NEW u \in Threads \ {t} PROVE Posting(u)' /\ Looking(u)'
    <3>1. Posting(u) /\ Looking(u) BY DEF OverlayInv
    <3>2. thread'[u] = thread[u] BY <2>4
    <3>3. Posting(u)' BY <1>1, <3>1, <3>2 DEF Posting, InBody
    <3>4. Looking(u)' BY <1>1, <3>1, <3>2 DEF Looking, Watched, InBody
    <3>5. QED BY <3>3, <3>4
  <2>10. QED BY <1>1, <2>6, <2>7, <2>8, <2>9 DEF OverlayInv
<1>7. QED BY <1>5, <1>6

\* What is known of an overlay that nobody is painting is so.
LEMMA NobodyPaints ==
  ASSUME LockInv, OverlayInv, lock = NoThread \/ \E t \in Threads : thread[t].at = "require"
  PROVE  /\ \A u \in Threads : ~ InBody(u)
         /\ Known(seen.on, board.on) /\ Shown(seen.cells, board.cells)
<1>1. \A u \in Threads : ~ InBody(u)
  <2>1. CASE lock = NoThread BY <2>1, LockAssumption DEF LockInv, Uses, InBody
  <2>2. ASSUME NEW t \in Threads, thread[t].at = "require" PROVE \A u \in Threads : ~ InBody(u)
    <3>1. lock = t /\ ~ InBody(t) BY <2>2 DEF LockInv, Uses, InBody
    <3>2. QED BY <3>1 DEF LockInv, Uses, InBody
  <2>3. QED BY <2>1, <2>2
<1>2. \A u \in Threads : ~ Drawing(u) BY <1>1 DEF Drawing
<1>3. QED BY <1>1, <1>2 DEF OverlayInv, OverlayKnown

LEMMA OverlayTakes ==
  ASSUME LockInv, CourseInv, OverlayInv, NEW t \in Threads, OthersKept(t), Takes(t)
  PROVE  OverlayInv'
<1>1. seen' = seen /\ board' = board /\ thread[t].at = "require" /\ Same(t) BY DEF Takes, Untouched
<1>2. Course(t) /\ Healthy(board) BY DEF CourseInv
<1>3. thread[t].got = <<>> /\ thread'[t].got = <<>> BY <1>1, <1>2 DEF Same, Course, Early
<1>4. /\ \A u \in Threads : ~ InBody(u)
      /\ Known(seen.on, board.on) /\ Shown(seen.cells, board.cells)
  BY <1>1, NobodyPaints
<1>5. OverlayKnown(seen, board)' BY <1>1, <1>4 DEF OverlayKnown
<1>6. Posting(t)'
  <2>1. PICK q, odd, s : q = thread'[t].q /\ odd = thread'[t].odd /\ s = Screen(board) OBVIOUS
  <2>2. IsScreen(s) /\ s.on = board.on /\ s.cells = board.cells BY <1>2, <2>1, HealthyScreen DEF Screen
  <2>3. q.route = "osd_post" => PaintsOn(seen, board, q, <<>>, odd)
    <3>1. SUFFICES ASSUME q.route = "osd_post" PROVE PaintsOn(seen, board, q, <<>>, odd) OBVIOUS
    <3>2. Typed(q) BY <1>1, <1>2, <2>1 DEF Course, Same
    <3>3. PICK body : body = api_osd_post(q) OBVIOUS
    <3>4. body \in Seq(PostOps) BY <3>1, <3>2, <3>3, PostSeq
    <3>5. Len(<<>>) = 0 /\ 0 <= Len(body) BY <3>4
    <3>6. Painted(s, body, 0, s) BY PaintedStart
    <3>7. QED BY <1>4, <2>1, <2>2, <3>3, <3>5, <3>6 DEF PaintsOn
  <2>4. QED BY <1>1, <1>3, <2>1, <2>3 DEF Posting
<1>7. Looking(t)'
  <2>1. IsSeq(<<>>) /\ Len(<<>>) = 0 BY DEF IsSeq
  <2>2. Gathered(<<>>) /\ Len(Codes3(<<>>)) = 0 BY <2>1, NothingRead
  <2>3. PICK e : e = <<>> OBVIOUS
  <2>4. Gathered(e) /\ Len(Codes3(e)) = 0 /\ Len(e) = 0 BY <2>1, <2>2, <2>3
  <2>5. Reads(seen, board, e) BY <2>4 DEF Reads
  <2>6. QED BY <1>1, <1>3, <2>3, <2>5 DEF Looking
<1>8. ASSUME NEW u \in Threads \ {t} PROVE Posting(u)' /\ Looking(u)'
  <2>1. Posting(u) /\ Looking(u) BY DEF OverlayInv
  <2>2. thread'[u] = thread[u] BY DEF OthersKept
  <2>3. Posting(u)' BY <1>1, <2>1, <2>2 DEF Posting, InBody
  <2>4. Looking(u)' BY <1>1, <2>1, <2>2 DEF Looking, Watched, InBody
  <2>5. QED BY <2>3, <2>4
<1>9. DOMAIN seen' = SeenFields BY <1>1 DEF OverlayInv
<1>10. QED BY <1>5, <1>6, <1>7, <1>8, <1>9 DEF OverlayInv

LEMMA OverlayHears ==
  ASSUME LockInv, CourseInv, OverlayInv, NEW t \in Threads, OthersKept(t),
         NEW n \in 1..Resends+1, Hears(t, n)
  PROVE  OverlayInv'
<1>1. PICK q, got, op, odd, odd2 : /\ q = thread[t].q /\ got = thread[t].got /\ op = thread[t].op
                                   /\ odd = thread[t].odd /\ odd2 = thread'[t].odd
  OBVIOUS
<1>2. PICK r, d : r = Answered(board, op, n)[1] /\ d = Answered(board, op, n)[2] OBVIOUS
<1>3. /\ InBody(t) /\ InBody(t)' /\ board' = d /\ seen' = seen
      /\ thread'[t].q = q /\ thread'[t].got = Append(got, r)
      /\ n \in Nat \ {0} /\ op.fn \notin {"raise", "end"}
      /\ odd \subseteq odd2 /\ (n > 1 /\ Repeats(op) => "twice" \in odd2)
  BY <1>1, <1>2 DEF Hears, Calling, InBody
<1>4. Typed(q) /\ ~ Refused(q) /\ q.route # "state" /\ Heard(q, got) /\ op = OpAfter(q, got)
  BY <1>1, <1>3 DEF CourseInv, Course, InBody, Busy
<1>5. Healthy(board) /\ Tame(q, op)
  <2>1. Tame(q, op) BY <1>3, <1>4, OpTame
  <2>2. QED BY <2>1 DEF CourseInv
<1>6. Spares(q, board, d) BY <1>2, <1>3, <1>5, AnswerSpares
<1>7. /\ REG_OSD_CTRL \in Touches(q) => Hides(q)
      /\ REG_OSD_DATA \in Touches(q) => Draws(q)
  BY <1>4, TouchesOverlay
<1>8. /\ ~ Hides(q) => d.on = board.on
      /\ ~ Draws(q) => d.cells = board.cells
  BY <1>6, <1>7 DEF Spares, Hides, Draws
<1>9. OverlayKnown(seen, board) /\ Posting(t) /\ Looking(t) /\ DOMAIN seen = SeenFields BY DEF OverlayInv
<1>10. \A u \in Threads : Drawing(u) => u = t BY <1>3, OneUses DEF Drawing
<1>11. /\ ~ Hides(q) => Known(seen.on, board.on)
       /\ ~ Draws(q) => Shown(seen.cells, board.cells)
  BY <1>1, <1>9, <1>10 DEF OverlayKnown
<1>12. Drawing(t)'
  <2>1. IsSeq(got) BY <1>4 DEF Heard
  <2>2. PICK S : got \in Seq(S) BY <2>1 DEF IsSeq
  <2>3. Len(Append(got, r)) = Len(got) + 1 /\ Len(got) \in Nat BY <2>1, <2>2, AppendSeq
  <2>4. PICK a : a = Append(got, r) OBVIOUS
  <2>5. a # <<>> BY <2>3, <2>4
  <2>6. QED BY <1>3, <2>4, <2>5 DEF Drawing
<1>13. OverlayKnown(seen, board)' BY <1>3, <1>8, <1>11, <1>12 DEF OverlayKnown
<1>14. Posting(t)'
  <2>1. SUFFICES ASSUME q.route = "osd_post", "restarted" \notin odd2
                 PROVE  PaintsOn(seen, d, q, Append(got, r), odd2)
    BY <1>1, <1>3 DEF Posting
  <2>2. PaintsOn(seen, board, q, got, odd) BY <1>1, <1>3, <1>9, <2>1 DEF Posting
  <2>3. IsSeq(got) BY <1>4 DEF Heard
  <2>4. QED BY <1>2, <1>3, <1>4, <1>5, <2>1, <2>2, <2>3, PostHears
<1>15. Looking(t)'
  <2>1. SUFFICES ASSUME q.route = "osd", "twice" \notin odd2
                 PROVE  Reads(seen, d, Append(got, r))
    BY <1>1, <1>3 DEF Looking, Watched
  <2>2. Reads(seen, board, got) BY <1>1, <1>3, <1>9, <2>1 DEF Looking, Watched
  <2>3. Known(seen.on, board.on) /\ Shown(seen.cells, board.cells) BY <1>11, <2>1 DEF Hides, Draws
  <2>4. ~ (n > 1 /\ Repeats(op)) BY <1>3, <2>1
  <2>5. QED BY <1>2, <1>3, <1>4, <1>5, <2>1, <2>2, <2>3, <2>4, LookHears
<1>16. ASSUME NEW u \in Threads \ {t} PROVE Posting(u)' /\ Looking(u)'
  <2>1. ~ InBody(u) /\ ~ Watched(u) BY <1>3, OneUses
  <2>2. thread'[u] = thread[u] BY DEF OthersKept
  <2>3. ~ InBody(u)' /\ ~ Watched(u)' BY <2>1, <2>2 DEF InBody, Watched
  <2>4. QED BY <2>3 DEF Posting, Looking
<1>17. QED BY <1>3, <1>9, <1>13, <1>14, <1>15, <1>16 DEF OverlayInv

LEMMA OverlayTurn ==
  ASSUME LockInv, CourseInv, OverlayInv, NEW t \in Threads, Step(t)
  PROVE  OverlayInv'
<1>1. /\ OthersKept(t)
      /\ \/ Walks(t) \/ Takes(t) \/ GivesUp(t) \/ LooksOn(t) \/ Succeeds(t) \/ Goes(t)
         \/ \E n \in 1..Resends+1 : Hears(t, n)
  BY Turns DEF LockInv
<1>2. \A u \in Threads \ {t} : Stays(u) BY <1>1 DEF OthersKept, Stays
<1>3. ASSUME Untouched, Stays(t) PROVE OverlayInv'
  <2>1. seen' = seen /\ board' = board BY <1>3 DEF Untouched
  <2>2. QED BY <1>2, <1>3, <2>1, OverlayStill
<1>4. CASE LooksOn(t)
  <2>1. thread[t].q.route = "grab" /\ InBody(t) /\ InBody(t)' /\ Same(t) /\ Untouched
    BY <1>4 DEF LooksOn, Grabbing, InBody
  <2>2. seen' = seen /\ board' = board BY <2>1 DEF Untouched
  <2>3. OverlayKnown(seen, board)' BY <1>1, <2>1, <2>2, StillKnown DEF Same, OthersKept, InBody
  <2>4. Posting(t)' /\ Looking(t)' BY <2>1 DEF Same, Posting, Looking, Watched
  <2>5. ASSUME NEW u \in Threads \ {t} PROVE Posting(u)' /\ Looking(u)'
    <3>1. Posting(u) /\ Looking(u) BY DEF OverlayInv
    <3>2. thread'[u] = thread[u] BY <1>1 DEF OthersKept
    <3>3. Posting(u)' BY <2>2, <3>1, <3>2 DEF Posting, InBody
    <3>4. Looking(u)' BY <2>2, <3>1, <3>2 DEF Looking, Watched, InBody
    <3>5. QED BY <3>3, <3>4
  <2>6. QED BY <2>2, <2>3, <2>4, <2>5 DEF OverlayInv
<1>5. CASE Goes(t)
  <2>1. thread'[t].at = "idle" /\ thread[t].at = "leave" /\ Untouched BY <1>5 DEF Goes, Idle
  <2>2. Stays(t) BY <2>1 DEF Stays, InBody, Watched
  <2>3. QED BY <1>3, <2>1, <2>2
<1>6. QED BY <1>1, <1>4, <1>5, OverlayWalks, OverlayTakes, OverlayGivesUp, OverlaySucceeds, OverlayHears

\* Without its power the board forgets, and so does what is known of it.
LEMMA OverlayUnplugged ==
  ASSUME LockInv, CourseInv, OverlayInv, Unplug
  PROVE  OverlayInv'
<1>1. ThreadRecords BY DEF LockInv
<1>2. seen' = NotKnown BY DEF Unplug
<1>3. DOMAIN seen' = SeenFields /\ seen'.on = <<>> /\ seen'.cells = <<>> BY <1>2 DEF NotKnown, SeenFields
<1>4. OverlayKnown(seen, board)' BY <1>3 DEF OverlayKnown, Known, Shown
<1>5. ASSUME NEW t \in Threads PROVE Posting(t)' /\ Looking(t)'
  <2>1. /\ thread'[t].at = thread[t].at /\ thread'[t].q = thread[t].q
        /\ thread'[t].got = thread[t].got /\ thread'[t].res = thread[t].res
        /\ thread'[t].odd \in {thread[t].odd, thread[t].odd \cup {"restarted"}}
    BY <1>1, UnplugMarks, MarkedFields
  <2>2. InBody(t)' => "restarted" \in thread'[t].odd
    <3>1. SUFFICES ASSUME InBody(t)' PROVE "restarted" \in thread'[t].odd OBVIOUS
    <3>2. InBody(t) BY <2>1, <3>1 DEF InBody
    <3>3. thread'[t] = [thread[t] EXCEPT !.odd = @ \cup {"restarted"}] BY <3>2 DEF Unplug
    <3>4. thread'[t].odd = thread[t].odd \cup {"restarted"} BY <1>1, <3>3 DEF ThreadRecords
    <3>5. QED BY <3>4
  <2>3. Posting(t)' BY <2>2 DEF Posting
  <2>4. Looking(t)'
    <3>1. SUFFICES ASSUME Watched(t)', "twice" \notin thread'[t].odd PROVE Reads(seen', board', thread'[t].got)
      BY DEF Looking
    <3>2. Watched(t) /\ "twice" \notin thread[t].odd BY <2>1, <3>1 DEF Watched, InBody
    <3>3. Reads(seen, board, thread[t].got) BY <3>2 DEF OverlayInv, Looking
    <3>4. Gathered(thread'[t].got) BY <2>1, <3>3 DEF Reads
    <3>5. QED BY <1>3, <3>4 DEF Reads, Known
  <2>5. QED BY <2>3, <2>4
<1>6. QED BY <1>3, <1>4, <1>5 DEF OverlayInv

LEMMA OverlayAsk ==
  ASSUME LockInv, CourseInv, OverlayInv, NEW t \in Threads, NEW q \in session.may, Ask(t, q)
  PROVE  OverlayInv'
<1> DEFINE both == {u \in Threads : q.route = "grab" /\ Grabbing(u)}
           at == IF q.route = "state" THEN "state" ELSE "lock"
           new == [Idle EXCEPT !.at = at, !.q = q, !.op = OpAfter(q, <<>>), !.since = board.shot]
           mine == [new EXCEPT !.odd = IF both = {} THEN {} ELSE {"shared"}]
<1>1. /\ thread' = [u \in Threads |->
           IF u = t THEN mine
           ELSE IF u \in both THEN [thread[u] EXCEPT !.odd = @ \cup {"shared"}] ELSE thread[u]]
      /\ board' = board /\ seen' = seen /\ thread[t].at = "idle"
  BY DEF Ask, Board
<1>2. mine.at = at BY DEF Idle
<1>3. at \in {"state", "lock"} OBVIOUS
<1> HIDE DEF mine, both, at
<1>4. Stays(t)
  <2>1. thread'[t] = mine BY <1>1
  <2>2. QED BY <1>1, <1>2, <1>3, <2>1 DEF Stays, InBody, Watched
<1>5. ASSUME NEW u \in Threads \ {t} PROVE Stays(u)
  <2>1. thread'[u] = [thread[u] EXCEPT !.odd = @ \cup {"shared"}] \/ thread'[u] = thread[u] BY <1>1, <1>5
  <2>2. QED BY <2>1 DEF LockInv, ThreadRecords, Stays
<1>6. QED BY <1>1, <1>4, <1>5, OverlayStill

LEMMA OverlayInductive == LockInv /\ CourseInv /\ OverlayInv /\ [Next]_vars => OverlayInv'
<1> SUFFICES ASSUME LockInv, CourseInv, OverlayInv, [Next]_vars PROVE OverlayInv' OBVIOUS
<1>1. ThreadRecords /\ Healthy(board) BY DEF LockInv, CourseInv
<1>2. ASSUME seen' = seen, board'.on = board.on, board'.cells = board.cells, board'.cursor = board.cursor,
             \A t \in Threads :
               /\ thread'[t].at = thread[t].at /\ thread'[t].q = thread[t].q /\ thread'[t].got = thread[t].got
               /\ thread'[t].res = thread[t].res /\ thread[t].odd \subseteq thread'[t].odd
      PROVE  OverlayInv'
  <2>1. \A t \in Threads : Stays(t) BY <1>2 DEF Stays
  <2>2. QED BY <1>2, <2>1, OverlayStill
<1>3. CASE UNCHANGED vars BY <1>2, <1>3 DEF vars
<1>4. CASE \E t \in Threads : (\E q \in session.may : Ask(t, q)) \/ Step(t) BY <1>4, OverlayAsk, OverlayTurn
<1>5. CASE PostCancel
  <2>1. board' = board /\ seen' = seen BY <1>5 DEF PostCancel, Board
  <2>2. ASSUME NEW t \in Threads
        PROVE  /\ thread'[t].at = thread[t].at /\ thread'[t].q = thread[t].q /\ thread'[t].got = thread[t].got
               /\ thread'[t].res = thread[t].res /\ thread[t].odd \subseteq thread'[t].odd
    <3> DEFINE x == Min({thread[t].asked, Len(Pixels(thread[t].got))})
    <3>1. thread'[t] = [thread[t] EXCEPT !.asked = x] \/ thread'[t] = thread[t] BY <1>5 DEF PostCancel
    <3> HIDE DEF x
    <3>2. QED BY <1>1, <3>1 DEF ThreadRecords
  <2>3. QED BY <1>2, <2>1, <2>2
<1>6. CASE BoardMoves
  <2>1. board' \in BoardSteps(board) /\ seen' = seen /\ thread' = thread BY <1>6 DEF BoardMoves
  <2>2. board'.on = board.on /\ board'.cursor = board.cursor /\ board'.cells = board.cells
    BY <1>1, <2>1, MovesFace
  <2>3. QED BY <1>2, <2>1, <2>2
<1>7. CASE Watchdog
  <2>1. board' = WatchdogEnds(board) /\ Marked("watchdog") /\ seen' = seen BY <1>7, WatchdogMarks DEF Watchdog
  <2>2. board'.on = board.on /\ board'.cursor = board.cursor /\ board'.cells = board.cells
    BY <1>1, <2>1 DEF WatchdogEnds, Healthy, BoardFields
  <2>3. ASSUME NEW t \in Threads
        PROVE  /\ thread'[t].at = thread[t].at /\ thread'[t].q = thread[t].q /\ thread'[t].got = thread[t].got
               /\ thread'[t].res = thread[t].res /\ thread[t].odd \subseteq thread'[t].odd
    <3>1. /\ thread'[t].at = thread[t].at /\ thread'[t].q = thread[t].q /\ thread'[t].got = thread[t].got
          /\ thread'[t].res = thread[t].res /\ thread'[t].odd \in {thread[t].odd, thread[t].odd \cup {"watchdog"}}
      BY <1>1, <2>1, MarkedFields
    <3>2. QED BY <3>1
  <2>4. QED BY <1>2, <2>1, <2>2, <2>3
<1>8. CASE Unplug BY <1>8, OverlayUnplugged
<1>9. CASE Replug
  <2>1. board' = board /\ thread' = thread /\ seen' = seen BY <1>9 DEF Replug, Board
  <2>2. QED BY <1>2, <2>1
<1>10. QED BY <1>3, <1>4, <1>5, <1>6, <1>7, <1>8, <1>9 DEF Next

LEMMA OverlayInit == Init => OverlayInv
<1> SUFFICES ASSUME Init PROVE OverlayInv OBVIOUS
<1>1. \A t \in Threads : thread[t].at = "idle" BY DEF Init, Idle
<1>2. seen = NotKnown BY DEF Init
<1>3. DOMAIN seen = SeenFields /\ seen.on = <<>> /\ seen.cells = <<>> BY <1>2 DEF NotKnown, SeenFields
<1>4. OverlayKnown(seen, board) BY <1>3 DEF OverlayKnown, Known, Shown
<1>5. \A t \in Threads : Posting(t) /\ Looking(t) BY <1>1 DEF Posting, Looking, Watched, InBody
<1>6. QED BY <1>3, <1>4, <1>5 DEF OverlayInv

\* A GET that was answered has every cell.
LEMMA LooksOver ==
  ASSUME NEW q, q.route = "osd", NEW got, Gathered(got), OpAfter(q, got).fn = "end"
  PROVE  Len(got) >= 1 /\ Len(Codes3(got)) = OSD_CELLS
<1>1. IsSeq(got) BY DEF Gathered
<1>2. PICK op, l, n : op = OpAfter(q, got) /\ l = Len(got) /\ n = NLook OBVIOUS
<1>3. n \in Nat \ {0} BY <1>2, SomeLooks
<1>4. /\ l \in Nat
      /\ l = 0 => op = ReadHolding(REG_OSD_CTRL, 1)
      /\ l = 1 => op = WriteSingle(REG_OSD_ADDR, 0)
      /\ l \in 2..n+1 => op = LookRead(l - 1)
  BY <1>1, <1>2, LookOp
<1>5. l # 0 BY <1>2, <1>4 DEF ReadHolding, Raise
<1>6. l # 1 BY <1>2, <1>4 DEF WriteSingle
<1>7. l \notin 2..n+1
  <2>1. \A j : LookRead(j).fn # "end" BY DEF LookRead, ReadHolding, Raise
  <2>2. QED BY <1>2, <1>4, <2>1
<1>8. l >= n + 2 /\ l >= 1 BY <1>3, <1>4, <1>5, <1>6, <1>7
<1>9. QED BY <1>2, <1>8, AllRead

LEMMA OverlayHolds ==
  ASSUME LockInv, CourseInv, OverlayInv
  PROVE  OverlayAsPosted
<1>1. ASSUME lock = NoThread
      PROVE  /\ Known(seen.on, board.on)
             /\ seen.cells # <<>> =>
                  \A i \in 0..OSD_CELLS-1 : osd_char(board.cells[i]) = Printed(seen.cells[1][i])
  <2>1. Known(seen.on, board.on) /\ Shown(seen.cells, board.cells) BY <1>1, NobodyPaints
  <2>2. QED BY <2>1 DEF Shown, Alike, Cells
<1>2. ASSUME NEW t \in Threads, Served(t, "osd"), "twice" \notin thread[t].odd
      PROVE  /\ Known(seen.on, thread[t].got[1][1])
             /\ seen.cells # <<>> =>
                  \A i \in 1..OSD_CELLS : osd_char(Codes3(thread[t].got)[i]) = Printed(seen.cells[1][i-1])
  <2>1. PICK q, got : q = thread[t].q /\ got = thread[t].got OBVIOUS
  <2>2. q.route = "osd" /\ Watched(t) BY <1>2, <2>1 DEF Served, Watched
  <2>3. OpAfter(q, got).fn = "end"
    <3>1. Course(t) BY DEF CourseInv
    <3>2. thread[t].op = OpAfter(q, got) /\ thread[t].op.fn = "end" BY <1>2, <2>1, <2>2, <3>1 DEF Served, Course
    <3>3. QED BY <3>2
  <2>4. Reads(seen, board, got) BY <1>2, <2>1, <2>2 DEF OverlayInv, Looking
  <2>5. Len(got) >= 1 /\ Len(Codes3(got)) = OSD_CELLS BY <2>2, <2>3, <2>4, LooksOver DEF Reads
  <2>6. QED BY <2>1, <2>4, <2>5 DEF Reads
<1>3. QED BY <1>1, <1>2 DEF OverlayAsPosted, Codes3

\* For any requests, faults and size of the overlay: with the bus free, the
\* screen shows what the acknowledged posts wrote, each over what was known
\* before it, is on or off as they said, and what GET /api/osd answers is that,
\* unless one of its chunks went over the line twice.
THEOREM OverlayPosted == Spec => []OverlayAsPosted
<1>1. LockInv /\ CourseInv /\ OverlayInv => OverlayAsPosted BY OverlayHolds
<1>2. QED BY <1>1, LockInit, LockInductive, CourseInit, CourseInductive, OverlayInit, OverlayInductive, PTL DEF Spec

-----------------------------------------------------------------------------
(* What a user knows of the settings, and what a request may change *)

Setters == {"control", "coeff", "center"}
Item(q) == CASE q.route = "control" -> <<"control", q.id>>
             [] q.route = "coeff"   -> <<"coeff", q.index>>
             [] OTHER               -> <<"center", 0>>
Reinits(q) == q.route = "reset_defaults" \/ (q.route = "raw_post" /\ q.addr = REG_REINIT)
Stirs(q, x) ==
  \/ q.route \in Setters /\ x = Item(q)
  \/ Reinits(q)
  \/ q.route = "raw_post" /\ Mask(x, q.addr) # {}

Told(x, k) == IF x[1] = "control" THEN k.control[x[2]]
              ELSE IF x[1] = "coeff" THEN k.coeff[x[2]] ELSE k.center
Value(x, cam) == IF x[1] = "control" THEN decode_control(CONTROLS[x[2]], cam)
                 ELSE IF x[1] = "coeff" THEN decode_matrix(cam, x[2])
                 ELSE MTXS_AUTO_CONTRAST \subseteq cam[MTXS_REG]
Near(x, v, w) == IF x = <<"control", "gamma">> THEN w - v \in 1-SliderStep..SliderStep-1 ELSE w = v
Agrees(x, k, cam) == Told(x, k) # <<>> => Near(x, Told(x, k)[1], Value(x, cam))

SeenShape(k) == DOMAIN k = SeenFields /\ DOMAIN k.control = Ids /\ DOMAIN k.coeff = Coeffs
Unknown(k) == \A x \in Settings : Told(x, k) = <<>>

\* What a user knows after k when a request q may have changed its settings.
Doubts(k, q, e) ==
  /\ SeenShape(e)
  /\ \A x \in Settings : Told(x, e) \in {Told(x, k), <<>>} /\ (Stirs(q, x) => Told(x, e) = <<>>)

LEMMA SettingKinds ==
  ASSUME NEW x \in Settings
  PROVE  \/ \E id \in Ids : x = <<"control", id>> /\ x[1] = "control" /\ x[2] = id
         \/ \E i \in Coeffs : x = <<"coeff", i>> /\ x[1] = "coeff" /\ x[2] = i
         \/ x = <<"center", 0>> /\ x[1] = "center"
<1>1. Coeffs = 0..5 BY MatrixIs DEF Coeffs
<1>2. ASSUME NEW id \in Ids, x = <<"control", id>> PROVE x[1] = "control" /\ x[2] = id BY <1>2
<1>3. ASSUME NEW i \in Coeffs, x = <<"coeff", i>> PROVE x[1] = "coeff" /\ x[2] = i BY <1>3
<1>4. x = <<"center", 0>> => x[1] = "center" OBVIOUS
<1>5. QED BY <1>1, <1>2, <1>3, <1>4 DEF Settings, Ids

\* A setting has bits only where its register is.
LEMMA MaskWhere ==
  /\ \A id, a : Mask(<<"control", id>>, a) # {} => a \in RegsOf(CONTROLS[id])
  /\ \A i, a : Mask(<<"coeff", i>>, a) # {} => a \in {MTX_REGS[i + 1], MTXS_REG}
  /\ \A a : Mask(<<"center", 0>>, a) # {} => a = MTXS_REG
<1>1. ASSUME NEW id, NEW a, Mask(<<"control", id>>, a) # {} PROVE a \in RegsOf(CONTROLS[id])
  <2>1. PICK x : x = <<"control", id>> OBVIOUS
  <2>2. x[1] = "control" /\ x[2] = id BY <2>1
  <2>3. QED BY <1>1, <2>1, <2>2 DEF Mask
<1>2. ASSUME NEW i, NEW a, Mask(<<"coeff", i>>, a) # {} PROVE a \in {MTX_REGS[i + 1], MTXS_REG}
  <2>1. PICK x : x = <<"coeff", i>> OBVIOUS
  <2>2. x[1] = "coeff" /\ x[2] = i BY <2>1
  <2>3. QED BY <1>2, <2>1, <2>2 DEF Mask
<1>3. ASSUME NEW a, Mask(<<"center", 0>>, a) # {} PROVE a = MTXS_REG
  <2>1. PICK x : x = <<"center", 0>> OBVIOUS
  <2>2. x[1] = "center" BY <2>1
  <2>3. QED BY <1>3, <2>1, <2>2 DEF Mask
<1>4. QED BY <1>1, <1>2, <1>3

LEMMA PokedDoubts ==
  ASSUME NEW k, SeenShape(k), NEW a
  PROVE  /\ SeenShape(Poked(k, a))
         /\ \A x \in Settings : Told(x, Poked(k, a)) \in {Told(x, k), <<>>}
                                /\ (a = REG_REINIT \/ Mask(x, a) # {} => Told(x, Poked(k, a)) = <<>>)
<1>1. PICK e : e = Poked(k, a) OBVIOUS
<1>2. SeenShape(e) BY <1>1 DEF SeenShape, Poked, SeenFields
<1>3. /\ \A id \in Ids : e.control[id] = IF a \in RegsOf(CONTROLS[id]) \cup {REG_REINIT} THEN <<>> ELSE k.control[id]
      /\ \A i \in Coeffs : e.coeff[i] = IF a \in {MTX_REGS[i+1], MTXS_REG, REG_REINIT} THEN <<>> ELSE k.coeff[i]
      /\ e.center = IF a \in {MTXS_REG, REG_REINIT} THEN <<>> ELSE k.center
  BY <1>1 DEF Poked
<1>4. ASSUME NEW x \in Settings
      PROVE  Told(x, e) \in {Told(x, k), <<>>} /\ (a = REG_REINIT \/ Mask(x, a) # {} => Told(x, e) = <<>>)
  <2>1. ASSUME NEW id \in Ids, x = <<"control", id>>, x[1] = "control", x[2] = id
        PROVE  Told(x, e) \in {Told(x, k), <<>>} /\ (a = REG_REINIT \/ Mask(x, a) # {} => Told(x, e) = <<>>)
    <3>1. Told(x, e) = e.control[id] /\ Told(x, k) = k.control[id] BY <2>1 DEF Told
    <3>2. Mask(x, a) # {} => a \in RegsOf(CONTROLS[id]) BY <2>1, MaskWhere
    <3>3. QED BY <1>3, <3>1, <3>2
  <2>2. ASSUME NEW i \in Coeffs, x = <<"coeff", i>>, x[1] = "coeff", x[2] = i
        PROVE  Told(x, e) \in {Told(x, k), <<>>} /\ (a = REG_REINIT \/ Mask(x, a) # {} => Told(x, e) = <<>>)
    <3>1. Told(x, e) = e.coeff[i] /\ Told(x, k) = k.coeff[i] BY <2>2 DEF Told
    <3>2. Mask(x, a) # {} => a \in {MTX_REGS[i+1], MTXS_REG} BY <2>2, MaskWhere
    <3>3. QED BY <1>3, <3>1, <3>2
  <2>3. CASE x = <<"center", 0>> /\ x[1] = "center"
    <3>1. Told(x, e) = e.center /\ Told(x, k) = k.center BY <2>3 DEF Told
    <3>2. Mask(x, a) # {} => a = MTXS_REG BY <2>3, MaskWhere
    <3>3. QED BY <1>3, <3>1, <3>2
  <2>4. QED BY <2>1, <2>2, <2>3, SettingKinds
<1>5. QED BY <1>1, <1>2, <1>4

\* What an answer tells of the setting that was set.
Said(q) == IF q.route = "coeff" THEN Max({-255, Min({255, q.value})}) ELSE q.value

ToldOf(k, q, v, e) ==
  SeenShape(e) /\ Item(q) \in Settings /\ Told(Item(q), e) = v
  /\ \A x \in Settings : x # Item(q) => Told(x, e) = Told(x, k)

LEMMA SetTold ==
  ASSUME NEW k, SeenShape(k), NEW q, ~ Refused(q), NEW v, NEW e,
         \/ q.route = "control" /\ e = [k EXCEPT !.control[q.id] = v]
         \/ q.route = "coeff" /\ e = [k EXCEPT !.coeff[q.index] = v]
         \/ q.route = "center" /\ e = [k EXCEPT !.center = v]
  PROVE  ToldOf(k, q, v, e)
<1>1. CASE q.route = "control" /\ e = [k EXCEPT !.control[q.id] = v]
  <2>1. PICK i : i = q.id OBVIOUS
  <2>2. i \in Ids BY <1>1, <2>1 DEF Refused, Ids
  <2>3. PICK f : f = [k.control EXCEPT ![i] = v] OBVIOUS
  <2>4. e = [k EXCEPT !.control = f] BY <1>1, <2>1, <2>3
  <2>5. /\ DOMAIN e = SeenFields /\ e.control = f /\ e.coeff = k.coeff /\ e.center = k.center
    BY <2>4 DEF SeenShape, SeenFields
  <2>6. DOMAIN f = Ids /\ f[i] = v /\ \A j \in Ids : j # i => f[j] = k.control[j] BY <2>2, <2>3 DEF SeenShape
  <2>7. SeenShape(e) BY <2>5, <2>6 DEF SeenShape
  <2>8. PICK y : y = Item(q) OBVIOUS
  <2>9. y = <<"control", i>> BY <1>1, <2>1, <2>8 DEF Item
  <2>10. y[1] = "control" /\ y[2] = i BY <2>9
  <2>11. y \in Settings BY <2>2, <2>9 DEF Settings, Ids
  <2>12. Told(y, e) = v BY <2>5, <2>6, <2>10 DEF Told
  <2>13. ASSUME NEW x \in Settings, x # y PROVE Told(x, e) = Told(x, k)
    <3>1. ASSUME NEW j \in Ids, x = <<"control", j>>, x[1] = "control", x[2] = j PROVE Told(x, e) = Told(x, k)
      <4>1. j # i BY <2>9, <2>13, <3>1
      <4>2. Told(x, e) = f[j] /\ Told(x, k) = k.control[j] BY <2>5, <3>1 DEF Told
      <4>3. QED BY <2>6, <4>1, <4>2
    <3>2. CASE x[1] \in {"coeff", "center"} BY <2>5, <3>2 DEF Told
    <3>3. QED BY <3>1, <3>2, SettingKinds
  <2>14. QED BY <2>7, <2>8, <2>11, <2>12, <2>13 DEF ToldOf
<1>2. CASE q.route = "coeff" /\ e = [k EXCEPT !.coeff[q.index] = v]
  <2>1. PICK i : i = q.index OBVIOUS
  <2>2. i \in Coeffs BY <1>2, <2>1 DEF Refused, Coeffs
  <2>3. PICK f : f = [k.coeff EXCEPT ![i] = v] OBVIOUS
  <2>4. e = [k EXCEPT !.coeff = f] BY <1>2, <2>1, <2>3
  <2>5. /\ DOMAIN e = SeenFields /\ e.coeff = f /\ e.control = k.control /\ e.center = k.center
    BY <2>4 DEF SeenShape, SeenFields
  <2>6. DOMAIN f = Coeffs /\ f[i] = v /\ \A j \in Coeffs : j # i => f[j] = k.coeff[j] BY <2>2, <2>3 DEF SeenShape
  <2>7. SeenShape(e) BY <2>5, <2>6 DEF SeenShape
  <2>8. PICK y : y = Item(q) OBVIOUS
  <2>9. y = <<"coeff", i>> BY <1>2, <2>1, <2>8 DEF Item
  <2>10. y[1] = "coeff" /\ y[2] = i BY <2>9
  <2>11. y \in Settings BY <2>2, <2>9, MatrixIs DEF Settings, Coeffs
  <2>12. Told(y, e) = v BY <2>5, <2>6, <2>10 DEF Told
  <2>13. ASSUME NEW x \in Settings, x # y PROVE Told(x, e) = Told(x, k)
    <3>1. ASSUME NEW j \in Coeffs, x = <<"coeff", j>>, x[1] = "coeff", x[2] = j PROVE Told(x, e) = Told(x, k)
      <4>1. j # i BY <2>9, <2>13, <3>1
      <4>2. Told(x, e) = f[j] /\ Told(x, k) = k.coeff[j] BY <2>5, <3>1 DEF Told
      <4>3. QED BY <2>6, <4>1, <4>2
    <3>2. CASE x[1] \in {"control", "center"} BY <2>5, <3>2 DEF Told
    <3>3. QED BY <3>1, <3>2, SettingKinds
  <2>14. QED BY <2>7, <2>8, <2>11, <2>12, <2>13 DEF ToldOf
<1>3. CASE q.route = "center" /\ e = [k EXCEPT !.center = v]
  <2>5. /\ DOMAIN e = SeenFields /\ e.coeff = k.coeff /\ e.control = k.control /\ e.center = v
    BY <1>3 DEF SeenShape, SeenFields
  <2>7. SeenShape(e) BY <2>5 DEF SeenShape
  <2>8. PICK y : y = Item(q) OBVIOUS
  <2>9. y = <<"center", 0>> BY <1>3, <2>8 DEF Item
  <2>10. y[1] = "center" BY <2>9
  <2>11. y \in Settings BY <2>9 DEF Settings
  <2>12. Told(y, e) = v BY <2>5, <2>10 DEF Told
  <2>13. ASSUME NEW x \in Settings, x # y PROVE Told(x, e) = Told(x, k)
    <3>1. x[1] \in {"control", "coeff"} BY <2>9, <2>13, SettingKinds
    <3>2. QED BY <2>5, <3>1 DEF Told
  <2>14. QED BY <2>7, <2>8, <2>11, <2>12, <2>13 DEF ToldOf
<1>4. QED BY <1>1, <1>2, <1>3

\* A request that failed leaves in doubt what it may have changed.
LEMMA DoubtDoubts ==
  ASSUME NEW k, SeenShape(k), NEW q, Typed(q), ~ Refused(q)
  PROVE  Doubts(k, q, Doubt(k, q))
<1>1. PICK e : e = Doubt(k, q) OBVIOUS
<1> SUFFICES Doubts(k, q, e) BY <1>1
<1>2. CASE q.route \in Setters
  <2>1. \/ q.route = "control" /\ e = [k EXCEPT !.control[q.id] = <<>>]
        \/ q.route = "coeff" /\ e = [k EXCEPT !.coeff[q.index] = <<>>]
        \/ q.route = "center" /\ e = [k EXCEPT !.center = <<>>]
    BY <1>1, <1>2 DEF Doubt, Setters
  <2>2. PICK n : n = <<>> OBVIOUS
  <2>3. ToldOf(k, q, n, e) BY <2>1, <2>2, SetTold
  <2>4. \A x \in Settings : Stirs(q, x) => x = Item(q) BY <1>2 DEF Stirs, Setters, Reinits
  <2>5. QED BY <2>2, <2>3, <2>4 DEF ToldOf, Doubts
<1>3. CASE q.route = "raw_post"
  <2>1. e = Poked(k, q.addr) BY <1>1, <1>3 DEF Doubt
  <2>2. PICK a : a = q.addr OBVIOUS
  <2>3. \A x \in Settings : Stirs(q, x) => a = REG_REINIT \/ Mask(x, a) # {}
    BY <1>3, <2>2 DEF Stirs, Setters, Reinits
  <2>4. QED BY <2>1, <2>2, <2>3, PokedDoubts DEF Doubts
<1>4. CASE q.route = "reset_defaults"
  <2>1. PICK a : a = REG_REINIT OBVIOUS
  <2>2. e = Poked(k, a) BY <1>1, <1>4, <2>1 DEF Doubt
  <2>3. QED BY <2>1, <2>2, PokedDoubts DEF Doubts
<1>5. CASE q.route \notin Setters \cup {"raw_post", "reset_defaults"}
  <2>1. e = [k EXCEPT !.cells = <<>>, !.on = <<>>] \/ e = k BY <1>1, <1>5 DEF Doubt, Setters
  <2>2. SeenShape(e) /\ e.control = k.control /\ e.coeff = k.coeff /\ e.center = k.center
    BY <2>1 DEF SeenShape, SeenFields
  <2>3. \A x : ~ Stirs(q, x) BY <1>5 DEF Stirs, Reinits
  <2>4. QED BY <2>2, <2>3 DEF Doubts, Told
<1>6. QED BY <1>2, <1>3, <1>4, <1>5

LEMMA LearnDoubts ==
  ASSUME NEW k, SeenShape(k), NEW q, Typed(q), ~ Refused(q), q.route \notin Setters, NEW twice
  PROVE  Doubts(k, q, Learn(k, q, twice))
<1>1. CASE q.route = "osd_post"
  <2>1. PICK e : e = Learn(k, q, twice) OBVIOUS
  <2>2. PICK x, y : e = [k EXCEPT !.cells = x, !.on = y] BY <1>1, <2>1 DEF Learn
  <2>3. SeenShape(e) /\ e.control = k.control /\ e.coeff = k.coeff /\ e.center = k.center
    BY <2>2 DEF SeenShape, SeenFields
  <2>4. \A s : ~ Stirs(q, s) BY <1>1 DEF Stirs, Reinits, Setters
  <2>5. QED BY <2>1, <2>3, <2>4 DEF Doubts, Told
<1>2. CASE q.route # "osd_post"
  <2>1. Learn(k, q, twice) = Doubt(k, q) BY <1>2 DEF Learn, Setters
  <2>2. QED BY <2>1, DoubtDoubts
<1>3. QED BY <1>1, <1>2

LEMMA LearnTells ==
  ASSUME NEW k, SeenShape(k), NEW q, Typed(q), ~ Refused(q), q.route \in Setters, NEW twice
  PROVE  ToldOf(k, q, <<Said(q)>>, Learn(k, q, twice))
<1>1. PICK e : e = Learn(k, q, twice) OBVIOUS
<1>2. PICK v : v = <<Said(q)>> OBVIOUS
<1>3. \/ q.route = "control" /\ e = [k EXCEPT !.control[q.id] = v]
      \/ q.route = "coeff" /\ e = [k EXCEPT !.coeff[q.index] = v]
      \/ q.route = "center" /\ e = [k EXCEPT !.center = v]
  BY <1>1, <1>2 DEF Learn, Setters, Said
<1>4. ToldOf(k, q, v, e) BY <1>3, SetTold
<1>5. QED BY <1>1, <1>2, <1>4

-----------------------------------------------------------------------------
(* How a setter makes the bits of its setting what it said *)

Goal(at, reg, mask, bits) == [at |-> at, reg |-> reg, mask |-> mask, bits |-> bits]
Set(mask, on) == IF on THEN mask ELSE {}
ControlGoals(c, v) ==
  CASE c.type = "byte"  -> {Goal(1, c.reg, 0..7, v)}
    [] c.type = "bit"   -> {Goal(2, c.reg, c.mask, Set(c.mask, v))}
    [] c.type = "gamma" -> {Goal(8, c.sample_reg, 0..7, gamma_registers[v][c.sample_reg])}
    [] c.type = "pattern" -> {Goal(2, PATTERN_REGS[1], {7}, Set({7}, PATTERN_OPTIONS[v].xsc)),
                              Goal(5, PATTERN_REGS[2], {7}, Set({7}, PATTERN_OPTIONS[v].ysc))}

\* After as many answers as its first field says, a register has these bits.
Goals(q) ==
  CASE q.route = "control" -> ControlGoals(CONTROLS[q.id], q.value)
    [] q.route = "coeff"   -> {Goal(1, MTX_REGS[q.index + 1], 0..7, Magnitude(q.value)),
                               Goal(3, MTXS_REG, {q.index}, Set({q.index}, q.value < 0))}
    [] q.route = "center"  -> {Goal(2, MTXS_REG, MTXS_AUTO_CONTRAST, Set(MTXS_AUTO_CONTRAST, q.value))}

Reached(g, cam) == cam[g.reg] \cap g.mask = g.bits
GoalsMet(q, n, cam) == \A g \in Goals(q) : g.at <= n => Reached(g, cam)

\* An unknown test pattern is refused before anything is written.
NoPattern(q) == /\ q.route = "control" /\ CONTROLS[q.id].type = "pattern"
                /\ q.value \notin DOMAIN PATTERN_OPTIONS

LEMMA GoalIs ==
  ASSUME NEW at, NEW reg, NEW mask, NEW bits, NEW g, g = Goal(at, reg, mask, bits)
  PROVE  g.at = at /\ g.reg = reg /\ g.mask = mask /\ g.bits = bits
BY DEF Goal

LEMMA MaskBits == ASSUME NEW x \in Settings, NEW a PROVE Mask(x, a) \subseteq 0..7
<1>1. ASSUME NEW id \in Ids, x[1] = "control", x[2] = id PROVE Mask(x, a) \subseteq 0..7
  <2>1. PICK c : c = CONTROLS[id] OBVIOUS
  <2>2. c.type = "bit" => c.mask \subseteq 0..7
    <3>1. c.type = "bit" => \E b \in 0..7 : c.mask = {b} BY <2>1, ControlRegs DEF Ids
    <3>2. QED BY <3>1
  <2>3. Mask(x, a) \in {{}, {7}, 0..7} \/ (c.type = "bit" /\ Mask(x, a) = c.mask) BY <1>1, <2>1 DEF Mask
  <2>4. QED BY <2>2, <2>3
<1>2. ASSUME NEW i \in Coeffs, x[1] = "coeff", x[2] = i PROVE Mask(x, a) \subseteq 0..7
  <2>1. i \in 0..5 BY MatrixIs DEF Coeffs
  <2>2. Mask(x, a) \in {{}, {i}, 0..7} BY <1>2 DEF Mask
  <2>3. QED BY <2>1, <2>2
<1>3. x[1] = "center" => Mask(x, a) \subseteq 0..7 BY DEF Mask, MTXS_AUTO_CONTRAST
<1>4. QED BY <1>1, <1>2, <1>3, SettingKinds

\* A request that reached all its goals has set what it said.
LEMMA GoalsTell ==
  ASSUME NEW q, Typed(q), ~ Refused(q), q.route \in Setters, ~ NoPattern(q), NEW cam,
         \A a \in CamRegs : cam[a] \subseteq 0..7, \A g \in Goals(q) : Reached(g, cam)
  PROVE  Near(Item(q), Said(q), Value(Item(q), cam))
<1>1. CASE q.route = "control"
  <2>1. PICK id, v : id = q.id /\ v = q.value OBVIOUS
  <2>2. PICK c : c = CONTROLS[id] OBVIOUS
  <2>3. id \in Ids /\ v \in Values(c) BY <1>1, <2>1, <2>2 DEF Refused, Typed, Ids
  <2>4. PICK x : x = <<"control", id>> OBVIOUS
  <2>5. x[1] = "control" /\ x[2] = id /\ Item(q) = x BY <1>1, <2>1, <2>4 DEF Item
  <2>6. Value(x, cam) = decode_control(c, cam) BY <2>2, <2>5 DEF Value
  <2>7. Said(q) = v BY <1>1, <2>1 DEF Said
  <2>8. \A g \in ControlGoals(c, v) : Reached(g, cam) BY <1>1, <2>1, <2>2 DEF Goals
  <2>9. /\ c.type \in {"byte", "bit", "gamma", "pattern"} /\ (c.type = "gamma" <=> id = "gamma")
        /\ c.type = "gamma" => c.sample_reg = GAM_BASE + GAMMA_SAMPLE_INDEX
        /\ c.type \in {"byte", "bit"} => c.reg \in CamRegs
        /\ c.type = "gamma" => c.sample_reg \in CamRegs
    BY <2>2, <2>3, ControlRegs DEF Ids
  <2>10. Values(c) = CASE c.type = "byte"  -> SUBSET (0..7)
                       [] c.type = "bit"   -> BOOLEAN
                       [] c.type = "gamma" -> Exponents
                       [] OTHER            -> STRING
    BY DEF Values
  <2>11. x = <<"control", "gamma">> <=> c.type = "gamma" BY <2>4, <2>9
  <2>12. SUFFICES Near(x, v, decode_control(c, cam)) BY <2>5, <2>6, <2>7
  <2>13. CASE c.type = "byte"
    <3>1. PICK g : g = Goal(1, c.reg, 0..7, v) OBVIOUS
    <3>2. Reached(g, cam) BY <2>8, <2>13, <3>1 DEF ControlGoals
    <3>3. cam[c.reg] \cap (0..7) = v BY <3>1, <3>2, GoalIs DEF Reached
    <3>4. cam[c.reg] = v BY <2>9, <2>13, <3>3
    <3>5. decode_control(c, cam) = v BY <2>13, <3>4 DEF decode_control
    <3>6. QED BY <2>11, <2>13, <3>5 DEF Near
  <2>14. CASE c.type = "bit"
    <3>1. PICK g : g = Goal(2, c.reg, c.mask, Set(c.mask, v)) OBVIOUS
    <3>2. Reached(g, cam) BY <2>8, <2>14, <3>1 DEF ControlGoals
    <3>3. cam[c.reg] \cap c.mask = Set(c.mask, v) BY <3>1, <3>2, GoalIs DEF Reached
    <3>4. v \in BOOLEAN BY <2>3, <2>10, <2>14
    <3>5. \A b \in c.mask : b \in cam[c.reg] <=> v BY <3>3, <3>4 DEF Set
    <3>6. decode_control(c, cam) = v BY <2>2, <2>3, <2>14, <3>4, <3>5, BitDecoded DEF Ids
    <3>7. QED BY <2>11, <2>14, <3>6 DEF Near
  <2>15. CASE c.type = "gamma"
    <3>1. PICK y : y = gamma_registers[v][c.sample_reg] OBVIOUS
    <3>2. PICK g : g = Goal(8, c.sample_reg, 0..7, y) OBVIOUS
    <3>3. Reached(g, cam) BY <2>8, <2>15, <3>1, <3>2 DEF ControlGoals
    <3>4. cam[c.sample_reg] \cap (0..7) = y BY <3>2, <3>3, GoalIs DEF Reached
    <3>5. cam[c.sample_reg] = y BY <2>9, <2>15, <3>4
    <3>6. decode_control(c, cam) = estimate_gamma(cam) BY <2>15 DEF decode_control
    <3>7. estimate_gamma(cam) = estimate_gamma(gamma_registers[v])
      BY <2>9, <2>15, <3>1, <3>5 DEF estimate_gamma
    <3>8. v \in Exponents BY <2>3, <2>10, <2>15
    <3>9. estimate_gamma(gamma_registers[v]) - v \in 1-SliderStep..SliderStep-1 BY <3>8, CurveAssumption
    <3>10. QED BY <2>11, <2>15, <3>6, <3>7, <3>9 DEF Near
  <2>16. CASE c.type = "pattern"
    <3>1. v \in DOMAIN PATTERN_OPTIONS /\ id = "pattern"
      <4>1. v \in DOMAIN PATTERN_OPTIONS BY <1>1, <2>1, <2>2, <2>16 DEF NoPattern
      <4>2. id = "pattern" BY <2>2, <2>3, <2>16, ControlIs DEF Ids, Ids14
      <4>3. QED BY <4>1, <4>2
    <3>2. PICK g, h : /\ g = Goal(2, PATTERN_REGS[1], {7}, Set({7}, PATTERN_OPTIONS[v].xsc))
                      /\ h = Goal(5, PATTERN_REGS[2], {7}, Set({7}, PATTERN_OPTIONS[v].ysc))
      OBVIOUS
    <3>3. Reached(g, cam) /\ Reached(h, cam) BY <2>8, <2>16, <3>2 DEF ControlGoals
    <3>4. /\ cam[PATTERN_REGS[1]] \cap {7} = Set({7}, PATTERN_OPTIONS[v].xsc)
          /\ cam[PATTERN_REGS[2]] \cap {7} = Set({7}, PATTERN_OPTIONS[v].ysc)
      BY <3>2, <3>3, GoalIs DEF Reached
    <3>5. /\ 7 \in cam[PATTERN_REGS[1]] <=> PATTERN_OPTIONS[v].xsc
          /\ 7 \in cam[PATTERN_REGS[2]] <=> PATTERN_OPTIONS[v].ysc
      BY <3>4 DEF Set
    <3>6. decode_control(c, cam) = v BY <2>2, <3>1, <3>5, PatternDecoded
    <3>7. QED BY <2>11, <2>16, <3>6 DEF Near
  <2>17. QED BY <2>9, <2>13, <2>14, <2>15, <2>16
<1>2. CASE q.route = "coeff"
  <2>1. PICK i, v : i = q.index /\ v = q.value OBVIOUS
  <2>2. i \in 0..5 /\ v \in Int BY <1>2, <2>1, MatrixIs DEF Refused, Typed
  <2>3. PICK x : x = <<"coeff", i>> OBVIOUS
  <2>4. x[1] = "coeff" /\ x[2] = i /\ Item(q) = x BY <1>2, <2>1, <2>3 DEF Item
  <2>5. Value(x, cam) = decode_matrix(cam, i) BY <2>4 DEF Value
  <2>6. Said(q) = Max({-255, Min({255, v})}) BY <1>2, <2>1 DEF Said
  <2>7. PICK g, h, r, m, s :
          /\ r = MTX_REGS[i + 1] /\ m = Magnitude(v) /\ s = Set({i}, v < 0)
          /\ g = Goal(1, r, 0..7, m) /\ h = Goal(3, MTXS_REG, {i}, s)
    OBVIOUS
  <2>8. Reached(g, cam) /\ Reached(h, cam) BY <1>2, <2>1, <2>7 DEF Goals
  <2>16. g.reg = r /\ g.mask = 0..7 /\ g.bits = m BY <2>7, GoalIs
  <2>17. h.reg = MTXS_REG /\ h.mask = {i} /\ h.bits = s BY <2>7, GoalIs
  <2>18. cam[r] \cap (0..7) = m BY <2>8, <2>16 DEF Reached
  <2>19. cam[MTXS_REG] \cap {i} = s BY <2>8, <2>17 DEF Reached
  <2>9. /\ cam[MTX_REGS[i + 1]] \cap (0..7) = Magnitude(v)
        /\ cam[MTXS_REG] \cap {i} = Set({i}, v < 0)
    BY <2>7, <2>18, <2>19
  <2>10. cam[MTX_REGS[i + 1]] \subseteq 0..7 BY <2>2, MatrixRegs
  <2>11. cam[MTX_REGS[i + 1]] = Bits(Min({255, IF v < 0 THEN -v ELSE v})) BY <2>9, <2>10 DEF Magnitude
  <2>12. i \in cam[MTXS_REG] <=> v < 0 BY <2>9 DEF Set
  <2>13. decode_matrix(cam, i) = Max({-255, Min({255, v})}) BY <2>2, <2>11, <2>12, CoeffDecoded
  <2>14. x # <<"control", "gamma">> BY <2>3
  <2>15. QED BY <2>4, <2>5, <2>6, <2>13, <2>14 DEF Near
<1>3. CASE q.route = "center"
  <2>1. PICK v \in BOOLEAN : v = q.value BY <1>3 DEF Typed
  <2>2. PICK x : x = <<"center", 0>> OBVIOUS
  <2>3. x[1] = "center" /\ Item(q) = x BY <1>3, <2>2 DEF Item
  <2>4. Value(x, cam) = (MTXS_AUTO_CONTRAST \subseteq cam[MTXS_REG]) BY <2>3 DEF Value
  <2>5. Said(q) = v BY <1>3, <2>1 DEF Said
  <2>6. PICK g : g = Goal(2, MTXS_REG, {7}, Set({7}, v)) OBVIOUS
  <2>7. Reached(g, cam) BY <1>3, <2>1, <2>6 DEF Goals, MTXS_AUTO_CONTRAST
  <2>8. cam[MTXS_REG] \cap {7} = Set({7}, v) BY <2>6, <2>7, GoalIs DEF Reached
  <2>9. MTXS_AUTO_CONTRAST \subseteq cam[MTXS_REG] <=> v BY <2>8 DEF Set, MTXS_AUTO_CONTRAST
  <2>10. (MTXS_AUTO_CONTRAST \subseteq cam[MTXS_REG]) = v BY <2>9
  <2>11. x # <<"control", "gamma">> BY <2>2
  <2>12. QED BY <2>3, <2>4, <2>5, <2>10, <2>11 DEF Near
<1>4. QED BY <1>1, <1>2, <1>3 DEF Setters

\* Operation k of a setter is careful: it writes the bits that it is to, and no
\* bit of another setting but as the operation before has read it.
Careful(q, got, k, op) ==
  /\ op.fn \in {"read", "write"} /\ op.addr \in CamRegs
  /\ op.fn = "read" => \A g \in Goals(q) : g.at # k
  /\ op.fn = "write" =>
       /\ \A g \in Goals(q) : g.at = k => g.reg = op.addr /\ op.value \cap g.mask = g.bits
       /\ \A g \in Goals(q) : g.at < k => g.reg # op.addr
       /\ \A y \in Settings : y # Item(q) =>
            \A b \in Mask(y, op.addr) :
              k-1 \in Reading(q) /\ ReadFrom(q, k-1) = op.addr /\ (b \in op.value <=> b \in Answer(got, k-1))

CarefulFrom(q, got, at, s) == IsSeq(s) /\ \A i \in 1..Len(s) : Careful(q, got, at + i, s[i])

Proceeds(q, got) ==
  LET op == OpAfter(q, got)
      k == Len(got) + 1
  IN  /\ op.fn = "end" => \A g \in Goals(q) : g.at < k
      /\ op.fn # "end" => Careful(q, got, k, op)

LEMMA CarefulJoin ==
  ASSUME NEW q, NEW got, NEW at \in Nat, NEW a, NEW b, CarefulFrom(q, got, at, a),
         CarefulFrom(q, got, at + Len(a), b)
  PROVE  CarefulFrom(q, got, at, a \o b) /\ Len(a \o b) = Len(a) + Len(b) /\ Len(a) \in Nat /\ Len(b) \in Nat
<1>1. /\ IsSeq(a \o b) /\ Len(a) \in Nat /\ Len(b) \in Nat /\ Len(a \o b) = Len(a) + Len(b)
      /\ \A i \in 1..Len(a) : (a \o b)[i] = a[i]
      /\ \A i \in Len(a)+1..Len(a)+Len(b) : (a \o b)[i] = b[i - Len(a)]
  BY SeqJoin DEF CarefulFrom
<1>2. ASSUME NEW i \in 1..Len(a \o b) PROVE Careful(q, got, at + i, (a \o b)[i])
  <2>1. CASE i \in 1..Len(a) BY <1>1, <2>1 DEF CarefulFrom
  <2>2. CASE i \notin 1..Len(a)
    <3>1. PICK j \in 1..Len(b) : j = i - Len(a) /\ i \in Len(a)+1..Len(a)+Len(b) BY <1>1, <2>2
    <3>2. Careful(q, got, at + Len(a) + j, b[j]) BY <3>1 DEF CarefulFrom
    <3>3. at + Len(a) + j = at + i BY <1>1, <3>1
    <3>4. (a \o b)[i] = b[j] BY <1>1, <3>1
    <3>5. QED BY <3>2, <3>3, <3>4
  <2>3. QED BY <2>1, <2>2
<1>3. QED BY <1>1, <1>2 DEF CarefulFrom

LEMMA CarefulRead ==
  ASSUME NEW q, NEW got, NEW k, NEW a \in CamRegs, \A g \in Goals(q) : g.at # k
  PROVE  Careful(q, got, k, ReadReg(a))
<1>1. PICK op : op = ReadReg(a) OBVIOUS
<1>2. op = [fn |-> "read", addr |-> a, count |-> 1, value |-> 0] BY <1>1 DEF ReadReg, ReadHolding
<1>3. op.fn = "read" /\ op.addr = a BY <1>2
<1>4. QED BY <1>1, <1>3 DEF Careful

\* A write of a whole register, and one of the bits of a mask.
LEMMA CarefulWhole ==
  ASSUME NEW q, Item(q) \in Settings, NEW got, NEW k, NEW a \in CamRegs, NEW v,
         \A b \in 0..7 : \A y \in Settings : b \in Mask(y, a) => y = Item(q),
         \A g \in Goals(q) : g.at = k => g.reg = a /\ v \cap g.mask = g.bits,
         \A g \in Goals(q) : g.at < k => g.reg # a
  PROVE  Careful(q, got, k, WriteSingle(a, v))
<1>1. PICK op : op = WriteSingle(a, v) OBVIOUS
<1>2. op.fn = "write" /\ op.addr = a /\ op.value = v BY <1>1 DEF WriteSingle
<1>3. ASSUME NEW y \in Settings, y # Item(q), NEW b \in Mask(y, a) PROVE FALSE BY <1>3, MaskBits
<1>4. QED BY <1>1, <1>2, <1>3 DEF Careful

LEMMA SetBitsIs ==
  ASSUME NEW cur, NEW mask, NEW on
  PROVE  /\ SetBits(cur, mask, on) \cap mask = Set(mask, on)
         /\ \A b : b \notin mask => (b \in SetBits(cur, mask, on) <=> b \in cur)
BY DEF SetBits, Set

LEMMA CarefulBits ==
  ASSUME NEW q, Item(q) \in Settings, NEW got, NEW k \in Int, NEW a \in CamRegs, NEW mask, NEW on,
         mask = Mask(Item(q), a), k-1 \in Reading(q), ReadFrom(q, k-1) = a,
         \A g \in Goals(q) : g.at = k => g.reg = a /\ g.mask = mask /\ g.bits = Set(mask, on),
         \A g \in Goals(q) : g.at < k => g.reg # a
  PROVE  Careful(q, got, k, WriteSingle(a, SetBits(Answer(got, k-1), mask, on)))
<1>0. PICK v, cur : cur = Answer(got, k-1) /\ v = SetBits(cur, mask, on) OBVIOUS
<1>1. PICK op : op = WriteSingle(a, v) OBVIOUS
<1>2. op.fn = "write" /\ op.addr = a /\ op.value = v BY <1>1 DEF WriteSingle
<1>3. v \cap mask = Set(mask, on) /\ \A b : b \notin mask => (b \in v <=> b \in cur) BY <1>0, SetBitsIs
<1>4. ASSUME NEW y \in Settings, y # Item(q), NEW b \in Mask(y, a) PROVE b \in v <=> b \in cur
  <2>1. b \notin mask BY <1>4, Apart
  <2>2. QED BY <1>3, <2>1
<1>5. QED BY <1>0, <1>1, <1>2, <1>3, <1>4 DEF Careful

LEMMA CarefulModify ==
  ASSUME NEW q, Item(q) \in Settings, NEW got, NEW at \in Nat, NEW a \in CamRegs, NEW mask, NEW on,
         mask = Mask(Item(q), a), at + 1 \in Reading(q), ReadFrom(q, at + 1) = a,
         \A g \in Goals(q) : g.at # at + 1 /\ g.at # at + 3,
         \A g \in Goals(q) : g.at = at + 2 => g.reg = a /\ g.mask = mask /\ g.bits = Set(mask, on),
         \A g \in Goals(q) : g.at < at + 2 => g.reg # a
  PROVE  /\ CarefulFrom(q, got, at, ReadModifyWrite(a, mask, on, got, at + 1))
         /\ Len(ReadModifyWrite(a, mask, on, got, at + 1)) = 3
<1> DEFINE r == ReadReg(a)
           w == WriteSingle(a, SetBits(Answer(got, at + 1), mask, on))
<1>1. ReadModifyWrite(a, mask, on, got, at + 1) = <<r, w, r>> BY DEF ReadModifyWrite
<1>2. Careful(q, got, at + 1, r) /\ Careful(q, got, at + 3, r) BY CarefulRead
<1>3. Careful(q, got, at + 2, w)
  <2>1. PICK k \in Int : k = at + 2 /\ k - 1 = at + 1 OBVIOUS
  <2>2. k - 1 \in Reading(q) /\ ReadFrom(q, k - 1) = a BY <2>1
  <2>3. /\ \A g \in Goals(q) : g.at = k => g.reg = a /\ g.mask = mask /\ g.bits = Set(mask, on)
        /\ \A g \in Goals(q) : g.at < k => g.reg # a
    BY <2>1
  <2>4. Careful(q, got, k, WriteSingle(a, SetBits(Answer(got, k-1), mask, on))) BY <2>2, <2>3, CarefulBits
  <2>5. QED BY <2>1, <2>4
<1> HIDE DEF r, w
<1>4. PICK s : s = <<r, w, r>> OBVIOUS
<1>5. Len(s) = 3 /\ s[1] = r /\ s[2] = w /\ s[3] = r /\ s \in Seq({r, w}) BY <1>4
<1>6. ASSUME NEW i \in 1..Len(s) PROVE Careful(q, got, at + i, s[i])
  <2>1. i = 1 \/ i = 2 \/ i = 3 BY <1>5
  <2>2. QED BY <1>2, <1>3, <1>5, <2>1
<1>7. QED BY <1>1, <1>4, <1>5, <1>6 DEF CarefulFrom, IsSeq

\* A program that is careful and reaches its goals.
LEMMA CarefulProceeds ==
  ASSUME NEW q, NEW got, IsSeq(got), CarefulFrom(q, got, 0, Program(q, got)),
         \A g \in Goals(q) : g.at \in 1..Len(Program(q, got))
  PROVE  Proceeds(q, got)
<1>1. PICK P, op : P = Program(q, got) /\ op = OpAfter(q, got) OBVIOUS
<1>2. op = IF Len(got) < Len(P) THEN P[Len(got) + 1] ELSE End BY <1>1 DEF OpAfter
<1>3. PICK l \in Nat, n \in Nat : l = Len(got) /\ n = Len(P)
  <2>1. PICK S, T : P \in Seq(S) /\ got \in Seq(T) BY <1>1 DEF CarefulFrom, IsSeq
  <2>2. QED BY <2>1
<1>4. CASE l < n
  <2>1. PICK k \in 1..n : k = l + 1 BY <1>3, <1>4
  <2>2. Careful(q, got, 0 + k, P[k]) BY <1>1, <1>3, <2>1 DEF CarefulFrom
  <2>3. 0 + k = k BY <2>1
  <2>4. Careful(q, got, k, op) BY <1>2, <1>3, <1>4, <2>1, <2>2, <2>3
  <2>5. op.fn # "end" BY <2>4 DEF Careful
  <2>6. QED BY <1>1, <1>3, <2>1, <2>4, <2>5 DEF Proceeds
<1>5. CASE ~ (l < n)
  <2>1. op.fn = "end" BY <1>2, <1>3, <1>5 DEF End, Raise
  <2>2. \A g \in Goals(q) : g.at < l + 1 BY <1>1, <1>3, <1>5
  <2>3. QED BY <1>1, <1>3, <2>1, <2>2 DEF Proceeds
<1>6. QED BY <1>4, <1>5

LEMMA MaskIs ==
  /\ \A id \in Ids, a \in CamRegs : a \in RegsOf(CONTROLS[id]) =>
       Mask(<<"control", id>>, a) = IF CONTROLS[id].type = "bit" THEN CONTROLS[id].mask
                                    ELSE IF CONTROLS[id].type = "pattern" THEN {7} ELSE 0..7
  /\ \A i \in 0..5 : Mask(<<"coeff", i>>, MTX_REGS[i + 1]) = 0..7 /\ Mask(<<"coeff", i>>, MTXS_REG) = {i}
  /\ Mask(<<"center", 0>>, MTXS_REG) = MTXS_AUTO_CONTRAST
<1>1. ASSUME NEW id \in Ids, NEW a \in RegsOf(CONTROLS[id])
      PROVE  Mask(<<"control", id>>, a) = IF CONTROLS[id].type = "bit" THEN CONTROLS[id].mask
                                          ELSE IF CONTROLS[id].type = "pattern" THEN {7} ELSE 0..7
  <2>1. PICK x : x = <<"control", id>> OBVIOUS
  <2>2. x[1] = "control" /\ x[2] = id BY <2>1
  <2>3. QED BY <1>1, <2>1, <2>2 DEF Mask
<1>2. ASSUME NEW i \in 0..5
      PROVE  Mask(<<"coeff", i>>, MTX_REGS[i + 1]) = 0..7 /\ Mask(<<"coeff", i>>, MTXS_REG) = {i}
  <2>1. PICK x : x = <<"coeff", i>> OBVIOUS
  <2>2. x[1] = "coeff" /\ x[2] = i BY <2>1
  <2>3. MTX_REGS[i + 1] # MTXS_REG BY MatrixRegs
  <2>4. QED BY <2>1, <2>2, <2>3 DEF Mask
<1>3. Mask(<<"center", 0>>, MTXS_REG) = MTXS_AUTO_CONTRAST
  <2>1. PICK x : x = <<"center", 0>> OBVIOUS
  <2>2. x[1] = "center" BY <2>1
  <2>3. QED BY <2>1, <2>2 DEF Mask
<1>4. QED BY <1>1, <1>2, <1>3

LEMMA WholeOwned ==
  ASSUME NEW x \in Settings, NEW a, Mask(x, a) = 0..7
  PROVE  \A b \in 0..7 : \A y \in Settings : b \in Mask(y, a) => y = x
BY Apart

LEMMA TwoSeq ==
  ASSUME NEW x, NEW y
  PROVE  /\ IsSeq(<<x, y>>) /\ Len(<<x, y>>) = 2 /\ <<x, y>>[1] = x /\ <<x, y>>[2] = y
         /\ IsSeq(<<x>>) /\ Len(<<x>>) = 1 /\ <<x>>[1] = x
<1>1. <<x, y>> \in Seq({x, y}) /\ <<x>> \in Seq({x}) OBVIOUS
<1>2. QED BY <1>1 DEF IsSeq

LEMMA BytePlan ==
  ASSUME NEW q, q.route = "control", Typed(q), ~ Refused(q), CONTROLS[q.id].type = "byte", NEW got, IsSeq(got)
  PROVE  Proceeds(q, got)
<1>1. PICK id, v, c : id = q.id /\ v = q.value /\ c = CONTROLS[id] OBVIOUS
<1>2. id \in Ids /\ v \in Values(c) BY <1>1 DEF Refused, Typed, Ids
<1>3. v \subseteq 0..7 BY <1>1, <1>2 DEF Values
<1>4. PICK a : a = c.reg OBVIOUS
<1>5. RegsOf(c) = {a} /\ a \in CamRegs BY <1>1, <1>2, <1>4, ControlRegs DEF Ids
<1>6. PICK x : x = Item(q) OBVIOUS
<1>7. x = <<"control", id>> BY <1>1, <1>6 DEF Item
<1>8. x \in Settings BY <1>2, <1>7 DEF Settings, Ids
<1>9. Mask(x, a) = 0..7 BY <1>1, <1>2, <1>5, <1>7, MaskIs
<1>10. \A b \in 0..7 : \A y \in Settings : b \in Mask(y, a) => y = x BY <1>8, <1>9, WholeOwned
<1>11. Goals(q) = {Goal(1, a, 0..7, v)} BY <1>1, <1>4 DEF Goals, ControlGoals
<1>12. \A g \in Goals(q) : g.at = 1 /\ g.reg = a /\ g.mask = 0..7 /\ g.bits = v BY <1>11, GoalIs
<1>13. PICK w, r : w = WriteSingle(a, v) /\ r = ReadReg(a) OBVIOUS
<1>14. Program(q, got) = <<w, r>> BY <1>1, <1>4, <1>13 DEF Program, api_control, _apply_control
<1>15. Careful(q, got, 1, w)
  <2>1. \A g \in Goals(q) : g.at = 1 => g.reg = a /\ v \cap g.mask = g.bits BY <1>3, <1>12
  <2>2. \A g \in Goals(q) : g.at < 1 => g.reg # a BY <1>12
  <2>3. QED BY <1>5, <1>6, <1>8, <1>10, <1>13, <2>1, <2>2, CarefulWhole
<1>16. Careful(q, got, 2, r) BY <1>5, <1>12, <1>13, CarefulRead
<1>17. CarefulFrom(q, got, 0, <<w, r>>)
  <2>1. PICK s : s = <<w, r>> OBVIOUS
  <2>2. IsSeq(s) /\ Len(s) = 2 /\ s[1] = w /\ s[2] = r BY <2>1, TwoSeq
  <2>3. \A i \in 1..Len(s) : (i = 1 /\ 0 + i = 1) \/ (i = 2 /\ 0 + i = 2) BY <2>2
  <2>4. QED BY <1>15, <1>16, <2>1, <2>2, <2>3 DEF CarefulFrom
<1>18. \A g \in Goals(q) : g.at \in 1..Len(Program(q, got)) BY <1>12, <1>14, TwoSeq
<1>19. QED BY <1>14, <1>17, <1>18, CarefulProceeds

LEMMA BitPlan ==
  ASSUME NEW q, q.route = "control", Typed(q), ~ Refused(q), CONTROLS[q.id].type = "bit", NEW got, IsSeq(got)
  PROVE  Proceeds(q, got)
<1>1. PICK id, v, c : id = q.id /\ v = q.value /\ c = CONTROLS[id] OBVIOUS
<1>2. id \in Ids BY <1>1 DEF Refused, Ids
<1>4. PICK a, m : a = c.reg /\ m = c.mask OBVIOUS
<1>5. RegsOf(c) = {a} /\ a \in CamRegs BY <1>1, <1>2, <1>4, ControlRegs DEF Ids
<1>6. PICK x : x = Item(q) OBVIOUS
<1>7. x = <<"control", id>> BY <1>1, <1>6 DEF Item
<1>8. x \in Settings BY <1>2, <1>7 DEF Settings, Ids
<1>9. m = Mask(x, a) BY <1>1, <1>2, <1>4, <1>5, <1>7, MaskIs
<1>11. Goals(q) = {Goal(2, a, m, Set(m, v))} BY <1>1, <1>4 DEF Goals, ControlGoals
<1>12. \A g \in Goals(q) : g.at = 2 /\ g.reg = a /\ g.mask = m /\ g.bits = Set(m, v) BY <1>11, GoalIs
<1>13. Reading(q) = {1} BY <1>1 DEF Reading
<1>14. ReadFrom(q, 1) = a BY <1>1, <1>4 DEF ReadFrom
<1>15. PICK s : s = ReadModifyWrite(a, m, v, got, 1) OBVIOUS
<1>16. Program(q, got) = s BY <1>1, <1>4, <1>15 DEF Program, api_control, _apply_control
<1>17. CarefulFrom(q, got, 0, s) /\ Len(s) = 3
  <2>1. PICK z \in Nat : z = 0 /\ z + 1 = 1 OBVIOUS
  <2>2. z + 1 \in Reading(q) /\ ReadFrom(q, z + 1) = a BY <1>13, <1>14, <2>1
  <2>3. /\ \A g \in Goals(q) : g.at # z + 1 /\ g.at # z + 3
        /\ \A g \in Goals(q) : g.at = z + 2 => g.reg = a /\ g.mask = m /\ g.bits = Set(m, v)
        /\ \A g \in Goals(q) : g.at < z + 2 => g.reg # a
    BY <1>12, <2>1
  <2>4. m = Mask(Item(q), a) /\ Item(q) \in Settings BY <1>6, <1>8, <1>9
  <2>5. /\ CarefulFrom(q, got, z, ReadModifyWrite(a, m, v, got, z + 1))
        /\ Len(ReadModifyWrite(a, m, v, got, z + 1)) = 3
    BY <1>5, <2>2, <2>3, <2>4, CarefulModify
  <2>6. QED BY <1>15, <2>1, <2>5
<1>18. \A g \in Goals(q) : g.at \in 1..Len(Program(q, got)) BY <1>12, <1>16, <1>17
<1>19. QED BY <1>16, <1>17, <1>18, CarefulProceeds

LEMMA PatternPlan ==
  ASSUME NEW q, q.route = "control", Typed(q), ~ Refused(q), CONTROLS[q.id].type = "pattern", ~ NoPattern(q),
         NEW got, IsSeq(got)
  PROVE  Proceeds(q, got)
<1>1. PICK id, v, c : id = q.id /\ v = q.value /\ c = CONTROLS[id] OBVIOUS
<1>2. id \in Ids /\ v \in DOMAIN PATTERN_OPTIONS BY <1>1 DEF Refused, Ids, NoPattern
<1>3. PICK a, b, m, u, w : /\ a = PATTERN_REGS[1] /\ b = PATTERN_REGS[2] /\ m = {7}
                           /\ u = PATTERN_OPTIONS[v].xsc /\ w = PATTERN_OPTIONS[v].ysc
  OBVIOUS
<1>4. a # b BY <1>3 DEF PATTERN_REGS
<1>5. RegsOf(c) = {a, b} /\ a \in CamRegs /\ b \in CamRegs BY <1>1, <1>2, <1>3, ControlRegs DEF Ids
<1>6. PICK x : x = Item(q) OBVIOUS
<1>7. x = <<"control", id>> BY <1>1, <1>6 DEF Item
<1>8. x \in Settings BY <1>2, <1>7 DEF Settings, Ids
<1>9. m = Mask(x, a) /\ m = Mask(x, b) BY <1>1, <1>2, <1>3, <1>5, <1>7, MaskIs
<1>10. PICK g1, g2 : g1 = Goal(2, a, m, Set(m, u)) /\ g2 = Goal(5, b, m, Set(m, w)) OBVIOUS
<1>11. Goals(q) = {g1, g2} BY <1>1, <1>3, <1>10 DEF Goals, ControlGoals
<1>12. g1.at = 2 /\ g1.reg = a /\ g1.mask = m /\ g1.bits = Set(m, u) BY <1>10, GoalIs
<1>13. g2.at = 5 /\ g2.reg = b /\ g2.mask = m /\ g2.bits = Set(m, w) BY <1>10, GoalIs
<1>14. Reading(q) = {1, 4} BY <1>1 DEF Reading
<1>15. ReadFrom(q, 1) = a /\ ReadFrom(q, 4) = b BY <1>1, <1>3 DEF ReadFrom
<1>16. PICK s, t : s = ReadModifyWrite(a, m, u, got, 1) /\ t = ReadModifyWrite(b, m, w, got, 4) OBVIOUS
<1>17. Program(q, got) = s \o t BY <1>1, <1>2, <1>3, <1>16 DEF Program, api_control, _apply_control
<1>18. m = Mask(Item(q), a) /\ m = Mask(Item(q), b) /\ Item(q) \in Settings BY <1>6, <1>8, <1>9
<1>19. CarefulFrom(q, got, 0, s) /\ Len(s) = 3
  <2>1. PICK z \in Nat : z = 0 /\ z + 1 = 1 OBVIOUS
  <2>2. z + 1 \in Reading(q) /\ ReadFrom(q, z + 1) = a BY <1>14, <1>15, <2>1
  <2>3. /\ \A g \in Goals(q) : g.at # z + 1 /\ g.at # z + 3
        /\ \A g \in Goals(q) : g.at = z + 2 => g.reg = a /\ g.mask = m /\ g.bits = Set(m, u)
        /\ \A g \in Goals(q) : g.at < z + 2 => g.reg # a
    BY <1>11, <1>12, <1>13, <2>1
  <2>4. a \in CamRegs /\ m = Mask(Item(q), a) /\ Item(q) \in Settings BY <1>5, <1>18
  <2>5. /\ CarefulFrom(q, got, z, ReadModifyWrite(a, m, u, got, z + 1))
        /\ Len(ReadModifyWrite(a, m, u, got, z + 1)) = 3
    BY <2>2, <2>3, <2>4, CarefulModify
  <2>6. QED BY <1>16, <2>1, <2>5
<1>20. CarefulFrom(q, got, 3, t) /\ Len(t) = 3
  <2>1. PICK z \in Nat : z = 3 /\ z + 1 = 4 OBVIOUS
  <2>2. z + 1 \in Reading(q) /\ ReadFrom(q, z + 1) = b BY <1>14, <1>15, <2>1
  <2>3. /\ \A g \in Goals(q) : g.at # z + 1 /\ g.at # z + 3
        /\ \A g \in Goals(q) : g.at = z + 2 => g.reg = b /\ g.mask = m /\ g.bits = Set(m, w)
        /\ \A g \in Goals(q) : g.at < z + 2 => g.reg # b
    BY <1>4, <1>11, <1>12, <1>13, <2>1
  <2>4. b \in CamRegs /\ m = Mask(Item(q), b) /\ Item(q) \in Settings BY <1>5, <1>18
  <2>5. /\ CarefulFrom(q, got, z, ReadModifyWrite(b, m, w, got, z + 1))
        /\ Len(ReadModifyWrite(b, m, w, got, z + 1)) = 3
    BY <2>2, <2>3, <2>4, CarefulModify
  <2>6. QED BY <1>16, <2>1, <2>5
<1>21. CarefulFrom(q, got, 0, s \o t) /\ Len(s \o t) = 6
  <2>1. PICK z \in Nat : z = 0 /\ z + Len(s) = 3 BY <1>19
  <2>2. CarefulFrom(q, got, z, s) /\ CarefulFrom(q, got, z + Len(s), t) BY <1>19, <1>20, <2>1
  <2>3. CarefulFrom(q, got, z, s \o t) /\ Len(s \o t) = Len(s) + Len(t) BY <2>2, CarefulJoin
  <2>4. QED BY <1>19, <1>20, <2>1, <2>3
<1>22. \A g \in Goals(q) : g.at \in 1..6 BY <1>11, <1>12, <1>13
<1>23. QED BY <1>17, <1>21, <1>22, CarefulProceeds

LEMMA TailIs ==
  ASSUME NEW S, NEW s \in Seq(S), Len(s) > 0
  PROVE  Tail(s) \in Seq(S) /\ Len(Tail(s)) = Len(s) - 1 /\ \A i \in 1..Len(s)-1 : Tail(s)[i] = s[i + 1]
OBVIOUS

\* The order in which the registers of the gamma curve are written.
LEMMA GammaOrderIs ==
  LET order == Tail(gamma_register_addrs) \o <<SLOP_REG>>
  IN  /\ IsSeq(order) /\ Len(order) = 16 /\ order[16] = \h7A
      /\ \A i \in 1..15 : order[i] = \h7A + i
<1> DEFINE b == [i \in 1..15 |-> GAM_BASE + i - 1]
           a == <<SLOP_REG>>
<1>1. gamma_register_addrs = a \o b BY DEF gamma_register_addrs, Knees, GAM_BREAKPOINTS
<1>2. a \in Seq(Int) /\ b \in Seq(Int) /\ Len(a) = 1 /\ a[1] = \h7A /\ Len(b) = 15
      /\ \A i \in 1..15 : b[i] = \h7A + i
  BY DEF SLOP_REG, GAM_BASE
<1>3. SLOP_REG = \h7A BY DEF SLOP_REG
<1> HIDE DEF a, b
<1>4. PICK g : g = gamma_register_addrs OBVIOUS
<1>5. g \in Seq(Int) /\ Len(g) = 16 /\ \A i \in 2..16 : g[i] = b[i - 1]
  <2>1. IsSeq(a) /\ IsSeq(b) BY <1>2 DEF IsSeq
  <2>2. /\ Len(a \o b) = Len(a) + Len(b)
        /\ \A i \in Len(a)+1..Len(a)+Len(b) : (a \o b)[i] = b[i - Len(a)]
    BY <2>1, SeqJoin
  <2>3. a \o b \in Seq(Int) BY <1>2, JoinSeq
  <2>4. g \in Seq(Int) /\ g = a \o b BY <1>1, <1>4, <2>3
  <2>5. Len(g) = 16 BY <1>2, <2>2, <2>4
  <2>6. ASSUME NEW i \in 2..16 PROVE g[i] = b[i - 1]
    <3>1. i \in Len(a)+1..Len(a)+Len(b) /\ i - Len(a) = i - 1 BY <1>2
    <3>2. (a \o b)[i] = b[i - Len(a)] BY <2>2, <3>1
    <3>3. QED BY <2>4, <3>1, <3>2
  <2>7. QED BY <2>4, <2>5, <2>6
<1>6. PICK t, s : t = Tail(g) /\ s = <<SLOP_REG>> OBVIOUS
<1>7. t \in Seq(Int) /\ Len(t) = 15 /\ \A i \in 1..15 : t[i] = g[i + 1]
  <2>1. g \in Seq(Int) /\ Len(g) > 0 /\ Len(g) - 1 = 15 BY <1>5
  <2>2. /\ Tail(g) \in Seq(Int) /\ Len(Tail(g)) = Len(g) - 1
        /\ \A i \in 1..Len(g)-1 : Tail(g)[i] = g[i + 1]
    BY <2>1, TailIs
  <2>3. QED BY <1>6, <2>1, <2>2
<1>8. \A i \in 1..15 : t[i] = \h7A + i
  <2>1. SUFFICES ASSUME NEW i \in 1..15 PROVE t[i] = \h7A + i OBVIOUS
  <2>2. i + 1 \in 2..16 /\ (i + 1) - 1 = i OBVIOUS
  <2>3. t[i] = b[i] BY <1>5, <1>7, <2>2
  <2>4. QED BY <1>2, <2>3
<1>9. IsSeq(t) /\ IsSeq(s) /\ Len(s) = 1 /\ s[1] = \h7A
  <2>1. IsSeq(t) BY <1>7 DEF IsSeq
  <2>2. QED BY <1>3, <1>6, <2>1, TwoSeq
<1>10. PICK o : o = t \o s OBVIOUS
<1>11. /\ IsSeq(o) /\ Len(o) = Len(t) + Len(s)
       /\ \A i \in 1..Len(t) : o[i] = t[i]
       /\ \A i \in Len(t)+1..Len(t)+Len(s) : o[i] = s[i - Len(t)]
  <2>1. IsSeq(t) /\ IsSeq(s) BY <1>9
  <2>2. /\ IsSeq(t \o s) /\ Len(t \o s) = Len(t) + Len(s)
        /\ \A i \in 1..Len(t) : (t \o s)[i] = t[i]
        /\ \A i \in Len(t)+1..Len(t)+Len(s) : (t \o s)[i] = s[i - Len(t)]
    BY <2>1, SeqJoin
  <2>3. QED BY <1>10, <2>2
<1>12. /\ Len(o) = 16
       /\ \A i \in 1..15 : o[i] = t[i]
       /\ \A i \in 16..16 : o[i] = s[i - 15]
  <2>1. Len(t) = 15 /\ Len(s) = 1 /\ 15 + 1 = 16 BY <1>7, <1>9
  <2>2. QED BY <1>11, <2>1
<1>13. o[16] = s[1] BY <1>12
<1>14. QED BY <1>4, <1>6, <1>8, <1>9, <1>10, <1>11, <1>12, <1>13

LEMMA CarefulOne ==
  ASSUME NEW q, NEW got, NEW at \in Nat, NEW op, Careful(q, got, at + 1, op)
  PROVE  CarefulFrom(q, got, at, <<op>>) /\ Len(<<op>>) = 1
<1>1. PICK s : s = <<op>> OBVIOUS
<1>2. IsSeq(s) /\ Len(s) = 1 /\ s[1] = op BY <1>1, TwoSeq
<1>3. \A i \in 1..Len(s) : i = 1 BY <1>2
<1>4. QED BY <1>1, <1>2, <1>3 DEF CarefulFrom

LEMMA GammaPlan ==
  ASSUME NEW q, q.route = "control", Typed(q), ~ Refused(q), CONTROLS[q.id].type = "gamma", NEW got, IsSeq(got)
  PROVE  Proceeds(q, got)
<1>1. PICK id, v, c : id = q.id /\ v = q.value /\ c = CONTROLS[id] OBVIOUS
<1>2. id \in Ids /\ v \in Values(c) BY <1>1 DEF Refused, Typed, Ids
<1>3. v \in Exponents BY <1>1, <1>2 DEF Values
<1>4. id = "gamma" /\ c.sample_reg = \h82 /\ c.sample_reg \in CamRegs
  <2>1. id = "gamma" BY <1>1, <1>2, ControlRegs DEF Ids
  <2>2. c.sample_reg = \h82 BY <1>1, <2>1, ControlIs
  <2>3. RegsOf(c) = {c.sample_reg} /\ RegsOf(c) \subseteq CamRegs BY <1>1, <1>2, ControlRegs DEF Ids
  <2>4. QED BY <2>1, <2>2, <2>3
<1>6. PICK x : x = Item(q) OBVIOUS
<1>7. x = <<"control", "gamma">> BY <1>1, <1>4, <1>6 DEF Item
<1>8. x \in Settings BY <1>2, <1>4, <1>7 DEF Settings, Ids
<1>9. PICK s, bits : s = c.sample_reg /\ bits = gamma_registers[v][s] OBVIOUS
<1>10. Goals(q) = {Goal(8, s, 0..7, bits)} BY <1>1, <1>9 DEF Goals, ControlGoals
<1>11. \A g \in Goals(q) : g.at = 8 /\ g.reg = s /\ g.mask = 0..7 /\ g.bits = bits BY <1>10, GoalIs
<1> DEFINE order == Tail(gamma_register_addrs) \o <<SLOP_REG>>
           w(i) == WriteSingle(order[i], gamma_registers[v][order[i]])
           ws == [i \in DOMAIN order |-> w(i)]
           r == ReadReg(s)
<1>12. Program(q, got) = ws \o <<r>> BY <1>1, <1>9 DEF Program, api_control, _apply_control
<1>13. IsSeq(order) /\ Len(order) = 16 /\ order[16] = \h7A /\ \A i \in 1..15 : order[i] = \h7A + i
  BY GammaOrderIs
<1>14. \A i \in 1..16 : order[i] \in Range(gamma_register_addrs) BY <1>13, GammaOrder
<1>15. DOMAIN order = 1..16
  <2>1. PICK S : order \in Seq(S) BY <1>13 DEF IsSeq
  <2> HIDE DEF order
  <2>2. QED BY <1>13, <2>1
<1> HIDE DEF order
<1>16. ASSUME NEW i \in 1..16 PROVE Careful(q, got, i, w(i))
  <2>1. PICK a, u : a = order[i] /\ u = gamma_registers[v][a] OBVIOUS
  <2>2. a \in \h7A..\h89 /\ (i = 8 => a = \h82) /\ (i > 8 => a # \h82)
    <3>1. i = 16 \/ i \in 1..15 OBVIOUS
    <3>2. i \in 1..15 => a = \h7A + i BY <1>13, <2>1
    <3>3. QED BY <1>13, <2>1, <3>1, <3>2
  <2>3. a \in CamRegs BY <1>14, <2>1, CamHas
  <2>4. u \subseteq 0..7 BY <1>3, <1>14, <2>1, GammaFits
  <2>5. \A b \in 0..7 : \A y \in Settings : b \in Mask(y, a) => y = Item(q)
    <3>1. \A b : Owner(a, b) = x BY <1>7, <2>2 DEF Owner
    <3>2. QED BY <1>6, <3>1, OwnerIs
  <2>6. \A g \in Goals(q) : g.at = i => g.reg = a /\ u \cap g.mask = g.bits
    <3>1. i = 8 => a = s /\ u = bits /\ u \cap (0..7) = bits BY <1>4, <1>9, <2>1, <2>2, <2>4
    <3>2. QED BY <1>11, <3>1
  <2>7. \A g \in Goals(q) : g.at < i => g.reg # a
    <3>1. 8 < i => a # s BY <1>4, <1>9, <2>2
    <3>2. QED BY <1>11, <3>1
  <2>8. Item(q) \in Settings BY <1>6, <1>8
  <2>9. Careful(q, got, i, WriteSingle(a, u)) BY <2>3, <2>5, <2>6, <2>7, <2>8, CarefulWhole
  <2>10. QED BY <2>1, <2>9
<1> HIDE DEF w
<1>17. ws = [i \in 1..16 |-> w(i)] BY <1>15
<1>18. ws = [i \in 1..16 |-> ws[i]] /\ \A i \in 1..16 : ws[i] = w(i) BY <1>17
<1> HIDE DEF ws
<1>19. IsSeq(ws) /\ Len(ws) = 16
  <2> DEFINE S == {ws[i] : i \in 1..16}
  <2>1. \A i \in 1..16 : ws[i] \in S OBVIOUS
  <2> HIDE DEF S
  <2>2. ws \in Seq(S) /\ Len(ws) = 16 BY <1>18, <2>1, IsSequence
  <2>3. QED BY <2>2 DEF IsSeq
<1>20. CarefulFrom(q, got, 0, ws)
  <2>1. \A i \in 1..16 : 0 + i = i OBVIOUS
  <2>2. \A i \in 1..16 : Careful(q, got, 0 + i, ws[i]) BY <1>16, <1>18, <2>1
  <2>3. QED BY <1>19, <2>2 DEF CarefulFrom
<1>21. Careful(q, got, 17, r) BY <1>4, <1>9, <1>11, CarefulRead
<1> HIDE DEF r
<1>22. CarefulFrom(q, got, 0, ws \o <<r>>) /\ Len(ws \o <<r>>) = 17
  <2>1. PICK z \in Nat, l \in Nat : z = 0 /\ l = 16 /\ z + Len(ws) = l /\ l + 1 = 17 BY <1>19
  <2>2. PICK t : t = <<r>> OBVIOUS
  <2>3. Careful(q, got, l + 1, r) BY <1>21, <2>1
  <2>4. CarefulFrom(q, got, l, t) /\ Len(t) = 1 BY <2>2, <2>3, CarefulOne
  <2>5. CarefulFrom(q, got, z, ws) /\ CarefulFrom(q, got, z + Len(ws), t) BY <1>20, <2>1, <2>4
  <2>6. CarefulFrom(q, got, z, ws \o t) /\ Len(ws \o t) = Len(ws) + Len(t) BY <2>5, CarefulJoin
  <2>7. QED BY <1>19, <2>1, <2>2, <2>4, <2>6
<1>23. \A g \in Goals(q) : g.at \in 1..17 BY <1>11
<1>24. QED BY <1>12, <1>22, <1>23, CarefulProceeds

LEMMA PayloadPlan ==
  ASSUME NEW q, NEW got, NEW at \in Nat, \A g \in Goals(q) : g.at \in 0..at
  PROVE  CarefulFrom(q, got, at, _matrix_payload) /\ Len(_matrix_payload) = 7
<1>1. PICK f, regs : f = _matrix_payload /\ regs = Append(MTX_REGS, MTXS_REG) OBVIOUS
<1>2. f = [i \in 1..7 |-> ReadReg(regs[i])] BY <1>1 DEF _matrix_payload
<1>3. \A i \in 1..7 : regs[i] \in CamRegs
  <2>1. \A i \in 1..7 : regs[i] = MTXS_REG \/ \E j \in 0..5 : regs[i] = MTX_REGS[j + 1]
    <3>1. SUFFICES ASSUME NEW i \in 1..7 PROVE regs[i] = MTXS_REG \/ \E j \in 0..5 : regs[i] = MTX_REGS[j + 1]
      OBVIOUS
    <3>2. MTX_REGS \in Seq(Int) /\ Len(MTX_REGS) = 6 BY DEF MTX_REGS
    <3>7. IsSeq(MTX_REGS) BY <3>2 DEF IsSeq
    <3>8. /\ \A j \in 1..Len(MTX_REGS) : Append(MTX_REGS, MTXS_REG)[j] = MTX_REGS[j]
          /\ Append(MTX_REGS, MTXS_REG)[Len(MTX_REGS) + 1] = MTXS_REG
      BY <3>7, AppendSeq
    <3>9. (\A j \in 1..6 : regs[j] = MTX_REGS[j]) /\ regs[7] = MTXS_REG BY <1>1, <3>2, <3>8
    <3>3. i = 7 => regs[i] = MTXS_REG BY <3>9
    <3>4. i # 7 => regs[i] = MTX_REGS[i] BY <3>9
    <3>5. i # 7 => i - 1 \in 0..5 /\ (i - 1) + 1 = i OBVIOUS
    <3>6. QED BY <3>3, <3>4, <3>5
  <2>2. QED BY <2>1, MatrixRegs
<1>4. f = [i \in 1..7 |-> f[i]] /\ \A i \in 1..7 : f[i] = ReadReg(regs[i]) BY <1>2
<1>5. IsSeq(f) /\ Len(f) = 7
  <2> DEFINE S == {f[i] : i \in 1..7}
  <2>1. \A i \in 1..7 : f[i] \in S OBVIOUS
  <2> HIDE DEF S
  <2>2. f \in Seq(S) /\ Len(f) = 7 BY <1>4, <2>1, IsSequence
  <2>3. QED BY <2>2 DEF IsSeq
<1>6. ASSUME NEW i \in 1..7 PROVE Careful(q, got, at + i, f[i])
  <2>1. PICK k : k = at + i OBVIOUS
  <2>2. \A g \in Goals(q) : g.at # k BY <2>1
  <2>3. PICK a \in CamRegs : a = regs[i] BY <1>3
  <2>4. Careful(q, got, k, ReadReg(a)) BY <2>2, CarefulRead
  <2>5. QED BY <1>4, <2>1, <2>3, <2>4
<1>7. QED BY <1>1, <1>5, <1>6 DEF CarefulFrom

LEMMA CoeffPlan ==
  ASSUME NEW q, q.route = "coeff", Typed(q), ~ Refused(q), NEW got, IsSeq(got)
  PROVE  Proceeds(q, got)
<1>0. PICK v : v = q.value OBVIOUS
<1>1. PICK i \in 0..5 : i = q.index /\ v = q.value BY <1>0, MatrixIs DEF Refused
<1>2. PICK a, b, m, u : a = MTX_REGS[i + 1] /\ b = MTXS_REG /\ m = Magnitude(v) /\ u = Set({i}, v < 0) OBVIOUS
<1>3. a \in CamRegs /\ b \in CamRegs /\ a # b BY <1>2, MatrixRegs
<1>4. PICK x : x = Item(q) OBVIOUS
<1>5. x = <<"coeff", i>> BY <1>1, <1>4 DEF Item
<1>6. x \in Settings BY <1>5 DEF Settings
<1>7. Mask(x, a) = 0..7 /\ Mask(x, b) = {i} BY <1>2, <1>5, MaskIs
<1>8. PICK g, h : g = Goal(1, a, 0..7, m) /\ h = Goal(3, b, {i}, u) OBVIOUS
<1>9. Goals(q) = {g, h} BY <1>1, <1>2, <1>8 DEF Goals
<1>10. g.at = 1 /\ g.reg = a /\ g.mask = 0..7 /\ g.bits = m BY <1>8, GoalIs
<1>11. h.at = 3 /\ h.reg = b /\ h.mask = {i} /\ h.bits = u BY <1>8, GoalIs
<1>12. Reading(q) = {2} /\ ReadFrom(q, 2) = b BY <1>2 DEF Reading, ReadFrom
<1>13. PICK w, r, s : /\ w = WriteSingle(a, m) /\ r = ReadReg(b)
                      /\ s = WriteSingle(b, SetBits(Answer(got, 2), {i}, v < 0))
  OBVIOUS
<1>14. Program(q, got) = <<w, r, s>> \o _matrix_payload BY <1>1, <1>2, <1>13 DEF Program, api_matrix_coeff
<1>15. Careful(q, got, 1, w)
  <2>1. m \subseteq 0..7 BY <1>2 DEF Magnitude, Bits
  <2>8. m \cap (0..7) = m BY <2>1
  <2>9. m \cap g.mask = g.bits BY <1>10, <2>8
  <2>2. \A f \in Goals(q) : f.at = 1 => f.reg = a /\ m \cap f.mask = f.bits BY <1>9, <1>10, <1>11, <2>9
  <2>3. \A f \in Goals(q) : f.at < 1 => f.reg # a BY <1>9, <1>10, <1>11
  <2>4. \A d \in 0..7 : \A y \in Settings : d \in Mask(y, a) => y = Item(q) BY <1>4, <1>6, <1>7, WholeOwned
  <2>5. a \in CamRegs /\ Item(q) \in Settings BY <1>3, <1>4, <1>6
  <2>6. Careful(q, got, 1, WriteSingle(a, m)) BY <2>2, <2>3, <2>4, <2>5, CarefulWhole
  <2>7. QED BY <1>13, <2>6
<1>16. Careful(q, got, 2, r)
  <2>1. \A f \in Goals(q) : f.at # 2 BY <1>9, <1>10, <1>11
  <2>2. QED BY <1>3, <1>13, <2>1, CarefulRead
<1>17. Careful(q, got, 3, s)
  <2>1. PICK k \in Int : k = 3 /\ k - 1 = 2 OBVIOUS
  <2>2. PICK n, on : n = {i} /\ on = (v < 0) OBVIOUS
  <2>3. u = Set(n, on) BY <1>2, <2>2
  <2>4. n = Mask(Item(q), b) /\ b \in CamRegs /\ Item(q) \in Settings BY <1>3, <1>4, <1>6, <1>7, <2>2
  <2>5. k - 1 \in Reading(q) /\ ReadFrom(q, k - 1) = b BY <1>12, <2>1
  <2>6. \A f \in Goals(q) : f.at = k => f.reg = b /\ f.mask = n /\ f.bits = Set(n, on)
    BY <1>9, <1>10, <1>11, <2>1, <2>2, <2>3
  <2>7. \A f \in Goals(q) : f.at < k => f.reg # b BY <1>3, <1>9, <1>10, <1>11, <2>1
  <2>8. Careful(q, got, k, WriteSingle(b, SetBits(Answer(got, k-1), n, on)))
    BY <2>4, <2>5, <2>6, <2>7, CarefulBits
  <2>9. QED BY <1>13, <2>1, <2>2, <2>8
<1>18. PICK o : o = <<w, r, s>> OBVIOUS
<1>19. IsSeq(o) /\ Len(o) = 3 /\ o[1] = w /\ o[2] = r /\ o[3] = s
  <2>1. o \in Seq({w, r, s}) /\ Len(o) = 3 /\ o[1] = w /\ o[2] = r /\ o[3] = s BY <1>18
  <2>2. QED BY <2>1 DEF IsSeq
<1>20. PICK z \in Nat : z = 0 /\ z + Len(o) = 3 BY <1>19
<1>21. CarefulFrom(q, got, z, o)
  <2>1. \A j \in 1..Len(o) : (j = 1 /\ z + j = 1) \/ (j = 2 /\ z + j = 2) \/ (j = 3 /\ z + j = 3) BY <1>19, <1>20
  <2>2. QED BY <1>15, <1>16, <1>17, <1>19, <2>1 DEF CarefulFrom
<1>22. CarefulFrom(q, got, z + Len(o), _matrix_payload) /\ Len(_matrix_payload) = 7
  <2>1. PICK at \in Nat : at = z + Len(o) /\ at = 3 BY <1>20
  <2>2. \A f \in Goals(q) : f.at \in 0..at BY <1>9, <1>10, <1>11, <2>1
  <2>3. QED BY <2>1, <2>2, PayloadPlan
<1>23. PICK p : p = _matrix_payload OBVIOUS
<1>24. CarefulFrom(q, got, z, o \o p) /\ Len(o \o p) = 10
  <2>1. CarefulFrom(q, got, z, o) /\ CarefulFrom(q, got, z + Len(o), p) BY <1>21, <1>22, <1>23
  <2>2. CarefulFrom(q, got, z, o \o p) /\ Len(o \o p) = Len(o) + Len(p) BY <2>1, CarefulJoin
  <2>3. QED BY <1>19, <1>22, <1>23, <2>2
<1>25. \A f \in Goals(q) : f.at \in 1..10 BY <1>9, <1>10, <1>11
<1>26. Program(q, got) = o \o p BY <1>14, <1>18, <1>23
<1>27. QED BY <1>20, <1>24, <1>25, <1>26, CarefulProceeds

LEMMA CenterPlan ==
  ASSUME NEW q, q.route = "center", Typed(q), ~ Refused(q), NEW got, IsSeq(got)
  PROVE  Proceeds(q, got)
<1>1. PICK v : v = q.value OBVIOUS
<1>2. PICK b, n, u : b = MTXS_REG /\ n = MTXS_AUTO_CONTRAST /\ u = Set(n, v) OBVIOUS
<1>3. b \in CamRegs BY <1>2, MatrixRegs
<1>4. PICK x : x = Item(q) OBVIOUS
<1>5. x = <<"center", 0>> BY <1>1, <1>4 DEF Item
<1>6. x \in Settings BY <1>5 DEF Settings
<1>7. Mask(x, b) = n BY <1>2, <1>5, MaskIs
<1>8. PICK h : h = Goal(2, b, n, u) OBVIOUS
<1>9. Goals(q) = {h} BY <1>1, <1>2, <1>8 DEF Goals
<1>11. h.at = 2 /\ h.reg = b /\ h.mask = n /\ h.bits = u BY <1>8, GoalIs
<1>12. Reading(q) = {1} /\ ReadFrom(q, 1) = b BY <1>2 DEF Reading, ReadFrom
<1>13. PICK r, s : r = ReadReg(b) /\ s = WriteSingle(b, SetBits(Answer(got, 1), n, v)) OBVIOUS
<1>14. Program(q, got) = SubSeq(<<r, s, r>>, 1, 2) \o _matrix_payload
  BY <1>1, <1>2, <1>13 DEF Program, api_matrix_contrast_center, ReadModifyWrite
<1>16. Careful(q, got, 1, r)
  <2>1. \A f \in Goals(q) : f.at # 1 BY <1>9, <1>11
  <2>2. QED BY <1>3, <1>13, <2>1, CarefulRead
<1>17. Careful(q, got, 2, s)
  <2>1. PICK k \in Int : k = 2 /\ k - 1 = 1 OBVIOUS
  <2>4. n = Mask(Item(q), b) /\ b \in CamRegs /\ Item(q) \in Settings BY <1>3, <1>4, <1>6, <1>7
  <2>5. k - 1 \in Reading(q) /\ ReadFrom(q, k - 1) = b BY <1>12, <2>1
  <2>6. \A f \in Goals(q) : f.at = k => f.reg = b /\ f.mask = n /\ f.bits = Set(n, v) BY <1>2, <1>9, <1>11, <2>1
  <2>7. \A f \in Goals(q) : f.at < k => f.reg # b BY <1>9, <1>11, <2>1
  <2>8. Careful(q, got, k, WriteSingle(b, SetBits(Answer(got, k-1), n, v)))
    BY <2>4, <2>5, <2>6, <2>7, CarefulBits
  <2>9. QED BY <1>13, <2>1, <2>8
<1>18. PICK o : o = SubSeq(<<r, s, r>>, 1, 2) OBVIOUS
<1>19. IsSeq(o) /\ Len(o) = 2 /\ o[1] = r /\ o[2] = s
  <2>1. /\ <<r, s, r>> \in Seq({r, s}) /\ Len(<<r, s, r>>) = 3
        /\ <<r, s, r>>[1] = r /\ <<r, s, r>>[2] = s
    OBVIOUS
  <2>2. o \in Seq({r, s}) /\ Len(o) = 2 /\ o[1] = r /\ o[2] = s BY <1>18, <2>1
  <2>3. QED BY <2>2 DEF IsSeq
<1>20. PICK z \in Nat : z = 0 /\ z + Len(o) = 2 BY <1>19
<1>21. CarefulFrom(q, got, z, o)
  <2>1. \A j \in 1..Len(o) : (j = 1 /\ z + j = 1) \/ (j = 2 /\ z + j = 2) BY <1>19, <1>20
  <2>2. QED BY <1>16, <1>17, <1>19, <2>1 DEF CarefulFrom
<1>22. CarefulFrom(q, got, z + Len(o), _matrix_payload) /\ Len(_matrix_payload) = 7
  <2>1. PICK at \in Nat : at = z + Len(o) /\ at = 2 BY <1>20
  <2>2. \A f \in Goals(q) : f.at \in 0..at BY <1>9, <1>11, <2>1
  <2>3. QED BY <2>1, <2>2, PayloadPlan
<1>23. PICK p : p = _matrix_payload OBVIOUS
<1>24. CarefulFrom(q, got, z, o \o p) /\ Len(o \o p) = 9
  <2>1. CarefulFrom(q, got, z, o) /\ CarefulFrom(q, got, z + Len(o), p) BY <1>21, <1>22, <1>23
  <2>2. CarefulFrom(q, got, z, o \o p) /\ Len(o \o p) = Len(o) + Len(p) BY <2>1, CarefulJoin
  <2>3. QED BY <1>19, <1>22, <1>23, <2>2
<1>25. \A f \in Goals(q) : f.at \in 1..9 BY <1>9, <1>11
<1>26. Program(q, got) = o \o p BY <1>14, <1>18, <1>23
<1>27. QED BY <1>20, <1>24, <1>25, <1>26, CarefulProceeds

LEMMA SetterProceeds ==
  ASSUME NEW q, q.route \in Setters, Typed(q), ~ Refused(q), ~ NoPattern(q), NEW got, IsSeq(got)
  PROVE  Proceeds(q, got)
<1>1. CASE q.route = "control"
  <2>1. q.id \in Ids BY <1>1 DEF Refused, Ids
  <2>2. CONTROLS[q.id].type \in {"byte", "bit", "gamma", "pattern"} BY <2>1, ControlRegs DEF Ids
  <2>3. QED BY <1>1, <2>2, BytePlan, BitPlan, GammaPlan, PatternPlan
<1>2. QED BY <1>1, CoeffPlan, CenterPlan DEF Setters

\* An unknown test pattern raises at once.
LEMMA NoPatternRaises ==
  ASSUME NEW q, NoPattern(q), NEW op, op = OpAfter(q, <<>>)
  PROVE  op.fn = "raise"
<1>1. Program(q, <<>>) = <<Raise>>
  BY DEF NoPattern, Program, api_control, _apply_control
<1>2. PICK s : s = <<Raise>> OBVIOUS
<1>3. Len(s) = 1 /\ s[1] = Raise BY <1>2, TwoSeq
<1>4. op = Raise BY <1>1, <1>2, <1>3 DEF OpAfter
<1>5. QED BY <1>4 DEF Raise

-----------------------------------------------------------------------------
(* What an operation does to the settings *)

\* Equal bits of a setting are an equal setting.
LEMMA SameValue ==
  ASSUME NEW x \in Settings, NEW f, NEW g, SameBits(x, f, g)
  PROVE  Value(x, f) = Value(x, g)
<1>1. ASSUME NEW id \in Ids, x = <<"control", id>>, x[1] = "control", x[2] = id PROVE Value(x, f) = Value(x, g)
  <2>1. decode_control(CONTROLS[id], f) = decode_control(CONTROLS[id], g) BY <1>1, ControlSame DEF Ids
  <2>2. QED BY <1>1, <2>1 DEF Value
<1>2. ASSUME NEW i \in Coeffs, x = <<"coeff", i>>, x[1] = "coeff", x[2] = i PROVE Value(x, f) = Value(x, g)
  <2>1. i \in 0..5 BY MatrixIs DEF Coeffs
  <2>2. decode_matrix(f, i) = decode_matrix(g, i) BY <1>2, <2>1, CoeffSame
  <2>3. QED BY <1>2, <2>2 DEF Value
<1>3. CASE x = <<"center", 0>> /\ x[1] = "center"
  <2>1. (MTXS_AUTO_CONTRAST \subseteq f[MTXS_REG]) = (MTXS_AUTO_CONTRAST \subseteq g[MTXS_REG]) BY <1>3, CenterSame
  <2>2. QED BY <1>3, <2>1 DEF Value
<1>4. QED BY <1>1, <1>2, <1>3, SettingKinds

LEMMA StillAgrees ==
  ASSUME NEW x \in Settings, NEW k, NEW e, NEW f, NEW g, Agrees(x, k, f), Told(x, e) \in {Told(x, k), <<>>},
         SameBits(x, f, g)
  PROVE  Agrees(x, e, g)
<1>1. Value(x, f) = Value(x, g) BY SameValue
<1>2. QED BY <1>1 DEF Agrees

LEMMA SameAlways ==
  ASSUME NEW d, Healthy(d), NEW x
  PROVE  SameBits(x, d.cam, d.cam)
BY DEF SameBits, Healthy

\* The operation changes no register of the camera but the one it writes.
Films(d, op, e) ==
  /\ Healthy(e)
  /\ \A a \in CamRegs : e.cam[a] = d.cam[a] \/ (op.fn = "write" /\ op.addr = a /\ e.cam[a] = op.value)
  /\ e.initing => d.initing \/ (op.fn = "write" /\ op.addr = REG_REINIT)

LEMMA ExecuteFilms ==
  ASSUME NEW d, Healthy(d), NEW q, NEW op, Tame(q, op)
  PROVE  /\ Films(d, op, Execute(d, op)[2])
         /\ op.fn = "write" /\ op.addr \in CamRegs => Execute(d, op)[2].cam[op.addr] = op.value
<1>0. PICK e : e = Execute(d, op)[2] OBVIOUS
<1>h. Healthy(e) BY <1>0, ExecuteHealthy
<1>g. SUFFICES Films(d, op, e) /\ (op.fn = "write" /\ op.addr \in CamRegs => e.cam[op.addr] = op.value) BY <1>0
<1>1. CASE op.fn = "write"
  <2>1. PICK a, v : a = op.addr /\ v = op.value OBVIOUS
  <2>2. e = WriteReg(d, a, v) BY <1>0, <1>1, <2>1 DEF Execute
  <2>3. Wrote(d, a, v, e) BY <2>2, WriteFace DEF Healthy
  <2>4. CASE a \in CamRegs
    <3>1. e = [d EXCEPT !.cam[a] = v] BY <2>3, <2>4 DEF Wrote
    <3>2. e.initing = d.initing /\ e.cam[a] = v /\ \A b \in CamRegs : b # a => e.cam[b] = d.cam[b]
      BY <2>4, <3>1 DEF Healthy, BoardFields
    <3>3. \A b \in CamRegs : e.cam[b] = d.cam[b] \/ (op.fn = "write" /\ op.addr = b /\ e.cam[b] = op.value)
      BY <1>1, <2>1, <3>2
    <3>4. QED BY <1>h, <2>1, <3>2, <3>3 DEF Films
  <2>5. CASE a = REG_REINIT /\ a \notin CamRegs
    <3>1. e.cam = d.cam BY <2>3, <2>5 DEF Wrote, Healthy, BoardFields
    <3>2. QED BY <1>1, <1>h, <2>1, <2>5, <3>1 DEF Films
  <2>6. CASE a \in {REG_OSD_CTRL, REG_OSD_ADDR, REG_OSD_DATA} /\ a \notin CamRegs
    <3>1. CASE a = REG_OSD_CTRL
      <4>1. e = OsdControl(d, v) BY <2>3, <3>1 DEF Wrote
      <4>2. e.cam = d.cam /\ e.initing = d.initing BY <4>1 DEF OsdControl, Healthy, BoardFields
      <4>3. QED BY <1>h, <2>1, <2>6, <4>2 DEF Films
    <3>2. CASE a = REG_OSD_ADDR
      <4>1. e = [d EXCEPT !.cursor = v] BY <2>3, <3>2 DEF Wrote
      <4>2. e.cam = d.cam /\ e.initing = d.initing BY <4>1 DEF Healthy, BoardFields
      <4>3. QED BY <1>h, <2>1, <2>6, <4>2 DEF Films
    <3>3. CASE a = REG_OSD_DATA
      <4>1. e = Advance([d EXCEPT !.cells[d.cursor] = v]) BY <2>3, <3>3 DEF Wrote
      <4>2. e.cam = d.cam /\ e.initing = d.initing BY <4>1 DEF Advance, Healthy, BoardFields
      <4>3. QED BY <1>h, <2>1, <2>6, <4>2 DEF Films
    <3>4. QED BY <2>6, <3>1, <3>2, <3>3
  <2>7. CASE a \notin FaceRegs
    <3>1. Face(e) = Face(d) /\ a \notin CamRegs BY <2>3, <2>7 DEF Wrote, FaceRegs
    <3>2. e.cam = d.cam /\ e.initing = d.initing BY <3>1 DEF Face
    <3>3. QED BY <1>h, <2>1, <3>1, <3>2 DEF Films
  <2>8. QED BY <2>4, <2>5, <2>6, <2>7 DEF FaceRegs
<1>2. CASE op.fn # "write"
  <2>1. e = ReadRegs(d, op.addr, op.count)[2] BY <1>0, <1>2 DEF Execute
  <2>2. Face(e) = Face(d) BY <2>1, ReadFace DEF Healthy
  <2>3. e.cam = d.cam /\ e.initing = d.initing BY <2>2 DEF Face
  <2>4. QED BY <1>2, <1>h, <2>3 DEF Films
<1>3. QED BY <1>1, <1>2

LEMMA AfterFilms ==
  ASSUME NEW d, Healthy(d), NEW q, NEW op, Tame(q, op), NEW n \in Nat
  PROVE  Films(d, op, After(d, op, n))
<1>1. PICK f : /\ f[0] = d
               /\ \A i \in Nat : i < n => f[i+1] = Execute(f[i], op)[2]
               /\ After(d, op, n) = f[n]
  BY AfterRuns
<1> DEFINE N == {i \in Nat : i <= n => Films(d, op, f[i])}
<1>2. 0 \in N BY <1>1 DEF Films
<1>3. ASSUME NEW i \in Nat, i \in N PROVE i + 1 \in N
  <2>1. SUFFICES ASSUME i + 1 <= n PROVE Films(d, op, f[i+1]) OBVIOUS
  <2>2. i < n /\ Films(d, op, f[i]) BY <1>3, <2>1
  <2>3. Healthy(f[i]) BY <2>2 DEF Films
  <2>4. Films(f[i], op, f[i+1]) BY <1>1, <2>2, <2>3, ExecuteFilms
  <2>5. QED BY <2>2, <2>4 DEF Films
<1> HIDE DEF N
<1>4. Nat \subseteq N BY <1>2, <1>3, Induction
<1>5. QED BY <1>1, <1>4 DEF N

LEMMA AnswerFilms ==
  ASSUME NEW d, Healthy(d), NEW q, NEW op, Tame(q, op), NEW n \in Nat \ {0}
  PROVE  /\ Films(d, op, Answered(d, op, n)[2])
         /\ op.fn = "write" /\ op.addr \in CamRegs => Answered(d, op, n)[2].cam[op.addr] = op.value
<1>1. CASE op.fn = "wait" BY <1>1 DEF Answered, Films
<1>2. CASE op.fn # "wait"
  <2>1. n - 1 \in Nat OBVIOUS
  <2>2. PICK x : x = After(d, op, n - 1) OBVIOUS
  <2>3. Films(d, op, x) BY <2>1, <2>2, AfterFilms
  <2>h. Healthy(x) BY <2>3 DEF Films
  <2>4. PICK e : e = Execute(x, op)[2] OBVIOUS
  <2>5. Films(x, op, e) /\ (op.fn = "write" /\ op.addr \in CamRegs => e.cam[op.addr] = op.value)
    BY <2>4, <2>h, ExecuteFilms
  <2>6. Answered(d, op, n)[2] = e BY <1>2, <2>2, <2>4 DEF Answered
  <2>7. Films(d, op, e) BY <2>3, <2>5 DEF Films
  <2>8. QED BY <2>5, <2>6, <2>7
<1>3. QED BY <1>1, <1>2

LEMMA TouchesCamera ==
  ASSUME NEW q, Typed(q), ~ Refused(q)
  PROVE  /\ q.route \notin Setters => \A a \in Touches(q) : a \in CamRegs => q.route = "raw_post" /\ a = q.addr
         /\ REG_REINIT \in Touches(q) => Reinits(q)
         /\ REG_REINIT \notin CamRegs
<1>1. /\ {REG_GRAB, REG_STREAM, REG_REINIT, REG_MCU_RESET, REG_BOOT_LEN, REG_BOOT_DATA, REG_OSD_CTRL,
          REG_OSD_ADDR, REG_OSD_DATA} \cap CamRegs = {}
      /\ REG_REINIT \notin {REG_GRAB, REG_STREAM, REG_MCU_RESET, REG_BOOT_LEN, REG_BOOT_DATA, REG_OSD_CTRL,
                            REG_OSD_ADDR, REG_OSD_DATA}
  BY CamLow DEF REG_GRAB, REG_STREAM, REG_REINIT, REG_MCU_RESET, REG_BOOT_LEN, REG_BOOT_DATA, REG_OSD_CTRL,
                REG_OSD_ADDR, REG_OSD_DATA
<1>2. CASE q.route = "control"
  <2>1. q.id \in Ids BY <1>2 DEF Refused, Ids
  <2>2. RegsOf(CONTROLS[q.id]) \subseteq CamRegs BY <2>1, CamHas
  <2>3. Range(gamma_register_addrs) \subseteq CamRegs BY CamHas
  <2>4. Touches(q) \subseteq CamRegs BY <1>2, <2>2, <2>3 DEF Touches
  <2>5. QED BY <1>1, <1>2, <2>4 DEF Setters
<1>3. CASE q.route = "coeff"
  <2>1. q.index \in Coeffs BY <1>3 DEF Refused, Coeffs
  <2>2. MTX_REGS[q.index + 1] \in CamRegs /\ MTXS_REG \in CamRegs BY <2>1, CamHas
  <2>3. Touches(q) = {MTX_REGS[q.index + 1], MTXS_REG} BY <1>3 DEF Touches
  <2>4. Touches(q) \subseteq CamRegs BY <2>2, <2>3
  <2>5. QED BY <1>1, <1>3, <2>4 DEF Setters
<1>4. CASE q.route = "center"
  <2>1. Touches(q) \subseteq CamRegs BY <1>4, CamHas DEF Touches
  <2>2. QED BY <1>1, <1>4, <2>1 DEF Setters
<1>5. CASE q.route = "raw_post"
  <2>1. Touches(q) = {q.addr} BY <1>5 DEF Touches
  <2>2. QED BY <1>1, <1>5, <2>1 DEF Reinits
<1>6. CASE q.route = "reset_defaults"
  <2>1. Touches(q) = {REG_REINIT} BY <1>6 DEF Touches
  <2>2. QED BY <1>1, <1>6, <2>1 DEF Reinits
<1>7. CASE q.route \notin Setters \cup {"raw_post", "reset_defaults"}
  <2>1. Touches(q) \subseteq {REG_GRAB, REG_STREAM, REG_MCU_RESET, REG_BOOT_LEN, REG_BOOT_DATA, REG_OSD_CTRL,
                              REG_OSD_ADDR, REG_OSD_DATA}
    BY <1>7 DEF Touches, Setters
  <2>2. QED BY <1>1, <2>1
<1>8. QED BY <1>2, <1>3, <1>4, <1>5, <1>6, <1>7 DEF Setters

\* A request that sets no setting of its own spares those it does not stir.
LEMMA OthersSpared ==
  ASSUME NEW q, Typed(q), ~ Refused(q), q.route \notin Setters, NEW d, Healthy(d), NEW op, Tame(q, op),
         NEW e, Films(d, op, e), NEW x \in Settings, ~ Stirs(q, x)
  PROVE  SameBits(x, d.cam, e.cam)
<1>1. ASSUME NEW a \in CamRegs, Mask(x, a) # {} PROVE e.cam[a] = d.cam[a]
  <2>1. SUFFICES ASSUME op.fn = "write", op.addr = a PROVE FALSE BY DEF Films
  <2>2. a \in Touches(q) BY <2>1 DEF Tame
  <2>3. q.route = "raw_post" /\ a = q.addr BY <2>2, TouchesCamera
  <2>4. QED BY <1>1, <2>3 DEF Stirs
<1>2. QED BY <1>1 DEF SameBits, Healthy, Films

\* A setter that has read the register it shares spares the other settings.
Current(q, got, cam) == Len(got) \in Reading(q) => Answer(got, Len(got)) = cam[ReadFrom(q, Len(got))]

LEMMA SetterSpares ==
  ASSUME NEW q, NEW d, Healthy(d), NEW got, IsSeq(got), NEW op, Careful(q, got, Len(got) + 1, op),
         Current(q, got, d.cam), NEW e, Films(d, op, e), NEW x \in Settings, x # Item(q)
  PROVE  SameBits(x, d.cam, e.cam)
<1>1. PICK l \in Nat, k \in Int : l = Len(got) /\ k = Len(got) + 1 /\ k - 1 = l
  <2>1. PICK S : got \in Seq(S) BY DEF IsSeq
  <2>2. Len(got) \in Nat BY <2>1
  <2>3. QED BY <2>2
<1>2. ASSUME NEW a \in CamRegs, Mask(x, a) # {}, NEW b \in Mask(x, a) PROVE b \in d.cam[a] <=> b \in e.cam[a]
  <2>1. CASE e.cam[a] = d.cam[a] BY <2>1
  <2>2. CASE e.cam[a] # d.cam[a]
    <3>1. op.fn = "write" /\ op.addr = a /\ e.cam[a] = op.value BY <2>2 DEF Films
    <3>2. \A y \in Settings : y # Item(q) =>
            \A c \in Mask(y, op.addr) :
              k-1 \in Reading(q) /\ ReadFrom(q, k-1) = op.addr /\ (c \in op.value <=> c \in Answer(got, k-1))
      BY <1>1, <3>1 DEF Careful
    <3>3. l \in Reading(q) /\ ReadFrom(q, l) = a /\ (b \in op.value <=> b \in Answer(got, l))
      BY <1>1, <1>2, <3>1, <3>2
    <3>4. Answer(got, l) = d.cam[a] BY <1>1, <3>3 DEF Current
    <3>5. QED BY <3>1, <3>3, <3>4
  <2>3. QED BY <2>1, <2>2
<1>3. QED BY <1>2 DEF SameBits, Healthy, Films

LEMMA GoalShape ==
  ASSUME NEW q, Typed(q), ~ Refused(q), q.route \in Setters, ~ NoPattern(q)
  PROVE  /\ \A g \in Goals(q) : g.at \in Nat \ {0} /\ g.reg \in CamRegs
         /\ Goals(q) # {}
<1>1. CASE q.route = "control"
  <2>1. PICK id, v : id = q.id /\ v = q.value OBVIOUS
  <2>2. PICK c : c = CONTROLS[id] OBVIOUS
  <2>3. id \in Ids BY <1>1, <2>1 DEF Refused, Ids
  <2>4. Goals(q) = ControlGoals(c, v) BY <1>1, <2>1, <2>2 DEF Goals
  <2>5. /\ c.type \in {"byte", "bit", "gamma", "pattern"} /\ RegsOf(c) \subseteq CamRegs
        /\ c.type = "gamma" => RegsOf(c) = {c.sample_reg}
        /\ c.type \in {"byte", "bit"} => RegsOf(c) = {c.reg}
        /\ c.type = "pattern" => RegsOf(c) = {PATTERN_REGS[1], PATTERN_REGS[2]}
    BY <2>2, <2>3, ControlRegs DEF Ids
  <2>6. CASE c.type = "byte"
    <3>1. PICK g : g = Goal(1, c.reg, 0..7, v) OBVIOUS
    <3>2. Goals(q) = {g} BY <2>4, <2>6, <3>1 DEF ControlGoals
    <3>3. g.at = 1 /\ g.reg = c.reg BY <3>1, GoalIs
    <3>4. QED BY <2>5, <2>6, <3>2, <3>3
  <2>7. CASE c.type = "bit"
    <3>1. PICK g : g = Goal(2, c.reg, c.mask, Set(c.mask, v)) OBVIOUS
    <3>2. Goals(q) = {g} BY <2>4, <2>7, <3>1 DEF ControlGoals
    <3>3. g.at = 2 /\ g.reg = c.reg BY <3>1, GoalIs
    <3>4. QED BY <2>5, <2>7, <3>2, <3>3
  <2>8. CASE c.type = "gamma"
    <3>1. PICK g : g = Goal(8, c.sample_reg, 0..7, gamma_registers[v][c.sample_reg]) OBVIOUS
    <3>2. Goals(q) = {g} BY <2>4, <2>8, <3>1 DEF ControlGoals
    <3>3. g.at = 8 /\ g.reg = c.sample_reg BY <3>1, GoalIs
    <3>4. QED BY <2>5, <2>8, <3>2, <3>3
  <2>9. CASE c.type = "pattern"
    <3>1. PICK g, h : /\ g = Goal(2, PATTERN_REGS[1], {7}, Set({7}, PATTERN_OPTIONS[v].xsc))
                      /\ h = Goal(5, PATTERN_REGS[2], {7}, Set({7}, PATTERN_OPTIONS[v].ysc))
      OBVIOUS
    <3>2. Goals(q) = {g, h} BY <2>4, <2>9, <3>1 DEF ControlGoals
    <3>3. g.at = 2 /\ g.reg = PATTERN_REGS[1] /\ h.at = 5 /\ h.reg = PATTERN_REGS[2] BY <3>1, GoalIs
    <3>4. QED BY <2>5, <2>9, <3>2, <3>3
  <2>10. QED BY <2>5, <2>6, <2>7, <2>8, <2>9
<1>2. CASE q.route = "coeff"
  <2>1. PICK i : i = q.index OBVIOUS
  <2>2. i \in 0..5 BY <1>2, <2>1, MatrixIs DEF Refused
  <2>3. PICK g, h : /\ g = Goal(1, MTX_REGS[q.index + 1], 0..7, Magnitude(q.value))
                    /\ h = Goal(3, MTXS_REG, {q.index}, Set({q.index}, q.value < 0))
    OBVIOUS
  <2>4. Goals(q) = {g, h} BY <1>2, <2>3 DEF Goals
  <2>5. g.at = 1 /\ g.reg = MTX_REGS[i + 1] /\ h.at = 3 /\ h.reg = MTXS_REG BY <2>1, <2>3, GoalIs
  <2>6. MTX_REGS[i + 1] \in CamRegs /\ MTXS_REG \in CamRegs BY <2>2, MatrixRegs
  <2>7. QED BY <2>4, <2>5, <2>6
<1>3. CASE q.route = "center"
  <2>1. PICK g : g = Goal(2, MTXS_REG, MTXS_AUTO_CONTRAST, Set(MTXS_AUTO_CONTRAST, q.value)) OBVIOUS
  <2>2. Goals(q) = {g} BY <1>3, <2>1 DEF Goals
  <2>3. g.at = 2 /\ g.reg = MTXS_REG BY <2>1, GoalIs
  <2>4. QED BY <2>2, <2>3, MatrixRegs
<1>4. QED BY <1>1, <1>2, <1>3 DEF Setters

\* One more answer gets the setter to the goals that were due.
LEMMA GoalsNext ==
  ASSUME NEW q, Typed(q), ~ Refused(q), q.route \in Setters, ~ NoPattern(q), NEW d, Healthy(d),
         NEW got, IsSeq(got), NEW op, Careful(q, got, Len(got) + 1, op), GoalsMet(q, Len(got), d.cam),
         NEW e, Films(d, op, e), op.fn = "write" => e.cam[op.addr] = op.value
  PROVE  GoalsMet(q, Len(got) + 1, e.cam)
<1>1. PICK l \in Nat, k \in Nat : l = Len(got) /\ k = l + 1
  <2>1. PICK S : got \in Seq(S) BY DEF IsSeq
  <2>2. Len(got) \in Nat BY <2>1
  <2>3. QED BY <2>2
<1>2. ASSUME NEW g \in Goals(q), g.at <= k PROVE Reached(g, e.cam)
  <2>1. PICK at \in Nat, reg \in CamRegs : at = g.at /\ reg = g.reg BY GoalShape
  <2>2. Careful(q, got, k, op) BY <1>1
  <2>3. CASE at = k
    <3>1. op.fn = "write" BY <2>1, <2>2, <2>3 DEF Careful
    <3>2. reg = op.addr /\ op.value \cap g.mask = g.bits BY <2>1, <2>2, <2>3, <3>1 DEF Careful
    <3>3. QED BY <2>1, <3>1, <3>2 DEF Reached
  <2>4. CASE at # k
    <3>1. at <= l BY <1>1, <1>2, <2>1, <2>4
    <3>2. Reached(g, d.cam) BY <1>1, <2>1, <3>1 DEF GoalsMet
    <3>3. op.fn = "write" => reg # op.addr
      <4>1. at < k BY <1>1, <3>1
      <4>2. QED BY <2>1, <2>2, <4>1 DEF Careful
    <3>4. e.cam[reg] = d.cam[reg] BY <3>3 DEF Films
    <3>5. QED BY <2>1, <3>2, <3>4 DEF Reached
  <2>5. QED BY <2>3, <2>4
<1>3. QED BY <1>1, <1>2 DEF GoalsMet

-----------------------------------------------------------------------------
(* The settings under the requests *)

SettingsKnown(k, d) ==
  /\ SeenShape(k)
  /\ \A x \in Settings : (\A u \in Threads : Drawing(u) => ~ Stirs(thread[u].q, x)) => Agrees(x, k, d.cam)
  /\ d.initing => Unknown(k) \/ \E u \in Threads : Drawing(u) /\ Reinits(thread[u].q)

\* A setter under way has reached the goals that were due, and what it goes on
\* from is what its register holds.
SetsOn(d, q, got) ==
  /\ NoPattern(q) => got = <<>>
  /\ got # <<>> => ~ d.initing
  /\ Current(q, got, d.cam)
  /\ NoPattern(q) \/ GoalsMet(q, Len(got), d.cam)
Setting(t) ==
  LET th == thread[t]
  IN  InBody(t) /\ th.q.route \in Setters =>
        IF "restarted" \in th.odd THEN Unknown(seen) ELSE SetsOn(board, th.q, th.got)

\* The settings page under way has read what the registers hold.
Snapped(k, d, got) ==
  \/ Unknown(k)
  \/ \A i \in 1..Len(got) : needed_registers[i] \in CamRegs => got[i] = <<d.cam[needed_registers[i]]>>
Showing(t) == thread[t].q.route = "settings" /\ (InBody(t) \/ (thread[t].at = "leave" /\ thread[t].res = "ok"))
Browsing(t) == Showing(t) => Snapped(seen, board, thread[t].got)
Unmarked(t) == thread[t].at \in Early => "restarted" \notin thread[t].odd

SettingsInv == SettingsKnown(seen, board) /\ \A t \in Threads : Unmarked(t) /\ Setting(t) /\ Browsing(t)

\* What a request in its body has to itself.
LEMMA OneSets ==
  ASSUME LockInv, CourseInv, NEW t \in Threads, InBody(t), NEW u \in Threads \ {t}
  PROVE  ~ InBody(u) /\ ~ Showing(u)
<1>1. lock = t BY DEF LockInv, Uses, InBody
<1>2. ~ InBody(u) BY <1>1 DEF LockInv, Uses, InBody
<1>3. ~ (thread[u].at = "leave" /\ thread[u].res = "ok" /\ thread[u].q.route = "settings")
  <2>1. Course(u) BY DEF CourseInv
  <2>2. QED BY <1>1, <2>1 DEF Course
<1>4. QED BY <1>2, <1>3 DEF Showing

\* Nothing that matters to the settings happens.
Rests(u) ==
  /\ Drawing(u) => Drawing(u)' /\ thread'[u].q = thread[u].q
  /\ thread'[u].at \in Early => "restarted" \notin thread'[u].odd
  /\ InBody(u)' /\ thread'[u].q.route \in Setters =>
       /\ InBody(u) /\ thread'[u].q = thread[u].q /\ thread'[u].got = thread[u].got
       /\ "restarted" \in thread'[u].odd => "restarted" \in thread[u].odd
       /\ "restarted" \in thread[u].odd => "restarted" \in thread'[u].odd
  /\ Showing(u)' => Showing(u) /\ thread'[u].got = thread[u].got

LEMMA KnownStill ==
  ASSUME SettingsInv, seen' = seen, board'.cam = board.cam, board'.initing => board.initing,
         \A u \in Threads : Drawing(u) => Drawing(u)' /\ thread'[u].q = thread[u].q
  PROVE  SettingsKnown(seen, board)'
<1>1. SettingsKnown(seen, board) BY DEF SettingsInv
<1>2. ASSUME NEW x \in Settings, \A u \in Threads : Drawing(u)' => ~ Stirs(thread'[u].q, x)
      PROVE  Agrees(x, seen', board'.cam)
  <2>1. \A u \in Threads : Drawing(u) => ~ Stirs(thread[u].q, x) BY <1>2
  <2>2. Agrees(x, seen, board.cam) BY <1>1, <2>1 DEF SettingsKnown
  <2>3. QED BY <2>2
<1>3. board'.initing => Unknown(seen') \/ \E u \in Threads : Drawing(u)' /\ Reinits(thread'[u].q)
  BY <1>1 DEF SettingsKnown
<1>4. SeenShape(seen') BY <1>1 DEF SettingsKnown
<1>5. QED BY <1>2, <1>3, <1>4 DEF SettingsKnown

LEMMA OneRests ==
  ASSUME seen' = seen, board'.cam = board.cam, board'.initing => board.initing, NEW u \in Threads, Rests(u),
         Setting(u), Browsing(u)
  PROVE  Unmarked(u)' /\ Setting(u)' /\ Browsing(u)'
<1>1. Unmarked(u)' BY DEF Rests, Unmarked
<1>2. Setting(u)'
  <2>1. SUFFICES ASSUME InBody(u)', thread'[u].q.route \in Setters
                 PROVE  IF "restarted" \in thread'[u].odd THEN Unknown(seen')
                        ELSE SetsOn(board', thread'[u].q, thread'[u].got)
    BY DEF Setting
  <2>2. /\ InBody(u) /\ thread'[u].q = thread[u].q /\ thread'[u].got = thread[u].got
        /\ "restarted" \in thread'[u].odd <=> "restarted" \in thread[u].odd
    BY <2>1 DEF Rests
  <2>3. IF "restarted" \in thread[u].odd THEN Unknown(seen) ELSE SetsOn(board, thread[u].q, thread[u].got)
    BY <2>1, <2>2 DEF Setting
  <2>4. SetsOn(board, thread[u].q, thread[u].got) => SetsOn(board', thread[u].q, thread[u].got) BY DEF SetsOn
  <2>5. QED BY <2>2, <2>3, <2>4
<1>3. Browsing(u)'
  <2>1. SUFFICES ASSUME Showing(u)' PROVE Snapped(seen', board', thread'[u].got) BY DEF Browsing
  <2>2. Snapped(seen, board, thread[u].got) /\ thread'[u].got = thread[u].got BY <2>1 DEF Rests, Browsing
  <2>3. QED BY <2>2 DEF Snapped
<1>4. QED BY <1>1, <1>2, <1>3

LEMMA SettingsStill ==
  ASSUME SettingsInv, seen' = seen, board'.cam = board.cam, board'.initing => board.initing,
         \A u \in Threads : Rests(u)
  PROVE  SettingsInv'
<1>1. \A u \in Threads : Drawing(u) => Drawing(u)' /\ thread'[u].q = thread[u].q BY DEF Rests
<1>2. SettingsKnown(seen, board)' BY <1>1, KnownStill
<1>3. \A u \in Threads : Unmarked(u)' /\ Setting(u)' /\ Browsing(u)' BY OneRests DEF SettingsInv
<1>4. QED BY <1>2, <1>3 DEF SettingsInv

\* Others, while a request is in its body.
LEMMA OthersRest ==
  ASSUME LockInv, CourseInv, SettingsInv, NEW t \in Threads, OthersKept(t), InBody(t), NEW u \in Threads \ {t}
  PROVE  ~ Drawing(u)' /\ Unmarked(u)' /\ Setting(u)' /\ Browsing(u)'
<1>1. ~ InBody(u) /\ ~ Showing(u) BY OneSets
<1>2. thread'[u] = thread[u] /\ Unmarked(u) BY DEF OthersKept, SettingsInv
<1>3. ~ InBody(u)' /\ ~ Showing(u)' /\ Unmarked(u)' BY <1>1, <1>2 DEF InBody, Showing, Unmarked
<1>4. QED BY <1>3 DEF Drawing, Setting, Browsing

LEMMA SettingsEnds ==
  ASSUME LockInv, CourseInv, SettingsInv, NEW t \in Threads, OthersKept(t), InBody(t), ~ InBody(t)',
         thread'[t].at \notin Early, SeenShape(seen'), \A x \in Settings : Agrees(x, seen', board'.cam),
         board'.initing => Unknown(seen'), Browsing(t)'
  PROVE  SettingsInv'
<1>1. SettingsKnown(seen, board)' BY DEF SettingsKnown
<1>2. Unmarked(t)' /\ Setting(t)' BY DEF Unmarked, Setting
<1>3. QED BY <1>1, <1>2, OthersRest DEF SettingsInv

\* What is known while a request is in its body: all but what it stirs.
LEMMA OwnKnown ==
  ASSUME LockInv, CourseInv, SettingsInv, NEW t \in Threads, InBody(t)
  PROVE  /\ SeenShape(seen)
         /\ \A x \in Settings : ~ Stirs(thread[t].q, x) \/ thread[t].got = <<>> => Agrees(x, seen, board.cam)
         /\ board.initing => Unknown(seen) \/ (Reinits(thread[t].q) /\ thread[t].got # <<>>)
<1>1. \A u \in Threads : Drawing(u) => u = t BY OneSets DEF Drawing
<1>2. SettingsKnown(seen, board) BY DEF SettingsInv
<1>3. ASSUME NEW x \in Settings, ~ Stirs(thread[t].q, x) \/ thread[t].got = <<>> PROVE Agrees(x, seen, board.cam)
  <2>1. \A u \in Threads : Drawing(u) => ~ Stirs(thread[u].q, x) BY <1>1, <1>3 DEF Drawing
  <2>2. QED BY <1>2, <2>1 DEF SettingsKnown
<1>4. board.initing => Unknown(seen) \/ (Reinits(thread[t].q) /\ thread[t].got # <<>>)
  <2>1. SUFFICES ASSUME NEW u \in Threads, Drawing(u), Reinits(thread[u].q)
                 PROVE  Reinits(thread[t].q) /\ thread[t].got # <<>>
    BY <1>2 DEF SettingsKnown
  <2>2. u = t BY <1>1, <2>1
  <2>3. QED BY <2>1, <2>2 DEF Drawing
<1>5. SeenShape(seen) BY <1>2 DEF SettingsKnown
<1>6. QED BY <1>3, <1>4, <1>5

\* A setter that goes on has a plan.
LEMMA SetterPlan ==
  ASSUME CourseInv, NEW t \in Threads, InBody(t), thread[t].q.route \in Setters,
         SetsOn(board, thread[t].q, thread[t].got), thread[t].op.fn # "raise"
  PROVE  ~ NoPattern(thread[t].q) /\ Proceeds(thread[t].q, thread[t].got)
<1>1. PICK q, got, op : q = thread[t].q /\ got = thread[t].got /\ op = thread[t].op OBVIOUS
<1>2. Course(t) BY DEF CourseInv
<1>3. Typed(q) /\ ~ Refused(q) /\ Heard(q, got) /\ op = OpAfter(q, got)
  BY <1>1, <1>2 DEF Course, InBody, Busy
<1>4. ~ NoPattern(q)
  <2>1. SUFFICES ASSUME NoPattern(q) PROVE FALSE OBVIOUS
  <2>2. got = <<>> BY <1>1, <2>1 DEF SetsOn
  <2>3. op = OpAfter(q, <<>>) BY <1>3, <2>2
  <2>4. op.fn = "raise" BY <2>1, <2>3, NoPatternRaises
  <2>5. QED BY <1>1, <2>4
<1>5. IsSeq(got) BY <1>3 DEF Heard
<1>6. Proceeds(q, got) BY <1>1, <1>3, <1>4, <1>5, SetterProceeds
<1>7. QED BY <1>1, <1>4, <1>6

LEMMA SetterCareful ==
  ASSUME CourseInv, NEW t \in Threads, InBody(t), thread[t].q.route \in Setters,
         SetsOn(board, thread[t].q, thread[t].got), thread[t].op.fn \notin {"raise", "end"}
  PROVE  ~ NoPattern(thread[t].q)
         /\ Careful(thread[t].q, thread[t].got, Len(thread[t].got) + 1, thread[t].op)
<1>1. ~ NoPattern(thread[t].q) /\ Proceeds(thread[t].q, thread[t].got) BY SetterPlan
<1>2. thread[t].op = OpAfter(thread[t].q, thread[t].got) BY DEF CourseInv, Course, InBody, Busy
<1>3. QED BY <1>1, <1>2 DEF Proceeds

LEMMA OpSpares ==
  ASSUME LockInv, CourseInv, SettingsInv, NEW t \in Threads, InBody(t),
         thread[t].op.fn \notin {"raise", "end"}, NEW e, Films(board, thread[t].op, e),
         NEW x \in Settings, ~ Stirs(thread[t].q, x)
  PROVE  Unknown(seen) \/ SameBits(x, board.cam, e.cam)
<1>1. PICK q, got, op : q = thread[t].q /\ got = thread[t].got /\ op = thread[t].op OBVIOUS
<1>2. Course(t) /\ Healthy(board) BY DEF CourseInv
<1>3. Typed(q) /\ ~ Refused(q) /\ q.route # "state" /\ Heard(q, got) /\ op = OpAfter(q, got)
  BY <1>1, <1>2 DEF Course, InBody, Busy
<1>4. CASE q.route \notin Setters
  <2>1. Tame(q, op) BY <1>1, <1>3, OpTame
  <2>2. QED BY <1>1, <1>2, <1>3, <1>4, <2>1, OthersSpared
<1>5. CASE q.route \in Setters /\ ~ Unknown(seen)
  <2>1. SetsOn(board, q, got)
    <3>1. Setting(t) BY DEF SettingsInv
    <3>2. QED BY <1>1, <1>5, <3>1 DEF Setting
  <2>2. Careful(q, got, Len(got) + 1, op) BY <1>1, <1>5, <2>1, SetterCareful
  <2>3. Current(q, got, board.cam) BY <2>1 DEF SetsOn
  <2>4. x # Item(q) BY <1>1, <1>5 DEF Stirs
  <2>5. IsSeq(got) BY <1>3 DEF Heard
  <2>6. QED BY <1>1, <1>2, <2>2, <2>3, <2>4, <2>5, SetterSpares
<1>6. QED BY <1>4, <1>5

\* After the operation under way, and what an end leaves in doubt.
Outcome(t, e) == e = board \/ (thread[t].op.fn \notin {"raise", "end"} /\ Films(board, thread[t].op, e))

LEMMA OutcomeInits ==
  ASSUME LockInv, CourseInv, SettingsInv, NEW t \in Threads, InBody(t), NEW e, Outcome(t, e), e.initing
  PROVE  Unknown(seen) \/ Reinits(thread[t].q)
<1>1. CASE board.initing BY <1>1, OwnKnown
<1>2. CASE ~ board.initing
  <2>1. PICK q, op : q = thread[t].q /\ op = thread[t].op OBVIOUS
  <2>2. op.fn \notin {"raise", "end"} /\ op.fn = "write" /\ op.addr = REG_REINIT
    BY <1>2, <2>1 DEF Outcome, Films
  <2>3. Typed(q) /\ ~ Refused(q) /\ q.route # "state" /\ Heard(q, thread[t].got) /\ op = OpAfter(q, thread[t].got)
    BY <2>1 DEF CourseInv, Course, InBody, Busy
  <2>4. Tame(q, op) BY <2>2, <2>3, OpTame
  <2>5. REG_REINIT \in Touches(q) BY <2>2, <2>4 DEF Tame
  <2>6. QED BY <2>1, <2>3, <2>5, TouchesCamera
<1>3. QED BY <1>1, <1>2

LEMMA OutcomeSpares ==
  ASSUME LockInv, CourseInv, SettingsInv, NEW t \in Threads, InBody(t), NEW e, Outcome(t, e),
         NEW x \in Settings, ~ Stirs(thread[t].q, x)
  PROVE  Unknown(seen) \/ SameBits(x, board.cam, e.cam)
<1>1. CASE e = board
  <2>1. Healthy(board) BY DEF CourseInv
  <2>2. SameBits(x, board.cam, board.cam) BY <2>1, SameAlways
  <2>3. QED BY <1>1, <2>2
<1>2. CASE e # board BY <1>2, OpSpares DEF Outcome
<1>3. QED BY <1>1, <1>2

LEMMA Doubted ==
  ASSUME LockInv, CourseInv, SettingsInv, NEW t \in Threads, InBody(t), NEW e, Outcome(t, e),
         NEW k, Doubts(seen, thread[t].q, k)
  PROVE  /\ SeenShape(k) /\ \A x \in Settings : Agrees(x, k, e.cam)
         /\ e.initing => Unknown(k)
<1>1. PICK q : q = thread[t].q OBVIOUS
<1>2. SeenShape(k) BY DEF Doubts
<1>3. Unknown(seen) => Unknown(k) BY DEF Unknown, Doubts
<1>4. Reinits(q) => Unknown(k) BY <1>1 DEF Unknown, Doubts, Stirs
<1>5. e.initing => Unknown(k) BY <1>1, <1>3, <1>4, OutcomeInits
<1>6. ASSUME NEW x \in Settings PROVE Agrees(x, k, e.cam)
  <2>1. CASE Told(x, k) = <<>> BY <2>1 DEF Agrees
  <2>2. CASE Told(x, k) # <<>>
    <3>1. ~ Stirs(q, x) /\ Told(x, k) \in {Told(x, seen), <<>>} BY <1>1, <2>2 DEF Doubts
    <3>2. ~ Unknown(seen) BY <1>3, <2>2 DEF Unknown
    <3>3. SameBits(x, board.cam, e.cam) BY <1>1, <3>1, <3>2, OutcomeSpares
    <3>4. Agrees(x, seen, board.cam) BY <1>1, <3>1, OwnKnown
    <3>5. QED BY <3>1, <3>3, <3>4, StillAgrees
  <2>3. QED BY <2>1, <2>2
<1>7. QED BY <1>2, <1>5, <1>6

LEMMA SettingsGivesUp ==
  ASSUME LockInv, CourseInv, SettingsInv, NEW t \in Threads, OthersKept(t), GivesUp(t)
  PROVE  SettingsInv'
<1>1. InBody(t) /\ ~ InBody(t)' /\ thread'[t].res # "ok" /\ thread'[t].at \notin Early /\ Course(t)
  BY DEF GivesUp, InBody, CourseInv, Early
<1>2. Browsing(t)' BY <1>1 DEF Browsing, Showing
<1>3. PICK q : q = thread[t].q OBVIOUS
<1>4. Typed(q) /\ ~ Refused(q) /\ q.route # "state" /\ Heard(q, thread[t].got)
      /\ thread[t].op = OpAfter(q, thread[t].got)
  BY <1>1, <1>3 DEF Course, InBody, Busy
<1>5. CASE Untouched /\ thread[t].q.route = "grab"
  <2>1. (\A x : ~ Stirs(q, x)) /\ ~ Reinits(q) BY <1>3, <1>5 DEF Stirs, Reinits, Setters
  <2>2. SeenShape(seen) /\ (\A x \in Settings : Agrees(x, seen, board.cam)) /\ (board.initing => Unknown(seen))
    BY <1>1, <1>3, <2>1, OwnKnown
  <2>3. SeenShape(seen') /\ (\A x \in Settings : Agrees(x, seen', board'.cam)) /\ (board'.initing => Unknown(seen'))
    BY <1>5, <2>2 DEF Untouched
  <2>4. QED BY <1>1, <1>2, <2>3, SettingsEnds
<1>6. CASE /\ seen' = Doubt(seen, thread[t].q)
           /\ \/ board' = board
              \/ Calling(t) /\ \E n \in Nat : board' = After(board, thread[t].op, n)
  <2>1. PICK k, e : k = seen' /\ e = board' OBVIOUS
  <2>2. SeenShape(seen) BY <1>1, OwnKnown
  <2>3. Doubts(seen, q, k) BY <1>3, <1>4, <1>6, <2>1, <2>2, DoubtDoubts
  <2>4. Outcome(t, e)
    <3>1. SUFFICES ASSUME Calling(t), NEW n \in Nat, e = After(board, thread[t].op, n)
                   PROVE  thread[t].op.fn \notin {"raise", "end"} /\ Films(board, thread[t].op, e)
      BY <1>6, <2>1 DEF Outcome
    <3>2. thread[t].op.fn \notin {"raise", "end"} BY <3>1 DEF Calling
    <3>3. Tame(q, thread[t].op) BY <1>4, <3>2, OpTame
    <3>4. Healthy(board) BY DEF CourseInv
    <3>5. QED BY <3>1, <3>2, <3>3, <3>4, AfterFilms
  <2>5. SeenShape(k) /\ (\A x \in Settings : Agrees(x, k, e.cam)) /\ (e.initing => Unknown(k))
    BY <1>1, <1>3, <2>3, <2>4, Doubted
  <2>6. SeenShape(seen') /\ (\A x \in Settings : Agrees(x, seen', board'.cam)) /\ (board'.initing => Unknown(seen'))
    BY <2>1, <2>5
  <2>7. QED BY <1>1, <1>2, <2>6, SettingsEnds
<1>7. QED BY <1>5, <1>6 DEF GivesUp

\* A setter that is answered has set what it said, and nothing else.
LEMMA SetterAnswered ==
  ASSUME LockInv, CourseInv, SettingsInv, NEW t \in Threads, InBody(t), thread[t].q.route \in Setters,
         SetsOn(board, thread[t].q, thread[t].got), thread[t].op.fn = "end",
         NEW k, ToldOf(seen, thread[t].q, <<Said(thread[t].q)>>, k)
  PROVE  /\ SeenShape(k) /\ \A x \in Settings : Agrees(x, k, board.cam)
         /\ ~ board.initing
<1>1. PICK q, got, op : q = thread[t].q /\ got = thread[t].got /\ op = thread[t].op OBVIOUS
<1>2. Course(t) /\ Healthy(board) BY DEF CourseInv
<1>3. Typed(q) /\ ~ Refused(q) /\ Heard(q, got) /\ op = OpAfter(q, got)
  BY <1>1, <1>2 DEF Course, InBody, Busy
<1>4. ~ NoPattern(q) /\ Proceeds(q, got) BY <1>1, SetterPlan
<1>5. PICK l \in Nat : l = Len(got)
  <2>1. IsSeq(got) BY <1>3 DEF Heard
  <2>2. PICK S : got \in Seq(S) BY <2>1 DEF IsSeq
  <2>3. QED BY <2>2
<1>6. \A g \in Goals(q) : g.at < l + 1 BY <1>1, <1>3, <1>4, <1>5 DEF Proceeds
<1>7. (\A g \in Goals(q) : g.at \in Nat \ {0}) /\ Goals(q) # {} BY <1>1, <1>3, <1>4, GoalShape
<1>8. \A g \in Goals(q) : Reached(g, board.cam)
  <2>1. GoalsMet(q, l, board.cam) BY <1>1, <1>4, <1>5 DEF SetsOn
  <2>2. \A g \in Goals(q) : g.at <= l BY <1>6, <1>7
  <2>3. QED BY <2>1, <2>2 DEF GoalsMet
<1>9. Near(Item(q), Said(q), Value(Item(q), board.cam))
  <2>1. PICK cam : cam = board.cam OBVIOUS
  <2>2. (\A a \in CamRegs : cam[a] \subseteq 0..7) /\ \A g \in Goals(q) : Reached(g, cam)
    BY <1>2, <1>8, <2>1 DEF Healthy
  <2>3. QED BY <1>1, <1>3, <1>4, <2>1, <2>2, GoalsTell
<1>10. ~ board.initing
  <2>1. got # <<>>
    <3>1. SUFFICES ASSUME got = <<>> PROVE FALSE OBVIOUS
    <3>2. l = 0 BY <1>5, <3>1
    <3>3. QED BY <1>6, <1>7, <3>2
  <2>2. QED BY <1>1, <2>1 DEF SetsOn
<1>11. ASSUME NEW x \in Settings PROVE Agrees(x, k, board.cam)
  <2>1. CASE x = Item(q)
    <3>1. PICK v : v = <<Said(q)>> OBVIOUS
    <3>2. Told(x, k) = v /\ v[1] = Said(q) BY <1>1, <2>1, <3>1 DEF ToldOf
    <3>3. QED BY <1>9, <2>1, <3>2 DEF Agrees
  <2>2. CASE x # Item(q)
    <3>1. ~ Stirs(q, x) BY <1>1, <2>2 DEF Stirs, Setters, Reinits
    <3>2. Agrees(x, seen, board.cam) BY <1>1, <3>1, OwnKnown
    <3>3. Told(x, k) = Told(x, seen) BY <1>1, <2>2 DEF ToldOf
    <3>4. QED BY <3>2, <3>3 DEF Agrees
  <2>3. QED BY <2>1, <2>2
<1>12. SeenShape(k) BY DEF ToldOf
<1>13. QED BY <1>10, <1>11, <1>12

LEMMA SettingsSucceeds ==
  ASSUME LockInv, CourseInv, SettingsInv, NEW t \in Threads, OthersKept(t), Succeeds(t)
  PROVE  SettingsInv'
<1>1. /\ InBody(t) /\ ~ InBody(t)' /\ thread'[t].at \notin Early /\ Course(t) /\ board' = board /\ Same(t)
      /\ thread[t].op.fn = "end"
  BY DEF Succeeds, InBody, CourseInv, Early
<1>2. PICK q, got, odd : q = thread[t].q /\ got = thread[t].got /\ odd = thread[t].odd OBVIOUS
<1>3. Typed(q) /\ ~ Refused(q) BY <1>1, <1>2 DEF Course, InBody, Busy
<1>4. PICK k, twice : k = seen' /\ twice = ("twice" \in odd) OBVIOUS
<1>5. k = IF "restarted" \notin odd THEN Learn(seen, q, twice) ELSE Doubt(seen, q)
  BY <1>2, <1>4 DEF Succeeds
<1>6. SeenShape(seen) BY <1>1, OwnKnown
<1>7. SeenShape(k) /\ (\A x \in Settings : Agrees(x, k, board.cam)) /\ (board.initing => Unknown(k))
  <2>1. CASE q.route \in Setters /\ "restarted" \notin odd
    <3>1. k = Learn(seen, q, twice) BY <1>5, <2>1
    <3>2. ToldOf(seen, q, <<Said(q)>>, k) BY <1>3, <1>6, <2>1, <3>1, LearnTells
    <3>3. SetsOn(board, q, got)
      <4>1. Setting(t) BY DEF SettingsInv
      <4>2. QED BY <1>1, <1>2, <2>1, <4>1 DEF Setting
    <3>4. QED BY <1>1, <1>2, <2>1, <3>2, <3>3, SetterAnswered
  <2>2. CASE ~ (q.route \in Setters /\ "restarted" \notin odd)
    <3>1. Doubts(seen, q, k)
      <4>1. CASE "restarted" \in odd BY <1>3, <1>5, <1>6, <4>1, DoubtDoubts
      <4>2. CASE "restarted" \notin odd BY <1>3, <1>5, <1>6, <2>2, <4>2, LearnDoubts
      <4>3. QED BY <4>1, <4>2
    <3>2. Outcome(t, board) BY DEF Outcome
    <3>3. QED BY <1>1, <1>2, <3>1, <3>2, Doubted
  <2>3. QED BY <2>1, <2>2
<1>8. Browsing(t)'
  <2>1. SUFFICES ASSUME Showing(t)' PROVE Snapped(seen', board', thread'[t].got) BY DEF Browsing
  <2>2. q.route = "settings" /\ thread'[t].got = got BY <1>1, <1>2, <2>1 DEF Showing, Same
  <2>3. k = seen BY <1>5, <2>2 DEF Learn, Doubt
  <2>4. Snapped(seen, board, got) BY <1>1, <1>2, <2>2 DEF SettingsInv, Browsing, Showing
  <2>5. QED BY <1>1, <1>4, <2>2, <2>3, <2>4
<1>9. SeenShape(seen') /\ (\A x \in Settings : Agrees(x, seen', board'.cam)) /\ (board'.initing => Unknown(seen'))
  BY <1>1, <1>4, <1>7
<1>10. QED BY <1>1, <1>8, <1>9, SettingsEnds

\* One more answer to a setter.
LEMMA SetterNext ==
  ASSUME NEW q, Typed(q), ~ Refused(q), q.route \in Setters, ~ NoPattern(q), NEW d, Healthy(d),
         NEW got, IsSeq(got), NEW op, op = OpAfter(q, got), op.fn \notin {"raise", "end"},
         Careful(q, got, Len(got) + 1, op), Tame(q, op), Ready(d, op), SetsOn(d, q, got),
         NEW n \in Nat \ {0}
  PROVE  SetsOn(Answered(d, op, n)[2], q, Append(got, Answered(d, op, n)[1]))
<1>1. PICK r, e : r = Answered(d, op, n)[1] /\ e = Answered(d, op, n)[2] OBVIOUS
<1>2. PICK a : a = Append(got, r) OBVIOUS
<1>3. PICK l \in Nat, k \in Nat \ {0} : l = Len(got) /\ k = l + 1 /\ Len(a) = k /\ a[k] = r
  <2>1. Len(got) \in Nat /\ Len(a) = Len(got) + 1 /\ a[Len(got) + 1] = r BY <1>2, AppendSeq
  <2>2. QED BY <2>1
<1>4. IsSeq(a) BY <1>2, AppendSeq
<1>5. Films(d, op, e) /\ (op.fn = "write" /\ op.addr \in CamRegs => e.cam[op.addr] = op.value)
  BY <1>1, AnswerFilms
<1>6. op.addr \in CamRegs BY DEF Careful
<1>7. ~ e.initing
  <2>1. op.addr \in 0..\hC9 BY <1>6, CamLow
  <2>2. op.addr <= CAM_REG_MAX
    <3>1. \A x \in 0..\hC9 : x <= \hC9 OBVIOUS
    <3>2. op.addr <= \hC9 BY <2>1, <3>1
    <3>3. QED BY <3>2 DEF CAM_REG_MAX
  <2>3. ~ d.initing BY <2>2 DEF Ready
  <2>4. op.addr # REG_REINIT BY <1>6, TouchesCamera
  <2>5. QED BY <1>5, <2>3, <2>4 DEF Films
<1>8. GoalsMet(q, k, e.cam)
  <2>1. GoalsMet(q, Len(got), d.cam) BY DEF SetsOn
  <2>2. op.fn = "write" => e.cam[op.addr] = op.value BY <1>5, <1>6
  <2>3. GoalsMet(q, Len(got) + 1, e.cam) BY <1>5, <2>1, <2>2, GoalsNext
  <2>4. QED BY <1>3, <2>3
<1>9. Current(q, a, e.cam)
  <2>1. SUFFICES ASSUME k \in Reading(q) PROVE Answer(a, k) = e.cam[ReadFrom(q, k)] BY <1>3 DEF Current
  <2>2. PICK reg \in CamRegs : reg = ReadFrom(q, k) BY <2>1, ReadFromCam
  <2>3. op = ReadReg(reg) BY <1>3, <2>1, <2>2, ReadsThere
  <2>4. Answered(d, op, n) = <<<<d.cam[reg]>>, d>> BY <2>3, CamRead
  <2>5. r = <<d.cam[reg]>> /\ e = d BY <1>1, <2>4
  <2>6. r[1] = d.cam[reg] BY <2>5
  <2>7. k \in DOMAIN a
    <3>1. PICK S : a \in Seq(S) BY <1>4 DEF IsSeq
    <3>2. DOMAIN a = 1..Len(a) BY <3>1
    <3>3. QED BY <1>3, <3>2
  <2>8. Answer(a, k) = r[1] BY <1>3, <2>7 DEF Answer
  <2>9. QED BY <2>2, <2>5, <2>6, <2>8
<1>10. ~ NoPattern(q) /\ Len(a) = k BY <1>3
<1>11. SetsOn(e, q, a) BY <1>7, <1>8, <1>9, <1>10 DEF SetsOn
<1>12. QED BY <1>1, <1>2, <1>11

\* What the settings page reads.
LEMMA SnapshotOp ==
  ASSUME NEW q, q.route = "settings", NEW got, IsSeq(got)
  PROVE  /\ Len(got) \in Nat /\ Cardinality(NeededRegs) \in Nat
         /\ Len(got) < Cardinality(NeededRegs) =>
              OpAfter(q, got) = ReadReg(needed_registers[Len(got) + 1])
         /\ ~ (Len(got) < Cardinality(NeededRegs)) => OpAfter(q, got) = End
<1>1. PICK c \in Nat : c = Cardinality(NeededRegs) /\ DOMAIN needed_registers = 1..c BY Needed
<1>2. PICK l \in Nat : l = Len(got)
  <2>1. PICK S : got \in Seq(S) BY DEF IsSeq
  <2>2. QED BY <2>1
<1>3. PICK P : P = [i \in 1..c |-> ReadReg(needed_registers[i])] OBVIOUS
<1>4. Len(P) = c
  <2> DEFINE T == {P[i] : i \in 1..c}
  <2>1. P = [i \in 1..c |-> P[i]] /\ \A i \in 1..c : P[i] \in T BY <1>3
  <2> HIDE DEF T
  <2>2. P \in Seq(T) /\ Len(P) = c BY <2>1, IsSequence
  <2>3. QED BY <2>2
<1>5. Program(q, got) = P BY <1>1, <1>3 DEF Program, api_settings, _read_snapshot
<1>6. OpAfter(q, got) = IF l < c THEN P[l + 1] ELSE End BY <1>2, <1>4, <1>5 DEF OpAfter
<1>7. l < c => P[l + 1] = ReadReg(needed_registers[l + 1])
  <2>1. l < c => l + 1 \in 1..c OBVIOUS
  <2>2. QED BY <1>3, <2>1
<1>8. QED BY <1>1, <1>2, <1>6, <1>7

LEMMA SnapshotNext ==
  ASSUME NEW q, q.route = "settings", NEW got, IsSeq(got), NEW d, Healthy(d),
         NEW op, op = OpAfter(q, got), op.fn \notin {"raise", "end"}, NEW n \in Nat \ {0},
         NEW k, Snapped(k, d, got), Films(d, op, Answered(d, op, n)[2])
  PROVE  Snapped(k, Answered(d, op, n)[2], Append(got, Answered(d, op, n)[1]))
<1>1. PICK r, e : r = Answered(d, op, n)[1] /\ e = Answered(d, op, n)[2] OBVIOUS
<1>2. PICK a : a = Append(got, r) OBVIOUS
<1>3. PICK l \in Nat, c \in Nat : l = Len(got) /\ c = Cardinality(NeededRegs) BY SnapshotOp
<1>4. End.fn = "end" BY DEF End, Raise
<1>5. PICK reg : reg = needed_registers[l + 1] OBVIOUS
<1>6. op = ReadReg(reg) BY <1>3, <1>4, <1>5, SnapshotOp
<1>7. op.fn = "read" BY <1>6 DEF ReadReg, ReadHolding
<1>8. \A x \in CamRegs : e.cam[x] = d.cam[x] BY <1>1, <1>7 DEF Films
<1>9. Len(a) = l + 1 /\ a[l + 1] = r /\ \A i \in 1..l : a[i] = got[i] BY <1>2, <1>3, AppendSeq
<1>10. reg \in CamRegs => r = <<d.cam[reg]>>
  <2>1. SUFFICES ASSUME reg \in CamRegs PROVE r = <<d.cam[reg]>> OBVIOUS
  <2>2. Answered(d, op, n) = <<<<d.cam[reg]>>, d>> BY <1>6, <2>1, CamRead
  <2>3. QED BY <1>1, <2>2
<1>11. ASSUME ~ Unknown(k), NEW i \in 1..Len(a), needed_registers[i] \in CamRegs
       PROVE  a[i] = <<e.cam[needed_registers[i]]>>
  <2>1. CASE i = l + 1 BY <1>5, <1>8, <1>9, <1>10, <1>11, <2>1
  <2>2. CASE i # l + 1
    <3>1. i \in 1..l BY <1>9, <1>11, <2>2
    <3>2. got[i] = <<d.cam[needed_registers[i]]>> BY <1>3, <1>11, <3>1 DEF Snapped
    <3>3. QED BY <1>8, <1>9, <1>11, <3>1, <3>2
  <2>3. QED BY <2>1, <2>2
<1>12. Snapped(k, e, a) BY <1>11 DEF Snapped
<1>13. QED BY <1>1, <1>2, <1>12

LEMMA SameRests == ASSUME SettingsInv, NEW u \in Threads, thread'[u] = thread[u] PROVE Rests(u)
<1>1. Unmarked(u) BY DEF SettingsInv
<1>2. Drawing(u)' = Drawing(u) /\ InBody(u)' = InBody(u) /\ Showing(u)' = Showing(u) BY DEF Drawing, InBody, Showing
<1>3. QED BY <1>1, <1>2 DEF Rests, Unmarked

LEMMA SettingsWalks ==
  ASSUME LockInv, CourseInv, SettingsInv, NEW t \in Threads, OthersKept(t), Walks(t)
  PROVE  SettingsInv'
<1>1. Same(t) /\ seen' = seen /\ board' = board BY DEF Walks, Untouched
<1>2. Course(t) BY DEF CourseInv
<1> USE DEF Asks, Locks, Tests, Drops, Opens
<1>3. ~ InBody(t) BY DEF Walks, InBody
<1>4. InBody(t)' => thread'[t].q.route = "connect"
  <2>1. SUFFICES ASSUME InBody(t)' PROVE thread'[t].q.route = "connect" OBVIOUS
  <2>2. thread[t].at = "open" BY <2>1 DEF Walks, InBody
  <2>3. QED BY <1>1, <1>2, <2>2 DEF Course, Same
<1>5. ~ Showing(t)'
  <2>1. SUFFICES ASSUME thread'[t].q.route = "settings", thread'[t].at = "leave", thread'[t].res = "ok" PROVE FALSE
    BY <1>4 DEF Showing
  <2>2. ~ Asks(t) BY <1>1, <1>2, <2>1 DEF Course, Same
  <2>3. CASE Locks(t) \/ Tests(t) \/ Drops(t) \/ Opens(t)
    <3>1. thread[t].res # "ok" BY <1>2, <2>3 DEF Course, Busy, Early
    <3>2. QED BY <2>1, <2>3, <3>1
  <2>4. QED BY <2>2, <2>3 DEF Walks
<1>u. thread'[t].at \in Early => "restarted" \notin thread'[t].odd
  <2>1. thread'[t].at \in Early => thread[t].at \in Early BY DEF Walks, Early
  <2>2. QED BY <1>1, <2>1 DEF SettingsInv, Unmarked, Same
<1>6. Rests(t) BY <1>3, <1>4, <1>5, <1>u DEF Rests, Drawing, Setters
<1>7. \A u \in Threads : Rests(u) BY <1>6, SameRests DEF OthersKept
<1>8. QED BY <1>1, <1>7, SettingsStill

LEMMA SetsFirst ==
  ASSUME NEW d, NEW q, Typed(q), ~ Refused(q), q.route \in Setters
  PROVE  SetsOn(d, q, <<>>)
<1>1. PICK got : got = <<>> /\ Len(got) = 0 OBVIOUS
<1>2. Current(q, got, d.cam)
  <2>1. \A i \in Reading(q) : i \in {1, 2, 4} BY ReadFromCam
  <2>2. QED BY <1>1, <2>1 DEF Current
<1>3. NoPattern(q) \/ GoalsMet(q, Len(got), d.cam)
  <2>1. SUFFICES ASSUME ~ NoPattern(q) PROVE GoalsMet(q, 0, d.cam) BY <1>1
  <2>2. \A g \in Goals(q) : g.at \in Nat \ {0} BY <2>1, GoalShape
  <2>3. \A g \in Goals(q) : ~ (g.at <= 0) BY <2>2
  <2>4. QED BY <2>3 DEF GoalsMet
<1>4. SetsOn(d, q, got) BY <1>1, <1>2, <1>3 DEF SetsOn
<1>5. QED BY <1>1, <1>4

LEMMA SettingsTakes ==
  ASSUME LockInv, CourseInv, SettingsInv, NEW t \in Threads, OthersKept(t), Takes(t)
  PROVE  SettingsInv'
<1>1. seen' = seen /\ board' = board /\ thread[t].at = "require" /\ Same(t) BY DEF Takes, Untouched
<1>2. Course(t) BY DEF CourseInv
<1>3. thread'[t].got = <<>> /\ Typed(thread'[t].q) /\ ~ Refused(thread'[t].q) BY <1>1, <1>2 DEF Same, Course, Early
<1>4. \A u \in Threads : ~ InBody(u)
  <2>1. lock = t /\ ~ InBody(t) BY <1>1 DEF LockInv, Uses, InBody
  <2>2. QED BY <2>1 DEF LockInv, Uses, InBody
<1>5. SettingsKnown(seen, board)' BY <1>1, <1>4, KnownStill DEF Drawing
<1>6. Unmarked(t)' BY DEF Takes, Unmarked, Early
<1>7. Setting(t)'
  <2>1. SUFFICES ASSUME thread'[t].q.route \in Setters
                 PROVE  "restarted" \notin thread'[t].odd /\ SetsOn(board', thread'[t].q, thread'[t].got)
    BY DEF Setting
  <2>2. "restarted" \notin thread[t].odd BY <1>1 DEF SettingsInv, Unmarked, Early
  <2>3. PICK q, d : q = thread'[t].q /\ d = board' OBVIOUS
  <2>4. SetsOn(d, q, <<>>) BY <1>3, <2>1, <2>3, SetsFirst
  <2>5. QED BY <1>1, <1>3, <2>2, <2>3, <2>4 DEF Same
<1>8. Browsing(t)'
  <2>1. PICK got : got = <<>> /\ Len(got) = 0 OBVIOUS
  <2>2. Snapped(seen', board', got) BY <2>1 DEF Snapped
  <2>3. QED BY <1>3, <2>1, <2>2 DEF Browsing
<1>9. ASSUME NEW u \in Threads \ {t} PROVE Unmarked(u)' /\ Setting(u)' /\ Browsing(u)'
  <2>1. thread'[u] = thread[u] BY DEF OthersKept
  <2>2. Rests(u) BY <2>1, SameRests
  <2>3. QED BY <1>1, <2>2, OneRests DEF SettingsInv
<1>10. QED BY <1>5, <1>6, <1>7, <1>8, <1>9 DEF SettingsInv

LEMMA SettingsHears ==
  ASSUME LockInv, CourseInv, SettingsInv, NEW t \in Threads, OthersKept(t),
         NEW n \in 1..Resends+1, Hears(t, n)
  PROVE  SettingsInv'
<1>1. PICK q, got, op, odd, odd2 : /\ q = thread[t].q /\ got = thread[t].got /\ op = thread[t].op
                                   /\ odd = thread[t].odd /\ odd2 = thread'[t].odd
  OBVIOUS
<1>2. PICK r, d, a : r = Answered(board, op, n)[1] /\ d = Answered(board, op, n)[2] /\ a = Append(got, r) OBVIOUS
<1>3. /\ InBody(t) /\ InBody(t)' /\ board' = d /\ seen' = seen /\ thread'[t].at = "body"
      /\ thread'[t].q = q /\ thread'[t].got = a
      /\ n \in Nat \ {0} /\ op.fn \notin {"raise", "end"} /\ Ready(board, op)
      /\ ("restarted" \in odd2 <=> "restarted" \in odd)
  BY <1>1, <1>2 DEF Hears, Calling, InBody
<1>4. Typed(q) /\ ~ Refused(q) /\ q.route # "state" /\ Heard(q, got) /\ op = OpAfter(q, got)
  BY <1>1, <1>3 DEF CourseInv, Course, InBody, Busy
<1>5. Healthy(board) /\ Tame(q, op) /\ IsSeq(got)
  <2>1. Tame(q, op) BY <1>3, <1>4, OpTame
  <2>2. QED BY <1>4, <2>1 DEF CourseInv, Heard
<1>6. Films(board, op, d) BY <1>2, <1>3, <1>5, AnswerFilms
<1>7. Outcome(t, d) BY <1>1, <1>3, <1>6 DEF Outcome
<1>8. Drawing(t)'
  <2>1. Len(a) = Len(got) + 1 /\ Len(got) \in Nat
    <3>1. PICK S : got \in Seq(S) BY <1>5 DEF IsSeq
    <3>2. Len(got) \in Nat BY <3>1
    <3>3. QED BY <1>2, <1>5, <3>2, AppendSeq
  <2>2. a # <<>> BY <2>1
  <2>3. QED BY <1>3, <2>2 DEF Drawing
<1>9. SettingsKnown(seen, board)'
  <2>1. SeenShape(seen') BY <1>3, OwnKnown
  <2>2. ASSUME NEW x \in Settings, \A u \in Threads : Drawing(u)' => ~ Stirs(thread'[u].q, x)
        PROVE  Agrees(x, seen', board'.cam)
    <3>1. ~ Stirs(q, x) BY <1>3, <1>8, <2>2
    <3>2. Agrees(x, seen, board.cam) BY <1>1, <1>3, <3>1, OwnKnown
    <3>3. CASE Unknown(seen) BY <1>3, <3>3 DEF Unknown, Agrees
    <3>4. CASE ~ Unknown(seen)
      <4>1. SameBits(x, board.cam, d.cam) BY <1>1, <1>3, <1>7, <3>1, <3>4, OutcomeSpares
      <4>2. Told(x, seen) \in {Told(x, seen), <<>>} OBVIOUS
      <4>3. Agrees(x, seen, d.cam) BY <3>2, <4>1, <4>2, StillAgrees
      <4>4. QED BY <1>3, <4>3
    <3>5. QED BY <3>3, <3>4
  <2>3. d.initing => Unknown(seen) \/ Reinits(q) BY <1>1, <1>3, <1>7, OutcomeInits
  <2>4. board'.initing => Unknown(seen') \/ \E u \in Threads : Drawing(u)' /\ Reinits(thread'[u].q)
    BY <1>3, <1>8, <2>3
  <2>5. QED BY <2>1, <2>2, <2>4 DEF SettingsKnown
<1>10. Unmarked(t)' BY <1>3 DEF Unmarked, Early
<1>11. Setting(t)'
  <2>1. SUFFICES ASSUME q.route \in Setters
                 PROVE  IF "restarted" \in odd2 THEN Unknown(seen) ELSE SetsOn(d, q, a)
    BY <1>1, <1>3 DEF Setting
  <2>2. IF "restarted" \in odd THEN Unknown(seen) ELSE SetsOn(board, q, got)
    BY <1>1, <1>3, <2>1 DEF SettingsInv, Setting
  <2>3. CASE "restarted" \notin odd
    <3>1. SetsOn(board, q, got) BY <2>2, <2>3
    <3>2. ~ NoPattern(q) /\ Careful(q, got, Len(got) + 1, op) BY <1>1, <1>3, <2>1, <3>1, SetterCareful
    <3>3. SetsOn(d, q, a) BY <1>2, <1>3, <1>4, <1>5, <2>1, <3>1, <3>2, SetterNext
    <3>4. QED BY <1>3, <2>3, <3>3
  <2>4. QED BY <1>3, <2>2, <2>3
<1>12. Browsing(t)'
  <2>1. SUFFICES ASSUME q.route = "settings" PROVE Snapped(seen, d, a) BY <1>3 DEF Browsing, Showing
  <2>2. Snapped(seen, board, got) BY <1>1, <1>3, <2>1 DEF SettingsInv, Browsing, Showing
  <2>3. Films(board, op, Answered(board, op, n)[2]) BY <1>2, <1>6
  <2>4. PICK k : k = seen OBVIOUS
  <2>5. Snapped(k, board, got) BY <2>2, <2>4
  <2>6. Snapped(k, Answered(board, op, n)[2], Append(got, Answered(board, op, n)[1]))
    BY <1>3, <1>4, <1>5, <2>1, <2>3, <2>5, SnapshotNext
  <2>7. QED BY <1>2, <2>4, <2>6
<1>13. QED BY <1>3, <1>9, <1>10, <1>11, <1>12, OthersRest DEF SettingsInv

LEMMA SettingsTurn ==
  ASSUME LockInv, CourseInv, SettingsInv, NEW t \in Threads, Step(t)
  PROVE  SettingsInv'
<1>1. /\ OthersKept(t)
      /\ \/ Walks(t) \/ Takes(t) \/ GivesUp(t) \/ LooksOn(t) \/ Succeeds(t) \/ Goes(t)
         \/ \E n \in 1..Resends+1 : Hears(t, n)
  BY Turns DEF LockInv
<1>2. ASSUME Untouched, Rests(t) PROVE SettingsInv'
  <2>1. seen' = seen /\ board' = board BY <1>2 DEF Untouched
  <2>2. \A u \in Threads : Rests(u) BY <1>1, <1>2, SameRests DEF OthersKept
  <2>3. QED BY <2>1, <2>2, SettingsStill
<1>3. CASE LooksOn(t)
  <2>1. InBody(t) /\ InBody(t)' /\ Same(t) /\ Untouched /\ thread'[t].at = "fetch" BY <1>3 DEF LooksOn, InBody
  <2>2. Rests(t) BY <2>1 DEF Rests, Same, Drawing, Showing, Early
  <2>3. QED BY <1>2, <2>1, <2>2
<1>4. CASE Goes(t)
  <2>1. thread'[t].at = "idle" /\ thread[t].at = "leave" /\ Untouched BY <1>4 DEF Goes, Idle
  <2>2. Rests(t) BY <2>1 DEF Rests, Drawing, InBody, Showing, Early
  <2>3. QED BY <1>2, <2>1, <2>2
<1>5. QED BY <1>1, <1>3, <1>4, SettingsWalks, SettingsTakes, SettingsGivesUp, SettingsSucceeds, SettingsHears

\* Without its power the board forgets, and so does what is known of it.
LEMMA SettingsUnplugged ==
  ASSUME LockInv, CourseInv, SettingsInv, Unplug
  PROVE  SettingsInv'
<1>1. ThreadRecords /\ seen' = NotKnown BY DEF LockInv, Unplug
<1>2. PICK k : k = seen' OBVIOUS
<1>3. SeenShape(k) /\ Unknown(k)
  <2>1. k = NotKnown BY <1>1, <1>2
  <2>2. SeenShape(k) BY <2>1 DEF SeenShape, NotKnown, SeenFields
  <2>3. /\ \A id \in Ids : k.control[id] = <<>>
        /\ \A i \in Coeffs : k.coeff[i] = <<>>
        /\ k.center = <<>>
    BY <2>1 DEF NotKnown
  <2>4. QED BY <2>2, <2>3, SettingKinds DEF Unknown, Told
<1>4. SettingsKnown(seen, board)' BY <1>2, <1>3 DEF SettingsKnown, Unknown, Agrees
<1>5. ASSUME NEW t \in Threads PROVE Unmarked(t)' /\ Setting(t)' /\ Browsing(t)'
  <2>1. thread'[t].at = thread[t].at BY <1>1, UnplugMarks, MarkedFields
  <2>2. Unmarked(t)'
    <3>1. SUFFICES ASSUME thread[t].at \in Early PROVE "restarted" \notin thread'[t].odd BY <2>1 DEF Unmarked
    <3>2. thread'[t] = thread[t] BY <3>1 DEF Unplug, InBody, Early
    <3>3. QED BY <3>1, <3>2 DEF SettingsInv, Unmarked
  <2>3. Setting(t)'
    <3>1. SUFFICES ASSUME InBody(t)' PROVE "restarted" \in thread'[t].odd BY <1>2, <1>3 DEF Setting
    <3>2. InBody(t) BY <2>1, <3>1 DEF InBody
    <3>3. thread'[t] = [thread[t] EXCEPT !.odd = @ \cup {"restarted"}] BY <3>2 DEF Unplug
    <3>4. thread'[t].odd = thread[t].odd \cup {"restarted"} BY <1>1, <3>3 DEF ThreadRecords
    <3>5. QED BY <3>4
  <2>4. Browsing(t)' BY <1>2, <1>3 DEF Browsing, Snapped
  <2>5. QED BY <2>2, <2>3, <2>4
<1>6. QED BY <1>4, <1>5 DEF SettingsInv

LEMMA SettingsAsk ==
  ASSUME LockInv, CourseInv, SettingsInv, NEW t \in Threads, NEW q \in session.may, Ask(t, q)
  PROVE  SettingsInv'
<1> DEFINE both == {u \in Threads : q.route = "grab" /\ Grabbing(u)}
           at == IF q.route = "state" THEN "state" ELSE "lock"
           odd == IF both = {} THEN {} ELSE {"shared"}
           new == [Idle EXCEPT !.at = at, !.q = q, !.op = OpAfter(q, <<>>), !.since = board.shot]
           mine == [new EXCEPT !.odd = odd]
<1>1. /\ thread' = [u \in Threads |->
           IF u = t THEN mine
           ELSE IF u \in both THEN [thread[u] EXCEPT !.odd = @ \cup {"shared"}] ELSE thread[u]]
      /\ board' = board /\ seen' = seen /\ thread[t].at = "idle"
  BY DEF Ask, Board
<1>2. mine.at = at /\ mine.odd = odd BY DEF Idle
<1>3. at \in {"state", "lock"} /\ "restarted" \notin odd OBVIOUS
<1> HIDE DEF mine, both, at, odd
<1>4. Rests(t)
  <2>1. thread'[t] = mine BY <1>1
  <2>2. QED BY <1>1, <1>2, <1>3, <2>1 DEF Rests, Drawing, InBody, Showing
<1>5. ASSUME NEW u \in Threads \ {t} PROVE Rests(u)
  <2>1. CASE thread'[u] = thread[u] BY <2>1, SameRests
  <2>2. CASE thread'[u] = [thread[u] EXCEPT !.odd = @ \cup {"shared"}]
    <3>1. /\ thread'[u].at = thread[u].at /\ thread'[u].q = thread[u].q /\ thread'[u].got = thread[u].got
          /\ thread'[u].res = thread[u].res /\ thread'[u].odd = thread[u].odd \cup {"shared"}
      BY <2>2 DEF LockInv, ThreadRecords
    <3>2. Unmarked(u) BY DEF SettingsInv
    <3>3. QED BY <3>1, <3>2 DEF Rests, Drawing, InBody, Showing, Unmarked
  <2>3. QED BY <1>1, <2>1, <2>2
<1>6. QED BY <1>1, <1>4, <1>5, SettingsStill

\* An initialisation that ends resets the camera: its registers are unknown.
LEMMA SettingsReset ==
  ASSUME LockInv, CourseInv, SettingsInv, BoardMoves, board.initing
  PROVE  SettingsInv'
<1>1. board' \in BoardSteps(board) /\ seen' = seen /\ thread' = thread BY DEF BoardMoves
<1>2. Unknown(seen) \/ \E u \in Threads : Drawing(u) /\ Reinits(thread[u].q)
  BY DEF SettingsInv, SettingsKnown
<1>3. SettingsKnown(seen, board)'
  <2>1. ASSUME NEW x \in Settings, \A u \in Threads : Drawing(u)' => ~ Stirs(thread'[u].q, x)
        PROVE  Agrees(x, seen', board'.cam)
    <3>1. ~ \E u \in Threads : Drawing(u) /\ Reinits(thread[u].q) BY <1>1, <2>1 DEF Drawing, InBody, Stirs
    <3>2. Unknown(seen) BY <1>2, <3>1
    <3>3. QED BY <1>1, <3>2 DEF Unknown, Agrees
  <2>2. Unknown(seen') \/ \E u \in Threads : Drawing(u)' /\ Reinits(thread'[u].q)
    BY <1>1, <1>2 DEF Drawing, InBody
  <2>3. SeenShape(seen') BY <1>1 DEF SettingsInv, SettingsKnown
  <2>4. QED BY <2>1, <2>2, <2>3 DEF SettingsKnown
<1>4. ASSUME NEW t \in Threads PROVE Unmarked(t)' /\ Setting(t)' /\ Browsing(t)'
  <2>1. Unmarked(t)' BY <1>1 DEF SettingsInv, Unmarked
  <2>2. Setting(t)'
    <3>1. SUFFICES ASSUME InBody(t), thread[t].q.route \in Setters
                   PROVE  IF "restarted" \in thread[t].odd THEN Unknown(seen)
                          ELSE SetsOn(board', thread[t].q, thread[t].got)
      BY <1>1 DEF Setting, InBody
    <3>2. IF "restarted" \in thread[t].odd THEN Unknown(seen) ELSE SetsOn(board, thread[t].q, thread[t].got)
      BY <3>1 DEF SettingsInv, Setting
    <3>3. CASE "restarted" \notin thread[t].odd
      <4>1. thread[t].got = <<>> BY <3>2, <3>3 DEF SetsOn
      <4>2. PICK q, d : q = thread[t].q /\ d = board' OBVIOUS
      <4>3. Typed(q) /\ ~ Refused(q) BY <3>1, <4>2 DEF CourseInv, Course, InBody
      <4>4. SetsOn(d, q, <<>>) BY <3>1, <4>2, <4>3, SetsFirst
      <4>5. QED BY <3>3, <4>1, <4>2, <4>4
    <3>4. QED BY <3>2, <3>3
  <2>3. Browsing(t)'
    <3>1. SUFFICES ASSUME Showing(t) PROVE Unknown(seen) BY <1>1 DEF Browsing, Showing, InBody, Snapped
    <3>2. SUFFICES ASSUME NEW u \in Threads, Drawing(u), Reinits(thread[u].q) PROVE FALSE BY <1>2
    <3>3. InBody(u) BY <3>2 DEF Drawing
    <3>4. t # u BY <3>1, <3>2 DEF Showing, Reinits
    <3>5. QED BY <3>1, <3>3, <3>4, OneSets
  <2>4. QED BY <2>1, <2>2, <2>3
<1>5. QED BY <1>3, <1>4 DEF SettingsInv

LEMMA SettingsInductive == LockInv /\ CourseInv /\ SettingsInv /\ [Next]_vars => SettingsInv'
<1> SUFFICES ASSUME LockInv, CourseInv, SettingsInv, [Next]_vars PROVE SettingsInv' OBVIOUS
<1>1. ThreadRecords /\ Healthy(board) BY DEF LockInv, CourseInv
<1>2. ASSUME seen' = seen, board'.cam = board.cam, board'.initing => board.initing,
             \A t \in Threads :
               /\ thread'[t].at = thread[t].at /\ thread'[t].q = thread[t].q /\ thread'[t].got = thread[t].got
               /\ thread'[t].res = thread[t].res /\ thread'[t].odd \in {thread[t].odd, thread[t].odd \cup {"watchdog"}}
      PROVE  SettingsInv'
  <2>1. ASSUME NEW t \in Threads PROVE Rests(t)
    <3>1. Unmarked(t) BY DEF SettingsInv
    <3>2. "restarted" \in thread'[t].odd <=> "restarted" \in thread[t].odd BY <1>2
    <3>3. QED BY <1>2, <3>1, <3>2 DEF Rests, Drawing, InBody, Showing, Unmarked
  <2>2. QED BY <1>2, <2>1, SettingsStill
<1>3. CASE UNCHANGED vars BY <1>2, <1>3 DEF vars
<1>4. CASE \E t \in Threads : (\E q \in session.may : Ask(t, q)) \/ Step(t) BY <1>4, SettingsAsk, SettingsTurn
<1>5. CASE PostCancel
  <2>1. board' = board /\ seen' = seen BY <1>5 DEF PostCancel, Board
  <2>2. ASSUME NEW t \in Threads
        PROVE  /\ thread'[t].at = thread[t].at /\ thread'[t].q = thread[t].q /\ thread'[t].got = thread[t].got
               /\ thread'[t].res = thread[t].res /\ thread'[t].odd = thread[t].odd
    <3> DEFINE x == Min({thread[t].asked, Len(Pixels(thread[t].got))})
    <3>1. thread'[t] = [thread[t] EXCEPT !.asked = x] \/ thread'[t] = thread[t] BY <1>5 DEF PostCancel
    <3> HIDE DEF x
    <3>2. QED BY <1>1, <3>1 DEF ThreadRecords
  <2>3. QED BY <1>2, <2>1, <2>2
<1>6. CASE BoardMoves
  <2>1. board' \in BoardSteps(board) /\ seen' = seen /\ thread' = thread BY <1>6 DEF BoardMoves
  <2>2. CASE board.initing BY <1>6, <2>2, SettingsReset
  <2>3. CASE ~ board.initing
    <3>1. board'.cam = board.cam /\ (board'.initing => board.initing) BY <1>1, <2>1, <2>3, MovesFace
    <3>2. QED BY <1>2, <2>1, <3>1
  <2>4. QED BY <2>2, <2>3
<1>7. CASE Watchdog
  <2>1. board' = WatchdogEnds(board) /\ Marked("watchdog") /\ seen' = seen BY <1>7, WatchdogMarks DEF Watchdog
  <2>2. board'.cam = board.cam /\ board'.initing = board.initing
    BY <1>1, <2>1 DEF WatchdogEnds, Healthy, BoardFields
  <2>3. ASSUME NEW t \in Threads
        PROVE  /\ thread'[t].at = thread[t].at /\ thread'[t].q = thread[t].q /\ thread'[t].got = thread[t].got
               /\ thread'[t].res = thread[t].res
               /\ thread'[t].odd \in {thread[t].odd, thread[t].odd \cup {"watchdog"}}
    BY <1>1, <2>1, MarkedFields
  <2>4. QED BY <1>2, <2>1, <2>2, <2>3
<1>8. CASE Unplug BY <1>8, SettingsUnplugged
<1>9. CASE Replug
  <2>1. board' = board /\ thread' = thread /\ seen' = seen BY <1>9 DEF Replug, Board
  <2>2. QED BY <1>2, <2>1
<1>10. QED BY <1>3, <1>4, <1>5, <1>6, <1>7, <1>8, <1>9 DEF Next

LEMMA SettingsInit == Init => SettingsInv
<1> SUFFICES ASSUME Init PROVE SettingsInv OBVIOUS
<1>1. \A t \in Threads : thread[t].at = "idle" BY DEF Init, Idle
<1>2. seen = NotKnown BY DEF Init
<1>3. SeenShape(seen) BY <1>2 DEF SeenShape, NotKnown, SeenFields
<1>4. /\ \A id \in Ids : seen.control[id] = <<>>
      /\ \A i \in Coeffs : seen.coeff[i] = <<>>
      /\ seen.center = <<>>
  BY <1>2 DEF NotKnown
<1>5. Unknown(seen) BY <1>4, SettingKinds DEF Unknown, Told
<1>6. SettingsKnown(seen, board) BY <1>3, <1>5 DEF SettingsKnown, Unknown, Agrees
<1>7. \A t \in Threads : Unmarked(t) /\ Setting(t) /\ Browsing(t)
  BY <1>1 DEF Unmarked, Setting, Browsing, Showing, InBody, Early
<1>8. QED BY <1>6, <1>7 DEF SettingsInv

LEMMA AgreeShows ==
  ASSUME NEW k, NEW cam, \A x \in Settings : Agrees(x, k, cam)
  PROVE  /\ \A id \in Ids : Shows(id, k.control[id], decode_control(CONTROLS[id], cam))
         /\ \A i \in Coeffs : Known(k.coeff[i], decode_matrix(cam, i))
         /\ Known(k.center, MTXS_AUTO_CONTRAST \subseteq cam[MTXS_REG])
<1>1. ASSUME NEW id \in Ids PROVE Shows(id, k.control[id], decode_control(CONTROLS[id], cam))
  <2>1. PICK x : x = <<"control", id>> OBVIOUS
  <2>2. x \in Settings /\ x[1] = "control" /\ x[2] = id BY <2>1 DEF Settings, Ids
  <2>3. (x = <<"control", "gamma">>) <=> id = "gamma" BY <2>1
  <2>4. Told(x, k) = k.control[id] /\ Value(x, cam) = decode_control(CONTROLS[id], cam) BY <2>2 DEF Told, Value
  <2>5. Agrees(x, k, cam) BY <2>2
  <2>6. QED BY <2>3, <2>4, <2>5 DEF Agrees, Near, Shows
<1>2. ASSUME NEW i \in Coeffs PROVE Known(k.coeff[i], decode_matrix(cam, i))
  <2>1. PICK x : x = <<"coeff", i>> OBVIOUS
  <2>2. x \in Settings /\ x[1] = "coeff" /\ x[2] = i BY <2>1, MatrixIs DEF Settings, Coeffs
  <2>3. x # <<"control", "gamma">> BY <2>1
  <2>4. Told(x, k) = k.coeff[i] /\ Value(x, cam) = decode_matrix(cam, i) BY <2>2 DEF Told, Value
  <2>5. Agrees(x, k, cam) BY <2>2
  <2>6. QED BY <2>3, <2>4, <2>5 DEF Agrees, Near, Known
<1>3. Known(k.center, MTXS_AUTO_CONTRAST \subseteq cam[MTXS_REG])
  <2>1. PICK x : x = <<"center", 0>> OBVIOUS
  <2>2. x \in Settings /\ x[1] = "center" BY <2>1 DEF Settings
  <2>3. x # <<"control", "gamma">> BY <2>1
  <2>4. Told(x, k) = k.center /\ Value(x, cam) = (MTXS_AUTO_CONTRAST \subseteq cam[MTXS_REG])
    BY <2>2 DEF Told, Value
  <2>5. Agrees(x, k, cam) BY <2>2
  <2>6. QED BY <2>3, <2>4, <2>5 DEF Agrees, Near, Known
<1>4. QED BY <1>1, <1>2, <1>3

\* Nothing is under way: what is known agrees with the camera.
LEMMA NobodyDraws ==
  ASSUME SettingsInv, \A u \in Threads : ~ InBody(u)
  PROVE  \A x \in Settings : Agrees(x, seen, board.cam)
BY DEF SettingsInv, SettingsKnown, Drawing

\* The settings page shows what the registers hold.
LEMMA PageShows ==
  ASSUME NEW d, Healthy(d), NEW got, IsSeq(got), ~ (Len(got) < Cardinality(NeededRegs)),
         \A i \in 1..Len(got) : needed_registers[i] \in CamRegs => got[i] = <<d.cam[needed_registers[i]]>>,
         NEW id \in Ids
  PROVE  LET snapshot == [a \in Range(needed_registers) |->
                            Answer(got, CHOOSE i \in DOMAIN needed_registers : needed_registers[i] = a)]
         IN  decode_all(snapshot).controls[id] = decode_control(CONTROLS[id], d.cam)
<1> DEFINE At(a) == CHOOSE i \in DOMAIN needed_registers : needed_registers[i] = a
           snapshot == [a \in Range(needed_registers) |-> Answer(got, At(a))]
<1>1. PICK c \in Nat : /\ c = Cardinality(NeededRegs) /\ DOMAIN needed_registers = 1..c
                       /\ \A a \in NeededRegs : \E i \in 1..c : needed_registers[i] = a
  BY Needed
<1>2. PICK l \in Nat : l = Len(got) /\ DOMAIN got = 1..l /\ c <= l
  <2>1. PICK S : got \in Seq(S) BY DEF IsSeq
  <2>2. Len(got) \in Nat /\ DOMAIN got = 1..Len(got) BY <2>1
  <2>3. PICK l \in Nat : l = Len(got) BY <2>2
  <2>4. DOMAIN got = 1..l BY <2>2, <2>3
  <2>5. ~ (l < c) BY <1>1, <2>3
  <2>6. c <= l BY <2>5
  <2>7. QED BY <2>3, <2>4, <2>6
<1>3. ASSUME NEW a \in NeededRegs, a \in CamRegs PROVE a \in Range(needed_registers) /\ Answer(got, At(a)) = d.cam[a]
  <2>1. PICK j \in 1..c : needed_registers[j] = a BY <1>1
  <2>2. a \in Range(needed_registers) BY <1>1, <2>1 DEF Range
  <2>3. PICK i : i = At(a) OBVIOUS
  <2>4. i \in 1..c /\ needed_registers[i] = a BY <1>1, <2>1, <2>3
  <2>5. i \in 1..l BY <1>2, <2>4
  <2>6. got[i] = <<d.cam[a]>> BY <1>2, <1>3, <2>4, <2>5
  <2>7. Answer(got, i) = d.cam[a] BY <1>2, <2>5, <2>6 DEF Answer
  <2>8. QED BY <2>2, <2>3, <2>7
<1> HIDE DEF At
<1>4. PICK s : s = snapshot OBVIOUS
<1>5. \A a \in NeededRegs : a \in CamRegs => s[a] = d.cam[a] BY <1>3, <1>4
<1>6. PICK x : x = <<"control", id>> OBVIOUS
<1>7. SameBits(x, s, d.cam)
  <2>1. ASSUME NEW a \in CamRegs, Mask(x, a) # {} PROVE s[a] = d.cam[a]
    <3>1. a \in RegsOf(CONTROLS[id]) BY <1>6, <2>1, MaskWhere
    <3>2. a \in NeededRegs BY <3>1 DEF NeededRegs, Ids
    <3>3. QED BY <1>5, <3>2
  <2>2. QED BY <2>1 DEF SameBits, Healthy
<1>8. decode_control(CONTROLS[id], s) = decode_control(CONTROLS[id], d.cam) BY <1>6, <1>7, ControlSame DEF Ids
<1>9. decode_all(s).controls[id] = decode_control(CONTROLS[id], s) BY DEF decode_all, Ids
<1>10. QED BY <1>4, <1>8, <1>9 DEF At

LEMMA SettingsHold ==
  ASSUME LockInv, CourseInv, SettingsInv
  PROVE  AcknowledgedSettings
<1>1. ASSUME lock = NoThread
      PROVE  /\ \A id \in Ids : Shows(id, seen.control[id], decode_control(CONTROLS[id], board.cam))
             /\ \A i \in Coeffs : Known(seen.coeff[i], decode_matrix(board.cam, i))
             /\ Known(seen.center, MTXS_AUTO_CONTRAST \subseteq board.cam[MTXS_REG])
  <2>1. \A u \in Threads : ~ InBody(u) BY <1>1, LockAssumption DEF LockInv, Uses, InBody
  <2>2. PICK k, cam : k = seen /\ cam = board.cam OBVIOUS
  <2>3. \A x \in Settings : Agrees(x, k, cam) BY <2>1, <2>2, NobodyDraws
  <2>4. /\ \A id \in Ids : Shows(id, k.control[id], decode_control(CONTROLS[id], cam))
        /\ \A i \in Coeffs : Known(k.coeff[i], decode_matrix(cam, i))
        /\ Known(k.center, MTXS_AUTO_CONTRAST \subseteq cam[MTXS_REG])
    BY <2>3, AgreeShows
  <2>5. QED BY <2>2, <2>4
<1>2. ASSUME NEW t \in Threads, Served(t, "settings")
      PROVE  LET snapshot == [a \in Range(needed_registers) |->
                   Answer(thread[t].got, CHOOSE i \in DOMAIN needed_registers : needed_registers[i] = a)]
             IN  \A id \in Ids : Shows(id, seen.control[id], decode_all(snapshot).controls[id])
  <2> DEFINE snapshot == [a \in Range(needed_registers) |->
               Answer(thread[t].got, CHOOSE i \in DOMAIN needed_registers : needed_registers[i] = a)]
  <2> SUFFICES ASSUME NEW id \in Ids PROVE Shows(id, seen.control[id], decode_all(snapshot).controls[id])
    OBVIOUS
  <2>1. PICK q, got : q = thread[t].q /\ got = thread[t].got OBVIOUS
  <2>2. thread[t].at = "leave" /\ thread[t].res = "ok" /\ q.route = "settings" /\ Showing(t)
    BY <1>2, <2>1 DEF Served, Showing
  <2>3. Course(t) /\ Healthy(board) BY DEF CourseInv
  <2>4. Heard(q, got) /\ lock = t /\ OpAfter(q, got).fn = "end" BY <2>1, <2>2, <2>3 DEF Course
  <2>5. IsSeq(got) BY <2>4 DEF Heard
  <2>6. \A u \in Threads : ~ InBody(u) BY <2>2, <2>4 DEF LockInv, Uses, InBody
  <2>7. Shows(id, seen.control[id], decode_control(CONTROLS[id], board.cam))
    <3>1. PICK k, cam : k = seen /\ cam = board.cam OBVIOUS
    <3>2. \A x \in Settings : Agrees(x, k, cam) BY <2>6, <3>1, NobodyDraws
    <3>3. Shows(id, k.control[id], decode_control(CONTROLS[id], cam)) BY <3>2, AgreeShows
    <3>4. QED BY <3>1, <3>3
  <2>8. Snapped(seen, board, got) BY <2>1, <2>2 DEF SettingsInv, Browsing
  <2>9. CASE Unknown(seen)
    <3>1. PICK x : x = <<"control", id>> OBVIOUS
    <3>2. x \in Settings /\ x[1] = "control" /\ x[2] = id BY <3>1 DEF Settings, Ids
    <3>3. seen.control[id] = <<>> BY <2>9, <3>2 DEF Unknown, Told
    <3> HIDE DEF snapshot
    <3>4. QED BY <3>3 DEF Shows
  <2>10. CASE ~ Unknown(seen)
    <3>1. \A i \in 1..Len(got) : needed_registers[i] \in CamRegs => got[i] = <<board.cam[needed_registers[i]]>>
      BY <2>8, <2>10 DEF Snapped
    <3>2. ~ (Len(got) < Cardinality(NeededRegs))
      <4>1. \A a : ReadReg(a).fn # "end" BY DEF ReadReg, ReadHolding, Raise
      <4>2. QED BY <2>2, <2>4, <2>5, <4>1, SnapshotOp
    <3>3. PICK d : d = board OBVIOUS
    <3>4. \A i \in 1..Len(got) : needed_registers[i] \in CamRegs => got[i] = <<d.cam[needed_registers[i]]>>
      BY <3>1, <3>3
    <3>5. Healthy(d) BY <2>3, <3>3
    <3>6. decode_all(snapshot).controls[id] = decode_control(CONTROLS[id], d.cam)
      BY <2>1, <2>5, <3>2, <3>4, <3>5, PageShows
    <3> HIDE DEF snapshot
    <3>7. QED BY <2>7, <3>3, <3>6
  <2>11. QED BY <2>9, <2>10
<1>3. QED BY <1>1, <1>2 DEF AcknowledgedSettings

\* Whatever the requests that share the line and the camera's registers do, and
\* however they fail: with the line free and no initialisation under way, what the
\* camera holds is what the last acknowledged request for a control, a coefficient
\* or the centring set (gamma within a step of its slider), and the page of
\* settings shows that of each control.
THEOREM SettingsAcknowledged == Spec => []AcknowledgedSettings
<1>1. LockInv /\ CourseInv /\ SettingsInv => AcknowledgedSettings BY SettingsHold
<1>2. QED BY <1>1, LockInit, LockInductive, CourseInit, CourseInductive, SettingsInit, SettingsInductive, PTL DEF Spec
=============================================================================
