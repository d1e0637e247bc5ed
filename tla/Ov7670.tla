------------------------------- MODULE Ov7670 -------------------------------
(***************************************************************************)
(* webapp/ov7670.py: the camera's registers as the settings page knows     *)
(* them.  A register is a byte, and a byte is the set of the bits that are *)
(* one in it: a mask is a set, `|' is union, `& ~' is difference.          *)
(*                                                                         *)
(* The gamma exponents a user picks and the knees they give are data: they *)
(* are the constants Exponents, Curve (255*(x/255)^g, rounded, at each     *)
(* breakpoint) and Exponent, its inverse at the sampled breakpoint.        *)
(***************************************************************************)
EXTENDS Integers, Sequences, FiniteSets, SequencesExt, FiniteSetsExt

CONSTANTS Exponents,  \* scaled exponents, round(g * GAMMA_SCALE)
          Curve,      \* Curve[g][i]: the output at breakpoint i
          Exponent    \* Exponent[y]: the scaled exponent with output y at the sample

Bits(n) == {i \in 0..7 : (n \div 2^i) % 2 = 1}
Num(b) == LET Sum[i \in 0..8] == IF i = 0 THEN 0
                                 ELSE Sum[i-1] + IF i-1 \in b THEN 2^(i-1) ELSE 0
          IN  Sum[8]

IDENTITY == [a \in {\h0A, \h0B, \h1C, \h1D} |->
               Bits(CASE a = \h0A -> \h76 [] a = \h0B -> \h73
                      [] a = \h1C -> \h7F [] a = \h1D -> \hA2)]

PATTERN_REGS == <<\h70, \h71>>
PATTERN_OPTIONS == [none     |-> [xsc |-> FALSE, ysc |-> FALSE],
                    colorbar |-> [xsc |-> FALSE, ysc |-> TRUE],
                    shifting1 |-> [xsc |-> TRUE, ysc |-> FALSE],
                    fadegray |-> [xsc |-> TRUE,  ysc |-> TRUE]]

SLOP_REG == \h7A
GAM_BASE == \h7B
SLOP_UNIT == 64
GAMMA_SCALE == 100
GAMMA_MIN == 30
GAMMA_MAX == 250
GAMMA_SAMPLE_INDEX == 7
GAM_BREAKPOINTS == <<4, 8, 16, 32, 40, 48, 56, 64, 72, 80, 96, 112, 144, 176, 208>>
Knees == Len(GAM_BREAKPOINTS)

gamma_register_addrs == <<SLOP_REG>> \o [i \in 1..Knees |-> GAM_BASE + i - 1]

(* SLOP extends the curve from the last knee to full scale.                *)
gamma_registers ==
  [g \in Exponents |-> [a \in Range(gamma_register_addrs) |->
     Bits(IF a # SLOP_REG THEN Curve[g][a - GAM_BASE + 1]
          ELSE LET run == 255 - GAM_BREAKPOINTS[Knees]
                   rise == 255 - Curve[g][Knees]
               IN  (2 * SLOP_UNIT * rise + run) \div (2 * run))]]

estimate_gamma(snapshot) ==
  LET y == Num(snapshot[GAM_BASE + GAMMA_SAMPLE_INDEX])
  IN  IF y \in {0, 255} THEN GAMMA_SCALE ELSE Max({GAMMA_MIN, Min({GAMMA_MAX, Exponent[y]})})

MTX_REGS == <<\h4F, \h50, \h51, \h52, \h53, \h54>>
MTXS_REG == \h58
MTXS_AUTO_CONTRAST == {7}

(* Magnitudes with a sign bit each in MTXS; the index starts at 0.         *)
decode_matrix(snapshot, i) ==
  LET mag == Num(snapshot[MTX_REGS[i + 1]])
  IN  IF i \in snapshot[MTXS_REG] THEN -mag ELSE mag

ByteControl(reg) == [type |-> "byte", reg |-> reg]
BitControl(reg, mask) == [type |-> "bit", reg |-> reg, mask |-> mask]

CONTROLS ==
  [brightness |-> ByteControl(\h55), contrast |-> ByteControl(\h56),
   gain       |-> ByteControl(\h00), exposure |-> ByteControl(\h10),
   agc        |-> BitControl(\h13, {2}), awb    |-> BitControl(\h13, {1}),
   aec        |-> BitControl(\h13, {0}), mirror |-> BitControl(\h1E, {5}),
   vflip      |-> BitControl(\h1E, {4}), negative |-> BitControl(\h3A, {5}),
   night      |-> BitControl(\h3B, {7}), gamma_enable |-> BitControl(\h3D, {7}),
   gamma      |-> [type |-> "gamma", sample_reg |-> GAM_BASE + GAMMA_SAMPLE_INDEX],
   pattern    |-> [type |-> "pattern"]]

RegsOf(c) == CASE c.type = "pattern" -> Range(PATTERN_REGS)
               [] c.type = "gamma"   -> {c.sample_reg}
               [] OTHER              -> {c.reg}

NeededRegs == DOMAIN IDENTITY \cup UNION {RegsOf(CONTROLS[id]) : id \in DOMAIN CONTROLS}

needed_registers ==
  [i \in 1..Cardinality(NeededRegs) |->
     CHOOSE r \in NeededRegs : Cardinality({s \in NeededRegs : s < r}) = i - 1]

decode_control(c, snapshot) ==
  CASE c.type = "byte" -> snapshot[c.reg]
    [] c.type = "bit"  -> snapshot[c.reg] \cap c.mask # {}
    [] c.type = "pattern" ->
         CHOOSE opt \in DOMAIN PATTERN_OPTIONS :
           /\ PATTERN_OPTIONS[opt].xsc = (7 \in snapshot[PATTERN_REGS[1]])
           /\ PATTERN_OPTIONS[opt].ysc = (7 \in snapshot[PATTERN_REGS[2]])
    [] c.type = "gamma" -> estimate_gamma(snapshot)

(* What the page shows: the identity registers that are as expected, and   *)
(* the value of every control.                                             *)
decode_all(snapshot) ==
  [identity |-> {a \in DOMAIN IDENTITY : snapshot[a] = IDENTITY[a]},
   controls |-> [id \in DOMAIN CONTROLS |-> decode_control(CONTROLS[id], snapshot)]]
=============================================================================
