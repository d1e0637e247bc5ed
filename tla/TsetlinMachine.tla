---------------------------- MODULE TsetlinMachine ----------------------------
(***************************************************************************)
(* The two-class Tsetlin machine of roi_tm: its training on the host       *)
(* (class TsetlinMachine of tm_common.py), the export of what it learnt,   *)
(* and the vote the microcontroller takes with it (roi_tm.c).              *)
(*                                                                         *)
(* A clause is the conjunction of the literals whose automaton is on the   *)
(* include side.  The first half of the clauses votes for, the rest        *)
(* against.  Random draws are choices; of the draws per literal only some  *)
(* are tried, the members of Forgets.                                      *)
(***************************************************************************)
EXTENDS RoiFeatures

CONSTANTS CLAUSES, STATES, T,
          Forgets   \* sets of literals whose draw is below 1/s in one update

ASSUME MachineAssumption == /\ CLAUSES \in Nat \ {0} /\ CLAUSES % 2 = 0
                            /\ STATES \in Nat \ {0} /\ T \in Nat \ {0}

VARIABLE ta   \* the state of every automaton: clause by literal

NLIT == 2 * N_FEATURES
Clauses == 0..CLAUSES-1
pos == CLAUSES \div 2
Positive == 0..pos-1

TsetlinInit == ta = [j \in Clauses |-> [L \in 0..NLIT-1 |-> STATES]]

Tally(fires) == Cardinality(fires \cap Positive) - Cardinality(fires \ Positive)

_include(t) == [j \in Clauses |-> {L \in 0..NLIT-1 : t[j][L] > STATES}]
_clause_outputs(lit, include) == {j \in Clauses : include[j] \subseteq lit}
Vote(t, x) == Tally(_clause_outputs(LiteralsOf(x), _include(t)))

Clip(v, lo, hi) == IF v < lo THEN lo ELSE IF v > hi THEN hi ELSE v

(* Feedback is drawn with probability p, of which need is 2T times: none   *)
(* when the vote has reached its target, all when it is at the other end.  *)
(* Type I goes to the clauses of the sample's class (boosted: a true       *)
(* literal of a clause that fires is always included), type II makes the   *)
(* others stop firing.                                                     *)
_update_one(x, y) ==
  LET lit == LiteralsOf(x)
      include == _include(ta)
      out == _clause_outputs(lit, include)
      v == Clip(Tally(out), -T, T)
      need == IF y = 1 THEN T - v ELSE T + v
      type1 == IF y = 1 THEN Positive ELSE Clauses \ Positive
  IN  \E feedback \in SUBSET Clauses, forget \in Forgets :
        /\ need = 0 => feedback = {}
        /\ need = 2 * T => feedback = Clauses
        /\ LET t1 == feedback \cap type1
               t2 == feedback \ type1
               inc1(j, L) == j \in t1 /\ j \in out /\ L \in lit
               dec1(j, L) == j \in t1 /\ L \in forget /\ (j \in out => L \notin lit)
               inc2(j, L) == j \in t2 /\ j \in out /\ L \notin lit /\ L \notin include[j]
               Nudge(j, L) == IF inc1(j, L) \/ inc2(j, L) THEN 1 ELSE IF dec1(j, L) THEN -1 ELSE 0
           IN  ta' = [j \in Clauses |-> [L \in 0..NLIT-1 |->
                        Clip(ta[j][L] + Nudge(j, L), 1, 2 * STATES)]]

-----------------------------------------------------------------------------
(* What the host evaluates and exports *)

masks(t) == [j \in Clauses |-> pack_bits(_include(t)[j], NLIT)]

infer_packed(ms, litwords, threshold) ==
  LET fires == {j \in Clauses : \A w \in DOMAIN litwords : litwords[w] \cap ms[j][w] = ms[j][w]}
  IN  [predict |-> Tally(fires) >= threshold, vote |-> Tally(fires)]

\* Mutant: the lists start over in each word.
clause_literalsOfWord(ms) ==
  [j \in Clauses |-> FlattenSeq([w \in 1..nwords(NLIT) |->
     SelectSeq([i \in 1..WORD |-> i - 1], LAMBDA i : i \in ms[j][w-1])])]

\* The included literals of each clause, in order: idx[n] lists those of the
\* first n bits.
clause_literals(ms) ==
  [j \in Clauses |->
     LET idx[n \in 0..nwords(NLIT) * WORD] ==
           IF n = 0 THEN <<>>
           ELSE IF ((n - 1) % WORD) \in ms[j][(n - 1) \div WORD] THEN Append(idx[n-1], n - 1)
           ELSE idx[n-1]
     IN  idx[nwords(NLIT) * WORD]]

\* tm_model.h: the lists end to end, with their lengths.
export_header(ms, threshold) ==
  LET lits == clause_literals(ms)
  IN  [clause_len |-> [j \in Clauses |-> Len(lits[j])],
       lit        |-> FlattenSeq([j \in 1..CLAUSES |-> lits[j-1]]),
       threshold  |-> threshold]

-----------------------------------------------------------------------------
(* What the microcontroller computes: roi_tm.c *)

\* The tallies of the clauses that fire, for and against.
tm_votes(model, lit) ==
  LET off[j \in 0..CLAUSES] == IF j = 0 THEN 0 ELSE off[j-1] + model.clause_len[j-1]
      out(j) == \A t \in 1..model.clause_len[j] :
                  LET L == model.lit[off[j] + t] IN (L % WORD) \in lit[L \div WORD]
  IN  [face    |-> Cardinality({j \in Positive : out(j)}),
       nonface |-> Cardinality({j \in Clauses \ Positive : out(j)})]

\* Bit 7 says whether there is a face, the rest is the vote plus 64.
HeartbeatOf(model, roi) ==
  LET votes == tm_votes(model, roi_featurize(roi))
      vote == votes.face - votes.nonface
  IN  (IF vote >= model.threshold THEN 128 ELSE 0) + Clip(vote + 64, 0, 127)
=============================================================================
