-------------------------- MODULE RoiPipeline_proofs --------------------------
(***************************************************************************)
(* The collector, the trainer and the detector, for any region, any frame, *)
(* any number of sessions, keys, failed calls and kills:                   *)
(*                                                                         *)
(*  - the collector's list, its counts and its file are what the operator  *)
(*    was told (Inv), and stay so while the trainer and the detector run;  *)
(*  - a sample is the cells of the region in one capture (SampleInv): what *)
(*    the board holds after each operation of grab_roi follows from the    *)
(*    capture it arms and waits for, and from where the operations of each *)
(*    cell are in the program (RegionProgram);                             *)
(*  - the packed inference computes what the training does: for every      *)
(*    state of the automata, every feature vector and every width of a     *)
(*    word, the words of a mask and of the literals hide nothing;          *)
(*  - the microcontroller says what the host infers (BoardAgrees): its     *)
(*    conditions are the features of the host (FeaturesAgree), the lists   *)
(*    of literals it walks are the masks they were made from (VotesAgree), *)
(*    and up to 126 clauses its heartbeat has room for every vote.         *)
(***************************************************************************)
EXTENDS RoiPipeline, ModbusClient_proofs, FiniteSetTheorems, SequenceTheorems, TLAPS

(* What the operator was told *)

Elements(s) == {s[i] : i \in DOMAIN s}

\* A list of labelled samples, whatever the samples are.
Records(s) == s \in Seq(Elements(s)) /\ \A r \in Elements(s) : r.label \in {0, 1}

Counted(s) == n_face = Count(s, 1) /\ n_none = Count(s, 0)

File(s) == [lines |-> s, torn |-> FALSE]

Lists == Records(kept) /\ Records(asked) /\ Records(file.lines) /\ Records(records)

Saving == pc \in {"append", "count"}

\* Where the list, the counts and the file are at each step of a key.
InvStep ==
  /\ pc \in {"grab", "prompt"} => file = File(kept) /\ records = kept /\ Counted(kept)
  /\ Saving =>
       /\ records = asked /\ asked = Append(kept, asked[Len(asked)])
       /\ asked[Len(asked)].label \in {0, 1} /\ Counted(kept)
       /\ file = File(IF pc = "append" THEN kept ELSE asked)
  /\ pc \in {"truncate", "rewrite"} => records = asked /\ Counted(asked)
  /\ pc = "truncate" => file = File(kept)

\* A kill leaves the file as it was told, or as the key makes it, unless it
\* was being rewritten.
Inv ==
  /\ pc \in {"down", "boot", "load", "grab", "prompt", "append", "count", "truncate", "rewrite"}
  /\ spoilt \in BOOLEAN
  /\ file = [lines |-> file.lines, torn |-> file.torn] /\ file.torn \in BOOLEAN
  /\ pc \notin {"down", "boot", "load"} => ~ spoilt
  /\ pc # "rewrite" /\ ~ spoilt => file \in {File(kept), File(asked)}
  /\ Lists /\ InvStep

-----------------------------------------------------------------------------
(* Lists and their counts *)

LEMMA EmptyRecords == Records(<<>>)
BY EmptySeq DEF Records, Elements

\* A list with one more labelled sample.
LEMMA AppendRecords ==
  ASSUME NEW s, Records(s), NEW r, r.label \in {0, 1}
  PROVE  /\ Records(Append(s, r))
         /\ Len(s) \in Nat /\ DOMAIN s = 1..Len(s)
         /\ DOMAIN Append(s, r) = 1..Len(s)+1
         /\ Len(Append(s, r)) = Len(s) + 1
         /\ \A i \in 1..Len(s) : Append(s, r)[i] = s[i]
         /\ Append(s, r)[Len(s)+1] = r
<1> DEFINE a == Append(s, r)
           S == Elements(s) \cup {r}
<1>1. s \in Seq(Elements(s)) BY DEF Records
<1>2. s \in Seq(S) BY <1>1, SeqMonotonic
<1>3. /\ a \in Seq(S) /\ Len(a) = Len(s) + 1
      /\ \A i \in 1..Len(s) : a[i] = s[i]
      /\ a[Len(s)+1] = r
  BY <1>2, AppendProperties
<1>4. Len(s) \in Nat /\ DOMAIN s = 1..Len(s) BY <1>1, LenProperties
<1>5. DOMAIN a = 1..Len(s)+1 BY <1>3, LenProperties
<1>6. Elements(a) = S
  <2>1. \A i \in DOMAIN a : a[i] \in S BY <1>3, ElementOfSeq, <1>5
  <2>2. \A i \in DOMAIN s : s[i] = a[i] /\ i \in DOMAIN a BY <1>3, <1>4, <1>5
  <2>3. r = a[Len(s)+1] /\ Len(s)+1 \in DOMAIN a BY <1>3, <1>4, <1>5
  <2> QED BY <2>1, <2>2, <2>3 DEF Elements
<1>7. \A e \in S : e.label \in {0, 1} BY DEF Records
<1> QED BY <1>3, <1>4, <1>5, <1>6, <1>7 DEF Records

\* The samples of a label are finitely many.
LEMMA CountType ==
  ASSUME NEW s, Records(s), NEW label
  PROVE  /\ Count(s, label) \in Nat
         /\ IsFiniteSet({i \in DOMAIN s : s[i].label = label})
<1>1. Len(s) \in Nat /\ DOMAIN s = 1..Len(s) BY LenProperties DEF Records
<1>2. IsFiniteSet(1..Len(s)) BY <1>1, FS_Interval
<1>3. {i \in DOMAIN s : s[i].label = label} \in SUBSET (1..Len(s)) BY <1>1
<1>4. IsFiniteSet({i \in DOMAIN s : s[i].label = label}) BY <1>2, <1>3, FS_Subset
<1> QED BY <1>4, FS_CardinalityType DEF Count

\* A sample more counts for its label.
LEMMA CountAppend ==
  ASSUME NEW s, Records(s), NEW r, r.label \in {0, 1}, NEW label
  PROVE  Count(Append(s, r), label) =
           IF r.label = label THEN Count(s, label) + 1 ELSE Count(s, label)
<1> DEFINE a == Append(s, r)
           Of(t) == {i \in DOMAIN t : t[i].label = label}
           n == Len(s) + 1
<1>1. /\ Len(s) \in Nat /\ DOMAIN s = 1..Len(s) /\ DOMAIN a = 1..n
      /\ \A i \in 1..Len(s) : a[i] = s[i]
      /\ a[n] = r
  BY AppendRecords
<1>2. IsFiniteSet(Of(s)) BY CountType
<1>3. CASE r.label = label
  <2>1. Of(a) = Of(s) \cup {n} BY <1>1, <1>3
  <2>2. n \notin Of(s) BY <1>1
  <2> QED BY <1>2, <1>3, <2>1, <2>2, FS_AddElement DEF Count
<1>4. CASE r.label # label
  <2>1. Of(a) = Of(s) BY <1>1, <1>4
  <2> QED BY <1>4, <2>1 DEF Count
<1> QED BY <1>3, <1>4

\* A list without its last sample, which counted for its label.
LEMMA FrontRecords ==
  ASSUME NEW s, Records(s), s # <<>>, NEW label
  PROVE  /\ Records(Front(s)) /\ s[Len(s)].label \in {0, 1}
         /\ Count(Front(s), label) =
              IF s[Len(s)].label = label THEN Count(s, label) - 1 ELSE Count(s, label)
<1> DEFINE f == Front(s)
           r == s[Len(s)]
<1>1. s \in Seq(Elements(s)) BY DEF Records
<1>2. Len(s) \in Nat \ {0} /\ DOMAIN s = 1..Len(s) BY <1>1, EmptySeq, LenProperties
<1>3. \A i \in 1..Len(s)-1 : s[i] \in Elements(s) BY <1>2 DEF Elements
<1>4. /\ f \in Seq(Elements(s)) /\ Len(f) = Len(s) - 1
      /\ \A i \in 1..Len(s)-1 : f[i] = s[i]
  <2>1. 1 \in Int /\ Len(s)-1 \in Int BY <1>2
  <2>2. /\ SubSeq(s, 1, Len(s)-1) \in Seq(Elements(s))
        /\ Len(SubSeq(s, 1, Len(s)-1)) = IF 1 <= Len(s)-1 THEN Len(s)-1-1+1 ELSE 0
        /\ \A i \in 1..Len(s)-1-1+1 : SubSeq(s, 1, Len(s)-1)[i] = s[1+i-1]
    BY <1>3, <2>1, SubSeqProperties
  <2> QED BY <1>2, <2>2 DEF Front
<1>5. DOMAIN f = 1..Len(s)-1 BY <1>2, <1>4, LenProperties
<1>6. Records(f)
  <2>1. \A i \in DOMAIN f : f[i] = s[i] /\ i \in DOMAIN s BY <1>2, <1>4, <1>5
  <2>2. Elements(f) \subseteq Elements(s) BY <2>1 DEF Elements
  <2>3. \A i \in 1..Len(s)-1 : s[i] \in Elements(f) BY <1>4, <1>5 DEF Elements
  <2>4. f \in Seq(Elements(f))
    <3>1. 1 \in Int /\ Len(s)-1 \in Int BY <1>2
    <3>2. SubSeq(s, 1, Len(s)-1) \in Seq(Elements(f)) BY <2>3, <3>1, SubSeqProperties
    <3> QED BY <3>2 DEF Front
  <2> QED BY <2>2, <2>4 DEF Records
<1>7. r.label \in {0, 1} BY <1>2 DEF Records, Elements
<1>8. s = Append(f, r)
  <2>1. f \in Seq(Elements(s)) /\ r \in Elements(s) BY <1>2, <1>4 DEF Elements
  <2>2. /\ Append(f, r) \in Seq(Elements(s)) /\ Len(Append(f, r)) = Len(f) + 1
        /\ \A i \in 1..Len(f) : Append(f, r)[i] = f[i]
        /\ Append(f, r)[Len(f)+1] = r
    BY <2>1, AppendProperties
  <2>3. \A i \in 1..Len(s) : s[i] = Append(f, r)[i] BY <1>2, <1>4, <2>2
  <2>4. Len(s) = Len(Append(f, r)) BY <1>2, <1>4, <2>2
  <2> HIDE DEF f, r
  <2> QED BY <1>1, <2>2, <2>3, <2>4, SeqEqual
<1>9. Count(f, label) \in Nat BY <1>6, CountType
<1>10. Count(Append(f, r), label) = IF r.label = label THEN Count(f, label) + 1 ELSE Count(f, label)
  BY <1>6, <1>7, CountAppend
<1>11. Count(s, label) = IF r.label = label THEN Count(f, label) + 1 ELSE Count(f, label)
  BY <1>8, <1>10
<1> QED BY <1>6, <1>7, <1>9, <1>11
-----------------------------------------------------------------------------
(* Every step keeps the invariant *)

LEMMA Initially == Init => Inv
<1> SUFFICES ASSUME Init PROVE Inv OBVIOUS
<1>1. Lists BY EmptyRecords DEF Init, Lists
<1> QED BY <1>1 DEF Init, Inv, InvStep, Saving, File

\* Steps of the board and of calls that go on, and a start.
LEMMA GoesOn ==
  /\ Inv /\ memory' = memory /\ file' = file /\ told' = told
  /\ pc' = pc \/ (pc' \in {"boot", "load"} /\ pc \in {"down", "boot"}) \/ (pc = "grab" /\ pc' = "prompt")
  => Inv'
<1> SUFFICES ASSUME Inv, memory' = memory, file' = file, told' = told,
                    pc' = pc \/ (pc' \in {"boot", "load"} /\ pc \in {"down", "boot"})
                      \/ (pc = "grab" /\ pc' = "prompt")
             PROVE  Inv'
  OBVIOUS
<1>1. Lists' BY DEF Inv, Lists, memory, told
<1>2. UNCHANGED <<Counted(kept), Counted(asked)>> BY DEF Counted, Count, memory, told
<1>3. InvStep' BY <1>2 DEF Inv, InvStep, Saving, File, memory, told
<1> QED BY <1>1, <1>3 DEF Inv, File, told

\* The program ends while the file is not being rewritten.
LEMMA Ends ==
  ASSUME Inv, Exits, UNCHANGED <<file, told>>, pc # "rewrite"
  PROVE  Inv'
<1>1. Lists' BY EmptyRecords DEF Inv, Lists, Exits, told
<1>2. InvStep' BY DEF InvStep, Saving, Exits
<1> QED BY <1>1, <1>2 DEF Inv, File, Exits, told

LEMMA Killed == Inv /\ Kill => Inv'
<1> SUFFICES ASSUME Inv, Kill PROVE Inv' OBVIOUS
<1>1. CASE pc # "rewrite"
  <2>1. spoilt' = spoilt BY <1>1 DEF Kill, Inv
  <2> QED BY <1>1, <2>1, Ends DEF Kill, told
<1>2. CASE pc = "rewrite"
  <2>1. Lists' BY EmptyRecords DEF Kill, Inv, Lists, Exits
  <2>2. InvStep' BY DEF Kill, InvStep, Saving, Exits
  <2>3. spoilt' = TRUE BY <1>2 DEF Kill, Inv
  <2> QED BY <2>1, <2>2, <2>3 DEF Kill, Inv, Exits
<1> QED BY <1>1, <1>2

\* The file that is read is what was told, or the key that was pressed took
\* effect, or a kill cut the rewriting off: the operator is told what it is.
LEMMA Loaded == Inv /\ load_dataset => Inv'
<1> SUFFICES ASSUME Inv, load_dataset PROVE Inv' OBVIOUS
<1>1. CASE file.torn
  BY <1>1, Ends DEF load_dataset
<1>2. CASE ~ file.torn
  <2>1. /\ pc = "load" /\ pc' = "grab" /\ records' = file.lines /\ file' = file
        /\ n_face' = Count(file.lines, 1) /\ n_none' = Count(file.lines, 0)
        /\ kept' = IF spoilt \/ file.lines = asked THEN file.lines ELSE kept
        /\ asked' = kept' /\ spoilt' = FALSE
    BY <1>2 DEF load_dataset, Capture
  <2>2. kept' = file.lines BY <2>1 DEF Inv, File
  <2>3. Lists' BY <2>1, <2>2 DEF Inv, Lists
  <2>4. file = File(file.lines) BY <1>2 DEF Inv, File
  <2>5. InvStep' BY <2>1, <2>2, <2>4 DEF InvStep, Saving, Counted, Count, File
  <2> QED BY <2>1, <2>2, <2>3, <2>4, <2>5 DEF Inv, File
<1> QED BY <1>1, <1>2

LEMMA Labelled == \A label \in {0, 1} : Inv /\ Label(label) => Inv'
<1> SUFFICES ASSUME NEW label \in {0, 1}, Inv, Label(label) PROVE Inv' OBVIOUS
<1> DEFINE r == [label |-> label, roi565 |-> roi]
<1>1. /\ pc = "prompt" /\ pc' = "append" /\ file' = file /\ kept' = kept /\ spoilt' = spoilt
      /\ n_face' = n_face /\ n_none' = n_none
      /\ records' = Append(kept, r) /\ asked' = Append(kept, r)
  BY DEF Label, Press, Inv, InvStep
<1>2. /\ file = File(kept) /\ Counted(kept) BY <1>1 DEF Inv, InvStep
<1>3. Records(kept) /\ r.label \in {0, 1} BY DEF Inv, Lists
<1>4. /\ Records(Append(kept, r)) /\ Len(Append(kept, r)) = Len(kept) + 1
      /\ Append(kept, r)[Len(kept)+1] = r
  BY <1>3, AppendRecords
<1> HIDE DEF r
<1>5. Lists' BY <1>1, <1>2, <1>3, <1>4 DEF Lists, File
<1>6. InvStep' BY <1>1, <1>2, <1>3, <1>4 DEF InvStep, Saving, Counted, Count, File
<1> QED BY <1>1, <1>2, <1>5, <1>6 DEF Inv, File

LEMMA LineAppended == Inv /\ AppendLine => Inv'
<1> SUFFICES ASSUME Inv, AppendLine PROVE Inv' OBVIOUS
<1>1. /\ pc = "append" /\ pc' = "count" /\ UNCHANGED <<kept, asked, spoilt, records, n_face, n_none>>
      /\ file' = [file EXCEPT !.lines = Append(file.lines, records[Len(records)])]
  BY DEF AppendLine, memory, told
<1>2. /\ file = File(kept) /\ records = asked /\ asked = Append(kept, asked[Len(asked)])
      /\ asked[Len(asked)].label \in {0, 1} /\ Counted(kept)
  BY <1>1 DEF Inv, InvStep, Saving
<1>3. file' = File(asked) BY <1>1, <1>2 DEF File
<1>4. Lists'
  <2>1. Records(kept') /\ Records(asked') /\ Records(records') BY <1>1 DEF Inv, Lists
  <2>2. file'.lines = asked BY <1>3 DEF File
  <2> QED BY <1>1, <2>1, <2>2 DEF Lists
<1>5. InvStep' BY <1>1, <1>2, <1>3 DEF InvStep, Saving, Counted, Count, File
<1> QED BY <1>1, <1>3, <1>4, <1>5 DEF Inv, File

LEMMA SampleSaved == Inv /\ Saved => Inv'
<1> SUFFICES ASSUME Inv, Saved PROVE Inv' OBVIOUS
<1> DEFINE r == asked[Len(asked)]
<1>1. /\ pc = "count" /\ pc' = "grab" /\ UNCHANGED <<records, file, asked, spoilt>> /\ kept' = asked
      /\ n_face' = IF records[Len(records)].label = 1 THEN n_face + 1 ELSE n_face
      /\ n_none' = IF records[Len(records)].label = 1 THEN n_none ELSE n_none + 1
  BY DEF Saved, Capture
<1>2. /\ file = File(asked) /\ records = asked /\ asked = Append(kept, r)
      /\ r.label \in {0, 1} /\ Counted(kept)
  BY <1>1 DEF Inv, InvStep, Saving
<1>3. Records(kept) BY DEF Inv, Lists
<1> HIDE DEF r
<1>4. \A l \in {0, 1} : Count(asked, l) = IF r.label = l THEN Count(kept, l) + 1 ELSE Count(kept, l)
  <2> TAKE l \in {0, 1}
  <2>1. Count(Append(kept, r), l) = IF r.label = l THEN Count(kept, l) + 1 ELSE Count(kept, l)
    BY <1>2, <1>3, CountAppend
  <2> QED BY <1>2, <2>1
<1>5. /\ n_face' = IF r.label = 1 THEN n_face + 1 ELSE n_face
      /\ n_none' = IF r.label = 1 THEN n_none ELSE n_none + 1
  BY <1>1, <1>2 DEF r
<1>6. n_face' = Count(asked, 1) /\ n_none' = Count(asked, 0)
  BY <1>2, <1>4, <1>5 DEF Counted
<1>7. InvStep' BY <1>1, <1>2, <1>6 DEF InvStep, Saving, Counted, Count, File
<1>8. Lists' BY <1>1, <1>2 DEF Inv, Lists, File
<1> QED BY <1>1, <1>2, <1>7, <1>8 DEF Inv, File

LEMMA Undone == Inv /\ Undo => Inv'
<1> SUFFICES ASSUME Inv, Undo PROVE Inv' OBVIOUS
<1>1. /\ pc = "prompt" /\ file = File(kept) /\ records = kept /\ Counted(kept) /\ file' = file
  BY DEF Undo, Press, Inv, InvStep
<1>2. CASE records = <<>>
  <2>1. pc' = "grab" /\ UNCHANGED <<memory, file, told>> BY <1>2 DEF Undo, Capture
  <2>2. InvStep' BY <1>1, <2>1 DEF InvStep, Saving, Counted, Count, memory, told
  <2>3. Lists' BY <2>1 DEF Inv, Lists, memory, told
  <2> QED BY <1>1, <2>1, <2>2, <2>3 DEF Inv, File, told
<1>3. CASE records # <<>>
  <2> DEFINE r == kept[Len(kept)]
             f == Front(kept)
  <2>1. /\ pc' = "truncate" /\ kept' = kept /\ spoilt' = spoilt /\ records' = f /\ asked' = f
        /\ n_face' = IF r.label = 1 THEN n_face - 1 ELSE n_face
        /\ n_none' = IF r.label = 1 THEN n_none ELSE n_none - 1
    BY <1>1, <1>3 DEF Undo
  <2>2. Records(kept) /\ kept # <<>> BY <1>1, <1>3 DEF Inv, Lists
  <2>3. /\ Records(f) /\ r.label \in {0, 1}
        /\ Count(f, 1) = IF r.label = 1 THEN Count(kept, 1) - 1 ELSE Count(kept, 1)
    BY <2>2, FrontRecords
  <2>4. Count(f, 0) = IF r.label = 0 THEN Count(kept, 0) - 1 ELSE Count(kept, 0)
    BY <2>2, FrontRecords
  <2> HIDE DEF r, f
  <2>5. n_face' = Count(f, 1) /\ n_none' = Count(f, 0)
    BY <1>1, <2>1, <2>3, <2>4 DEF Counted
  <2>6. InvStep' BY <1>1, <2>1, <2>5 DEF InvStep, Saving, Counted, Count, File
  <2>7. Lists' BY <1>1, <2>1, <2>3 DEF Inv, Lists
  <2> QED BY <1>1, <2>1, <2>6, <2>7 DEF Inv, File
<1> QED BY <1>2, <1>3

LEMMA Rewriting == Inv /\ (Truncate \/ \E k \in 0..Len(records)-1, torn \in BOOLEAN : WriteBlock(k, torn)) => Inv'
<1>1. ASSUME Inv, Truncate PROVE Inv'
  <2>1. /\ pc = "truncate" /\ pc' = "rewrite" /\ UNCHANGED <<kept, asked, spoilt, records, n_face, n_none>>
        /\ file' = File(<<>>)
    BY <1>1 DEF Truncate, memory, told, File
  <2>2. Lists' BY <1>1, <2>1, EmptyRecords DEF Inv, Lists, File
  <2>3. InvStep' BY <1>1, <2>1 DEF Inv, InvStep, Saving, Counted, Count, File
  <2> QED BY <1>1, <2>1, <2>2, <2>3 DEF Inv, File
<1>2. ASSUME Inv, NEW k \in 0..Len(records)-1, NEW torn \in BOOLEAN, WriteBlock(k, torn) PROVE Inv'
  <2> DEFINE w == SubSeq(records, 1, k)
  <2>1. /\ pc = "rewrite" /\ pc' = "rewrite" /\ UNCHANGED <<kept, asked, spoilt, records, n_face, n_none>>
        /\ file' = [lines |-> w, torn |-> torn]
    BY <1>2 DEF WriteBlock, memory, told
  <2>2. /\ Len(records) \in Nat /\ DOMAIN records = 1..Len(records)
        /\ \A e \in Elements(records) : e.label \in {0, 1}
    BY <1>2, LenProperties DEF Inv, Lists, Records
  <2>3. k \in Int /\ 1 \in Int /\ \A i \in 1..k : records[i] \in Elements(records) BY <2>2 DEF Elements
  <2>4. /\ w \in Seq(Elements(records)) /\ Len(w) = IF 1 <= k THEN k - 1 + 1 ELSE 0
        /\ \A i \in 1..k-1+1 : w[i] = records[1+i-1]
    BY <2>3, SubSeqProperties
  <2>5. DOMAIN w = 1..k BY <2>3, <2>4, LenProperties
  <2>6. \A i \in 1..k : w[i] = records[i] /\ w[i] \in Elements(w)
    <3>1. \A i \in 1..k : w[i] \in Elements(w) BY <2>5 DEF Elements
    <3>2. \A i \in 1..k : i \in 1..k-1+1 /\ 1+i-1 = i BY <2>3
    <3> QED BY <2>4, <3>1, <3>2
  <2>7. w \in Seq(Elements(w))
    <3>1. \A i \in 1..k : records[i] \in Elements(w) BY <2>6
    <3> QED BY <2>3, <3>1, SubSeqProperties
  <2>8. Elements(w) \subseteq Elements(records) BY <2>3, <2>5, <2>6 DEF Elements
  <2>9. Records(w) BY <2>2, <2>7, <2>8 DEF Records
  <2> HIDE DEF w
  <2>10. Lists' BY <1>2, <2>1, <2>9 DEF Inv, Lists
  <2>11. InvStep' BY <1>2, <2>1 DEF Inv, InvStep, Saving, Counted, Count
  <2> QED BY <1>2, <2>1, <2>10, <2>11 DEF Inv
<1> QED BY <1>1, <1>2

\* The last line is written, or there was nothing to do.
LEMMA NextCapture == Inv /\ (WriteRest \/ Recapture) => Inv'
<1>1. ASSUME Inv, WriteRest PROVE Inv'
  <2>1. /\ pc = "rewrite" /\ pc' = "grab" /\ UNCHANGED <<records, n_face, n_none, asked, spoilt>>
        /\ kept' = asked /\ file' = File(records)
    BY <1>1 DEF WriteRest, Capture, memory, File
  <2>2. records = asked /\ Counted(asked) BY <1>1, <2>1 DEF Inv, InvStep
  <2>3. Lists' BY <1>1, <2>1, <2>2 DEF Inv, Lists, File
  <2>4. InvStep' BY <2>1, <2>2 DEF InvStep, Saving, Counted, Count, File
  <2> QED BY <1>1, <2>1, <2>2, <2>3, <2>4 DEF Inv, File
<1>2. ASSUME Inv, Recapture PROVE Inv'
  <2>1. pc = "prompt" /\ pc' = "grab" /\ UNCHANGED <<memory, file, told>>
    BY <1>2 DEF Recapture, Press, Capture
  <2>2. InvStep' BY <1>2, <2>1 DEF Inv, InvStep, Saving, Counted, Count, memory, told
  <2>3. Lists' BY <1>2, <2>1 DEF Inv, Lists, memory, told
  <2> QED BY <1>2, <2>1, <2>2, <2>3 DEF Inv, File, told
<1> QED BY <1>1, <1>2

LEMMA Steps == Inv /\ CollectorNext => Inv'
<1> SUFFICES ASSUME Inv, CollectorNext PROVE Inv' OBVIOUS
<1>1. CASE OnLine
  <2>1. ASSUME Start \/ Booted \/ Grabbed \/ BoardMoves \/ Watchdog PROVE Inv'
    <3>1. memory' = memory /\ file' = file /\ told' = told
      BY <2>1 DEF Start, Booted, Grabbed, BoardMoves, Watchdog
    <3>2. pc' = pc \/ (pc' \in {"boot", "load"} /\ pc \in {"down", "boot"}) \/ (pc = "grab" /\ pc' = "prompt")
      BY <2>1 DEF Start, Booted, Grabbed, BoardMoves, Watchdog
    <3> QED BY <3>1, <3>2, GoesOn
  <2>2. ASSUME NEW n, Answers(n) PROVE Inv'
    <3>1. memory' = memory /\ file' = file /\ told' = told /\ pc' = pc BY <2>2 DEF Answers
    <3> QED BY <3>1, GoesOn
  <2>3. ASSUME Deadline \/ \E n \in 0..Resends+1 : TimesOut(n) PROVE Inv'
    BY <2>3, Ends DEF Deadline, TimesOut, Calling
  <2> QED BY <1>1, <2>1, <2>2, <2>3 DEF OnLine
<1>2. CASE OnFile
  BY <1>2, Loaded, LineAppended, SampleSaved, Rewriting, NextCapture DEF OnFile
<1>3. CASE OnKey
  <2>1. ASSUME Quit PROVE Inv' BY <2>1, Ends DEF Quit
  <2> QED BY <1>3, <2>1, Labelled, Undone, NextCapture DEF OnKey
<1> QED BY <1>1, <1>2, <1>3, Killed DEF CollectorNext

LEMMA Stutters == Inv /\ UNCHANGED collectorVars => Inv'
<1> SUFFICES ASSUME Inv, UNCHANGED collectorVars PROVE Inv' OBVIOUS
<1>1. memory' = memory /\ file' = file /\ told' = told /\ pc' = pc BY DEF collectorVars
<1> QED BY <1>1, GoesOn

LEMMA Implied == Inv => SamplesKept
<1> SUFFICES ASSUME Inv PROVE SamplesKept OBVIOUS
<1>1. pc \in {"grab", "prompt"} => /\ file = [lines |-> kept, torn |-> FALSE] /\ records = kept
                                  /\ n_face = Count(kept, 1) /\ n_none = Count(kept, 0)
  BY DEF Inv, InvStep, Counted, File
<1>2. pc # "rewrite" /\ ~ spoilt => file \in {[lines |-> s, torn |-> FALSE] : s \in {kept, asked}}
  BY DEF Inv, File
<1> QED BY <1>1, <1>2 DEF SamplesKept

-----------------------------------------------------------------------------
\* collect_samples.py: whatever fails and whenever it is killed, the list,
\* the counts and the file are what the operator was told, unless a kill
\* fell into the rewriting of the file.
THEOREM CollectorKeepsSamples == CollectorSpec => []SamplesKept
<1>1. Inv /\ [CollectorNext]_collectorVars => Inv' BY Steps, Stutters
<1> QED BY Initially, Implied, <1>1, PTL DEF CollectorSpec

\* The same with train_tm.py and roi_tm at work on the file.
THEOREM PipelineKeepsSamples == PipelineSpec => []SamplesKept
<1>1. PipelineInit => Init BY DEF PipelineInit
<1>2. [PipelineNext]_pipelineVars => [CollectorNext]_collectorVars
  BY DEF PipelineNext, Collects, load_samples, Fit, Export, Classify, pipelineVars
<1>3. Inv /\ [CollectorNext]_collectorVars => Inv' BY Steps, Stutters
<1> QED BY Initially, Implied, <1>1, <1>2, <1>3, PTL DEF PipelineSpec

-----------------------------------------------------------------------------
(* A sample is of one capture: what the operations do *)

\* Operations that keep the board's address a number.
Modest(op) ==
  \/ op.fn = "wait"
  \/ op.fn = "read" /\ op.addr \in {REG_GRAB_DATA_HI, REG_GRAB_DATA_LO} /\ op.count = 1
  \/ op.fn = "write" /\ op.value \in Nat

LEMMA DataRead ==
  ASSUME NEW d, NEW a \in {REG_GRAB_DATA_HI, REG_GRAB_DATA_LO}, NEW op,
         op.fn = "read", op.addr = a, op.count = 1
  PROVE  /\ Execute(d, op)[2] = d
         /\ a = REG_GRAB_DATA_HI => Execute(d, op)[1] = <<d.data[2]>>
<1>1. /\ ~ (a >= STREAM_BASE) /\ ~ (a = REG_OSD_DATA \/ a >= OSD_STREAM_BASE) /\ a \in Nat
      /\ a = REG_GRAB_DATA_HI => a \notin CamRegs /\ a \notin {REG_GRAB, REG_BOOT_STATUS} /\ a # REG_GRAB_DATA_LO
                                  /\ a # REG_OSD_CTRL
  BY CamLow DEF REG_GRAB_DATA_HI, REG_GRAB_DATA_LO, REG_GRAB, REG_BOOT_STATUS, REG_OSD_DATA, STREAM_BASE,
                OSD_STREAM_BASE, REG_OSD_CTRL
<1>2. Execute(d, op) = <<[i \in 1..1 |-> ReadOne(d, a + i - 1)], d>>
  <2>1. Execute(d, op) = ReadRegs(d, a, 1) BY DEF Execute
  <2>2. QED BY <1>1, <2>1 DEF ReadRegs
<1>3. [i \in 1..1 |-> ReadOne(d, a + i - 1)] = <<ReadOne(d, a)>>
  <2>1. \A i \in 1..1 : a + i - 1 = a BY <1>1
  <2>2. QED BY <2>1
<1>4. a = REG_GRAB_DATA_HI => ReadOne(d, a) = d.data[2] BY <1>1 DEF ReadOne
<1>5. QED BY <1>2, <1>3, <1>4

LEMMA ModestSettles ==
  ASSUME NEW d, Settled(d), NEW op, Modest(op), op.fn # "wait"
  PROVE  Settled(Execute(d, op)[2]) /\ Access(d, Execute(d, op)[2])
<1>1. CASE op.fn = "read"
  <2>1. op.addr \in {REG_GRAB_DATA_HI, REG_GRAB_DATA_LO} /\ op.count = 1 BY <1>1 DEF Modest
  <2>2. Execute(d, op)[2] = d BY <1>1, <2>1, DataRead
  <2>3. QED BY <2>2 DEF Settled, Access
<1>2. CASE op.fn = "write" /\ op.value \in Nat
  <2>1. Execute(d, op)[2] = WriteReg(d, op.addr, op.value) BY <1>2 DEF Execute
  <2>2. QED BY <1>2, <2>1, WriteAccess DEF Settled
<1>3. QED BY <1>1, <1>2 DEF Modest

\* However often it is executed before it is answered, or not answered.
LEMMA ModestAnswer ==
  ASSUME NEW d, Settled(d), NEW op, Modest(op), NEW n \in Nat \ {0}
  PROVE  Settled(Answered(d, op, n)[2]) /\ Access(d, Answered(d, op, n)[2])
<1>1. CASE op.fn = "wait" BY <1>1 DEF Answered, Settled, Access
<1>2. CASE op.fn # "wait"
  <2>1. PICK U : /\ d \in U
                 /\ \A V \in SUBSET U :
                      d \in V /\ (\A x \in V : Execute(x, op)[2] \in U => Execute(x, op)[2] \in V)
                      => \E x \in V : Answered(d, op, n) = Execute(x, op)
    BY <1>2, Often
  <2> DEFINE V == {x \in U : Settled(x) /\ Access(d, x)}
  <2>2. d \in V BY <2>1 DEF Settled, Access
  <2>3. ASSUME NEW x, Settled(x), Access(d, x)
        PROVE  Settled(Execute(x, op)[2]) /\ Access(d, Execute(x, op)[2])
    BY <1>2, <2>3, ModestSettles DEF Access
  <2>4. PICK x \in V : Answered(d, op, n) = Execute(x, op) BY <2>1, <2>2, <2>3
  <2>5. QED BY <2>3, <2>4
<1>3. QED BY <1>1, <1>2

LEMMA ModestAfter ==
  ASSUME NEW d, Settled(d), NEW op, Modest(op), NEW n \in Nat, op.fn = "wait" => n = 0
  PROVE  Settled(After(d, op, n)) /\ Access(d, After(d, op, n))
<1>1. CASE n = 0 BY <1>1, AtOnce DEF Settled, Access
<1>2. CASE n # 0
  <2>1. Answered(d, op, n + 1) = Execute(After(d, op, n), op) BY <1>2 DEF Answered
  <2> DEFINE Chain(e, o, m, f) == /\ f[0] = e
                                  /\ \A i \in Nat : i < m => f[i+1] = Execute(f[i], o)[2]
                                  /\ After(e, o, m) = f[m]
  <2>2. PICK f : Chain(d, op, n, f)
    <3>1. n \in Nat OBVIOUS
    <3>2. \A e, o : \A m \in Nat : \E f : Chain(e, o, m, f) BY AfterRuns
    <3> HIDE DEF Chain
    <3>3. QED BY <3>1, <3>2
  <2> DEFINE N == {i \in Nat : i <= n => Settled(f[i]) /\ Access(d, f[i])}
  <2>3. 0 \in N BY <2>2 DEF Settled, Access
  <2>4. ASSUME NEW i \in Nat, i \in N PROVE i + 1 \in N
    <3>1. SUFFICES ASSUME i + 1 <= n PROVE Settled(f[i+1]) /\ Access(d, f[i+1]) OBVIOUS
    <3>2. i < n /\ Settled(f[i]) /\ Access(d, f[i]) BY <2>4, <3>1
    <3>3. QED BY <1>2, <2>2, <3>2, ModestSettles DEF Access
  <2> HIDE DEF N
  <2>5. Nat \subseteq N BY <2>3, <2>4, Induction
  <2>6. QED BY <2>2, <2>5 DEF N
<1>3. QED BY <1>1, <1>2

\* Execute of the writes of psram_read.
LEMMA CellWrites ==
  ASSUME NEW d, NEW v
  PROVE  /\ Execute(d, WriteSingle(REG_GRAB_ADDR_LO, v))[2] = [d EXCEPT !.addr = @ - (@ % ADDR_LO_SPAN) + v]
         /\ Execute(d, WriteSingle(REG_GRAB_ADDR_HI, v))[2] = [d EXCEPT !.addr = v * ADDR_LO_SPAN + (@ % ADDR_LO_SPAN)]
         /\ Execute(d, WriteSingle(REG_GRAB, 2))[2] = ReadBurst(d, d.addr)
<1>1. {REG_GRAB_ADDR_LO, REG_GRAB_ADDR_HI, REG_GRAB} \cap CamRegs = {}
  BY CamLow DEF REG_GRAB, REG_GRAB_ADDR_LO, REG_GRAB_ADDR_HI
<1>2. /\ WriteReg(d, REG_GRAB_ADDR_LO, v) = [d EXCEPT !.addr = @ - (@ % ADDR_LO_SPAN) + v]
      /\ WriteReg(d, REG_GRAB_ADDR_HI, v) = [d EXCEPT !.addr = v * ADDR_LO_SPAN + (@ % ADDR_LO_SPAN)]
      /\ WriteReg(d, REG_GRAB, 2) = ReadBurst(d, d.addr)
  <2> DEFINE lo == [d EXCEPT !.addr = @ - (@ % ADDR_LO_SPAN) + v]
             hi == [d EXCEPT !.addr = v * ADDR_LO_SPAN + (@ % ADDR_LO_SPAN)]
             burst == ReadBurst(d, d.addr)
  <2>1. WriteReg(d, REG_GRAB_ADDR_LO, v) = lo
    BY <1>1 DEF WriteReg, REG_GRAB, REG_GRAB_ADDR_LO, REG_GRAB_ADDR_HI, REG_STREAM, REG_REINIT,
                REG_OSD_CTRL, REG_OSD_ADDR, REG_OSD_DATA, REG_BOOT_DATA
  <2>2. WriteReg(d, REG_GRAB_ADDR_HI, v) = hi
    BY <1>1 DEF WriteReg, REG_GRAB, REG_GRAB_ADDR_LO, REG_GRAB_ADDR_HI, REG_STREAM, REG_REINIT,
                REG_OSD_CTRL, REG_OSD_ADDR, REG_OSD_DATA, REG_BOOT_DATA
  <2>3. WriteReg(d, REG_GRAB, 2) = burst
    BY <1>1 DEF WriteReg, REG_GRAB, REG_GRAB_ADDR_LO, REG_GRAB_ADDR_HI, REG_STREAM, REG_REINIT,
                REG_OSD_CTRL, REG_OSD_ADDR, REG_OSD_DATA, REG_BOOT_DATA
  <2>4. QED BY <2>1, <2>2, <2>3
<1>3. QED BY <1>2 DEF Execute, WriteSingle

\* The frame stays as it is.
Still(d, e) == Settled(e) /\ Film(e) = Film(d) /\ e.engine = d.engine

LEMMA AddressSet ==
  ASSUME NEW d, Settled(d), NEW a \in Nat
  PROVE  Still(d, [d EXCEPT !.addr = a]) /\ [d EXCEPT !.addr = a].addr = a
<1>1. /\ DOMAIN [d EXCEPT !.addr = a] = DOMAIN d /\ [d EXCEPT !.addr = a].addr = a
      /\ [d EXCEPT !.addr = a].engine = d.engine /\ [d EXCEPT !.addr = a].calib = d.calib
      /\ [d EXCEPT !.addr = a].shot = d.shot /\ [d EXCEPT !.addr = a].mem = d.mem
  BY DEF Settled, Shape, BoardFields
<1> DEFINE e == [d EXCEPT !.addr = a]
<1> HIDE DEF e
<1>2. Still(d, e) /\ e.addr = a BY <1>1 DEF e, Still, Settled, Shape, Film
<1>3. QED BY <1>2 DEF e

LEMMA StillStill ==
  ASSUME NEW d, NEW x, Still(d, x), NEW e, Still(x, e) PROVE Still(d, e)
BY DEF Still

LEMMA LowWritten ==
  ASSUME NEW d, Settled(d), NEW v \in Nat, v < ADDR_LO_SPAN, NEW n \in Nat \ {0}, NEW e,
         e = Answered(d, WriteSingle(REG_GRAB_ADDR_LO, v), n)[2]
  PROVE  Still(d, e) /\ e.addr % ADDR_LO_SPAN = v
<1> DEFINE op == WriteSingle(REG_GRAB_ADDR_LO, v)
<1>1. op.fn # "wait" BY DEF WriteSingle
<1>2. ASSUME NEW x, Still(d, x)
      PROVE  Still(d, Execute(x, op)[2]) /\ Execute(x, op)[2].addr % ADDR_LO_SPAN = v
  <2> DEFINE y == x.addr - (x.addr % ADDR_LO_SPAN) + v
  <2>1. y \in Nat /\ y % ADDR_LO_SPAN = v BY <1>2, AddressKept DEF Still, Settled
  <2>2. Execute(x, op)[2] = [x EXCEPT !.addr = y] BY CellWrites
  <2> HIDE DEF y, op
  <2>3. Settled(x) BY <1>2 DEF Still
  <2>4. Still(x, Execute(x, op)[2]) /\ Execute(x, op)[2].addr = y BY <2>1, <2>2, <2>3, AddressSet
  <2>5. QED BY <1>2, <2>1, <2>4, StillStill
<1>3. PICK U : /\ d \in U
               /\ \A V \in SUBSET U :
                    d \in V /\ (\A x \in V : Execute(x, op)[2] \in U => Execute(x, op)[2] \in V)
                    => \E x \in V : Answered(d, op, n) = Execute(x, op)
  <2> HIDE DEF op
  <2>1. QED BY <1>1, Often
<1> DEFINE V == {x \in U : Still(d, x)}
<1> HIDE DEF op
<1>4. d \in V BY <1>3 DEF Still
<1>5. PICK x \in V : Answered(d, op, n) = Execute(x, op) BY <1>2, <1>3, <1>4
<1>6. QED BY <1>2, <1>5 DEF op

LEMMA HighWritten ==
  ASSUME NEW d, Settled(d), NEW v \in Nat, NEW n \in Nat \ {0}, NEW e,
         e = Answered(d, WriteSingle(REG_GRAB_ADDR_HI, v), n)[2]
  PROVE  Still(d, e) /\ e.addr = v * ADDR_LO_SPAN + (d.addr % ADDR_LO_SPAN)
<1> DEFINE op == WriteSingle(REG_GRAB_ADDR_HI, v)
           low == d.addr % ADDR_LO_SPAN
           Like(x) == Still(d, x) /\ x.addr % ADDR_LO_SPAN = low
<1>1. op.fn # "wait" BY DEF WriteSingle
<1>2. ASSUME NEW x, Like(x)
      PROVE  Like(Execute(x, op)[2]) /\ Execute(x, op)[2].addr = v * ADDR_LO_SPAN + low
  <2> DEFINE y == v * ADDR_LO_SPAN + (x.addr % ADDR_LO_SPAN)
  <2>1. y \in Nat /\ y % ADDR_LO_SPAN = low /\ y = v * ADDR_LO_SPAN + low
    <3>1. x.addr \in Nat /\ x.addr % ADDR_LO_SPAN = low BY <1>2 DEF Still, Settled
    <3>2. QED BY <3>1, AddressKept
  <2>2. Execute(x, op)[2] = [x EXCEPT !.addr = y] BY CellWrites
  <2> HIDE DEF y, op, low
  <2>3. Settled(x) BY <1>2 DEF Still
  <2>4. Still(x, Execute(x, op)[2]) /\ Execute(x, op)[2].addr = y BY <2>1, <2>2, <2>3, AddressSet
  <2>5. QED BY <1>2, <2>1, <2>4, StillStill
<1>3. PICK U : /\ d \in U
               /\ \A V \in SUBSET U :
                    d \in V /\ (\A x \in V : Execute(x, op)[2] \in U => Execute(x, op)[2] \in V)
                    => \E x \in V : Answered(d, op, n) = Execute(x, op)
  <2> HIDE DEF op
  <2>1. QED BY <1>1, Often
<1> DEFINE V == {x \in U : Like(x)}
<1>4. d \in V BY <1>3 DEF Still
<1> HIDE DEF op, Like
<1>5. PICK x \in V : Answered(d, op, n) = Execute(x, op) BY <1>2, <1>3, <1>4
<1>6. Like(Execute(x, op)[2]) /\ Execute(x, op)[2].addr = v * ADDR_LO_SPAN + low BY <1>2, <1>5
<1>7. QED BY <1>5, <1>6 DEF op, Like

\* A burst of a captured frame is in the data registers as soon as it is asked for.
LEMMA BurstRead ==
  ASSUME NEW d, Settled(d), Captured(d), d.addr + 1 < FRAME_PIXELS, NEW n \in Nat \ {0}, NEW e,
         e = Answered(d, WriteSingle(REG_GRAB, 2), n)[2]
  PROVE  Still(d, e) /\ e.data[2] = <<d.shot, d.addr + 1>>
<1> DEFINE op == WriteSingle(REG_GRAB, 2)
           Like(x) == Still(d, x) /\ x.addr = d.addr
<1>1. op.fn # "wait" BY DEF WriteSingle
<1>2. ASSUME NEW x, Like(x)
      PROVE  Like(Execute(x, op)[2]) /\ Execute(x, op)[2].data[2] = <<d.shot, d.addr + 1>>
  <2> DEFINE y == [i \in 1..BURST |-> Pixel(x, x.addr + i - 1)]
  <2>1. x.engine = "idle" /\ x.calib /\ x.mem = d.mem /\ x.addr = d.addr /\ d.addr \in Nat
    BY <1>2 DEF Still, Settled, Film, Captured
  <2>2. y[2] = <<d.shot, d.addr + 1>>
    <3>1. 2 \in 1..BURST BY RegionAssumption, BurstAssumption
    <3>2. y[2] = Pixel(x, d.addr + 1)
      <4>1. x.addr + 2 - 1 = d.addr + 1 BY <2>1
      <4>2. y[2] = Pixel(x, x.addr + 2 - 1) BY <3>1
      <4>3. QED BY <4>1, <4>2
    <3>3. PICK j \in 0..FRAME_PIXELS-1 : j = d.addr + 1 BY <2>1, StreamAssumption
    <3>4. Pixel(x, j) = <<d.mem[j], j>> BY <2>1, <3>3, StreamAssumption DEF Pixel
    <3>5. d.mem[j] = d.shot BY <3>3 DEF Captured
    <3>6. QED BY <3>2, <3>3, <3>4, <3>5
  <2>3. Execute(x, op)[2] = ReadBurst(x, x.addr) BY CellWrites
  <2> DEFINE e1 == ReadBurst(x, x.addr)
  <2>4. e1 = [x EXCEPT !.addr = x.addr, !.busy = FALSE, !.data = y] BY <2>1 DEF ReadBurst
  <2> HIDE DEF y, op
  <2>5. e1.addr = x.addr /\ e1.data = y BY <1>2, <2>4 DEF Still, Settled, Shape, BoardFields
  <2>6. Shape(e1) /\ Film(e1) = Film(x) /\ e1.engine = x.engine BY <1>2, ShapeRead DEF Still, Settled
  <2> HIDE DEF e1
  <2>7. Still(x, e1) BY <1>2, <2>1, <2>5, <2>6 DEF Still, Settled, Film
  <2>8. Still(d, e1) BY <1>2, <2>7, StillStill
  <2>9. QED BY <2>1, <2>2, <2>3, <2>5, <2>8 DEF e1
<1>3. PICK U : /\ d \in U
               /\ \A V \in SUBSET U :
                    d \in V /\ (\A x \in V : Execute(x, op)[2] \in U => Execute(x, op)[2] \in V)
                    => \E x \in V : Answered(d, op, n) = Execute(x, op)
  <2> HIDE DEF op
  <2>1. QED BY <1>1, Often
<1> DEFINE V == {x \in U : Like(x)}
<1>4. d \in V BY <1>3 DEF Still
<1> HIDE DEF op, Like
<1>5. PICK x \in V : Answered(d, op, n) = Execute(x, op) BY <1>2, <1>3, <1>4
<1>6. Like(Execute(x, op)[2]) /\ Execute(x, op)[2].data[2] = <<d.shot, d.addr + 1>> BY <1>2, <1>5
<1>7. QED BY <1>5, <1>6 DEF op, Like

\* Its words are read without a change.
LEMMA DataAnswer ==
  ASSUME NEW d, NEW a \in {REG_GRAB_DATA_HI, REG_GRAB_DATA_LO}, NEW n \in Nat \ {0}, NEW r,
         r = Answered(d, ReadHolding(a, 1), n)
  PROVE  r[2] = d /\ (a = REG_GRAB_DATA_HI => r[1] = <<d.data[2]>>)
<1> DEFINE op == ReadHolding(a, 1)
<1>1. op.fn = "read" /\ op.addr = a /\ op.count = 1 BY DEF ReadHolding
<1> HIDE DEF op
<1>2. PICK U : /\ d \in U
               /\ \A V \in SUBSET U :
                    d \in V /\ (\A x \in V : Execute(x, op)[2] \in U => Execute(x, op)[2] \in V)
                    => \E x \in V : Answered(d, op, n) = Execute(x, op)
  <2>1. op.fn # "wait" BY <1>1
  <2>2. QED BY <2>1, Often
<1>3. Execute(d, op)[2] = d /\ (a = REG_GRAB_DATA_HI => Execute(d, op)[1] = <<d.data[2]>>)
  BY <1>1, DataRead
<1>4. Answered(d, op, n) = Execute(d, op)
  <2>1. {d} \in SUBSET U /\ d \in {d} /\ \A x \in {d} : Execute(x, op)[2] \in {d} BY <1>2, <1>3
  <2>2. QED BY <1>2, <2>1
<1>5. QED BY <1>3, <1>4 DEF op

-----------------------------------------------------------------------------
(* The programs of the collector *)

LEMMA CellProgram ==
  ASSUME NEW a
  PROVE  /\ Len(psram_read(a)) = 6
         /\ psram_read(a)[1] = WriteSingle(REG_GRAB_ADDR_LO, a % ADDR_LO_SPAN)
         /\ psram_read(a)[2] = WriteSingle(REG_GRAB_ADDR_HI, a \div ADDR_LO_SPAN)
         /\ psram_read(a)[3] = WriteSingle(REG_GRAB, 2)
         /\ psram_read(a)[4] = WaitIdle(REG_GRAB)
         /\ psram_read(a)[5] = ReadHolding(REG_GRAB_DATA_HI, 1)
         /\ psram_read(a)[6] = ReadHolding(REG_GRAB_DATA_LO, 1)
BY DEF psram_read

LEMMA SixSeq ==
  ASSUME NEW S, NEW a \in S, NEW b \in S, NEW c \in S, NEW d \in S, NEW e \in S, NEW f \in S
  PROVE  <<a, b, c, d, e, f>> \in Seq(S)
OBVIOUS

LEMMA SixEach ==
  ASSUME NEW S, NEW s \in Seq(Seq(S)), Len(s) # 0, \A k \in 1..Len(s) : Len(s[k]) = 6
  PROVE  /\ Len(FlattenSeq(s)) = 6 * Len(s)
         /\ \A k \in 1..Len(s), j \in 1..6 : FlattenSeq(s)[6 * (k - 1) + j] = s[k][j]
<1> DEFINE off == [k \in 0..Len(s) |-> 6 * k]
<1>1. PICK l \in Nat \ {0} : l = Len(s) OBVIOUS
<1>2. off[0] = 0 /\ off[l] = 6 * l /\ \A k \in 1..l : off[k-1] = 6 * (k - 1) /\ off[k] = 6 * k
  BY <1>1
<1>3. \A k \in 1..Len(s) : off[k] = off[k-1] + Len(s[k])
  <2> SUFFICES ASSUME NEW k \in 1..l PROVE off[k] = off[k-1] + Len(s[k]) BY <1>1
  <2> HIDE DEF off
  <2>1. Len(s[k]) = 6 BY <1>1
  <2>2. 6 * k = 6 * (k - 1) + 6 BY <1>1
  <2>3. QED BY <1>2, <2>1, <2>2
<1> HIDE DEF off
<1>4. off[0] = 0 BY <1>2
<1>5. Len(s) # 0 OBVIOUS
<1>6. s \in Seq(Seq(S)) OBVIOUS
<1>7. /\ off[Len(s)] \in Nat /\ Len(FlattenSeq(s)) = off[Len(s)]
      /\ \A k \in 1..Len(s) :
           /\ off[k-1] \in Nat
           /\ \A i \in 1..Len(s[k]) : /\ off[k-1] + i \in 1..off[Len(s)]
                                      /\ FlattenSeq(s)[off[k-1] + i] = s[k][i]
  BY <1>3, <1>4, <1>5, <1>6, FlattenOffsets, SMT
<1>8. Len(FlattenSeq(s)) = 6 * Len(s) BY <1>1, <1>2, <1>7
<1>9. ASSUME NEW k \in 1..Len(s), NEW j \in 1..6 PROVE FlattenSeq(s)[6 * (k - 1) + j] = s[k][j]
  <2>1. off[k-1] = 6 * (k - 1) BY <1>1, <1>2
  <2>2. Len(s[k]) = 6 OBVIOUS
  <2>3. FlattenSeq(s)[off[k-1] + j] = s[k][j] BY <1>7, <2>2
  <2>4. QED BY <2>1, <2>3
<1>10. QED BY <1>8, <1>9

\* Where the operations of a cell are in the program.
LEMMA RegionProgram ==
  /\ Len(grab_roi) = 2 + 6 * GridCells
  /\ grab_roi[1] = WriteSingle(REG_GRAB, 1) /\ grab_roi[2] = WaitIdle(REG_GRAB)
  /\ \A k \in 1..GridCells, j \in 1..6 : grab_roi[2 + 6 * (k - 1) + j] = psram_read(CellAddr(k))[j]
<1> DEFINE s == [k \in 1..GridCells |-> psram_read(CellAddr(k))]
           Ops == {psram_read(CellAddr(k))[j] : k \in 1..GridCells, j \in 1..6}
           flat == FlattenSeq(s)
           head == <<WriteSingle(REG_GRAB, 1), WaitIdle(REG_GRAB)>>
<1>1. GridCells \in Nat \ {0} BY RegionAssumption
<1>2. ASSUME NEW k \in 1..GridCells PROVE psram_read(CellAddr(k)) \in Seq(Ops)
  <2> DEFINE p == psram_read(CellAddr(k))
  <2>1. p[1] \in Ops /\ p[2] \in Ops /\ p[3] \in Ops /\ p[4] \in Ops /\ p[5] \in Ops /\ p[6] \in Ops OBVIOUS
  <2>2. p = <<p[1], p[2], p[3], p[4], p[5], p[6]>> BY DEF psram_read
  <2> HIDE DEF p, Ops
  <2>3. <<p[1], p[2], p[3], p[4], p[5], p[6]>> \in Seq(Ops) BY <2>1, SixSeq, Zenon
  <2>4. p \in Seq(Ops) BY <2>2, <2>3, Zenon
  <2>5. QED BY <2>4 DEF p
<1> HIDE DEF Ops
<1>3. s \in Seq(Seq(Ops)) /\ Len(s) = GridCells
  <2> DEFINE SeqM == Seq(Ops)
  <2>1. \A k \in 1..GridCells : psram_read(CellAddr(k)) \in SeqM BY <1>2
  <2> HIDE DEF SeqM
  <2>2. s \in Seq(SeqM) /\ Len(s) = GridCells BY <1>1, <2>1
  <2>3. QED BY <2>2 DEF SeqM
<1>4. \A k \in 1..GridCells : s[k] = psram_read(CellAddr(k)) /\ Len(s[k]) = 6 BY CellProgram
<1> HIDE DEF s
<1>8. /\ Len(flat) = 6 * GridCells
      /\ \A k \in 1..GridCells, j \in 1..6 : flat[6 * (k - 1) + j] = s[k][j]
  <2>1. s \in Seq(Seq(Ops)) BY <1>3
  <2>2. Len(s) # 0 BY <1>1, <1>3
  <2>3. \A k \in 1..Len(s) : Len(s[k]) = 6 BY <1>3, <1>4
  <2>4. /\ Len(flat) = 6 * Len(s)
        /\ \A k \in 1..Len(s), j \in 1..6 : flat[6 * (k - 1) + j] = s[k][j]
    BY <2>1, <2>2, <2>3, SixEach, Zenon
  <2>5. QED BY <1>3, <2>4
<1>9. flat \in Seq(Ops) BY <1>3, FlattenType
<1>10. grab_roi = head \o flat BY DEF grab_roi, s
<1> HIDE DEF flat
<1>11. /\ head \in Seq({head[1], head[2]}) /\ Len(head) = 2 /\ Len(flat) = 6 * GridCells
       /\ flat \in Seq(Ops)
  BY <1>8, <1>9
<1>12. /\ Len(grab_roi) = 2 + 6 * GridCells /\ grab_roi[1] = head[1] /\ grab_roi[2] = head[2]
       /\ \A i \in 1..6*GridCells : grab_roi[2 + i] = flat[i]
  <2> HIDE DEF head
  <2>1. PICK S : head \in Seq(S) /\ flat \in Seq(S)
    <3>1. head \in Seq({head[1], head[2]} \cup Ops) /\ flat \in Seq({head[1], head[2]} \cup Ops) BY <1>11
    <3>2. QED BY <3>1
  <2>2. PICK l \in Nat : l = Len(flat) BY <2>1
  <2>3. Len(head) = 2 BY <1>11
  <2> DEFINE both == head \o flat
  <2>8. /\ Len(both) = Len(head) + Len(flat)
        /\ \A i \in 1..Len(head) + Len(flat) : both[i] = IF i <= Len(head) THEN head[i] ELSE flat[i - Len(head)]
    BY <2>1, ConcatProperties
  <2> HIDE DEF both
  <2>4. Len(both) = 2 + l BY <2>2, <2>3, <2>8
  <2>5. both[1] = head[1] /\ both[2] = head[2] BY <2>2, <2>3, <2>8
  <2>6. \A i \in 1..l : both[2 + i] = flat[i]
    <3>2. ASSUME NEW i \in 1..l PROVE both[2 + i] = flat[i]
      <4>1. PICK n \in Nat : n = 2 + i OBVIOUS
      <4>2. n \in 1..Len(head) + Len(flat) /\ ~ (n <= Len(head)) /\ n - Len(head) = i BY <2>2, <2>3, <4>1
      <4>3. both[n] = flat[i] BY <2>8, <4>2
      <4>4. QED BY <4>1, <4>3
    <3>3. QED BY <3>2
  <2>7. QED BY <1>10, <1>11, <2>2, <2>4, <2>5, <2>6 DEF both
<1>13. ASSUME NEW k \in 1..GridCells, NEW j \in 1..6
       PROVE  grab_roi[2 + 6 * (k - 1) + j] = psram_read(CellAddr(k))[j]
  <2>1. flat[6 * (k - 1) + j] = psram_read(CellAddr(k))[j] BY <1>4, <1>8
  <2>2. PICK i \in 1..6*GridCells : i = 6 * (k - 1) + j BY <1>1
  <2>3. 2 + 6 * (k - 1) + j = 2 + i BY <2>2
  <2>4. QED BY <1>12, <2>1, <2>2, <2>3
<1>14. QED BY <1>12, <1>13

LEMMA CellModest ==
  ASSUME NEW a \in Nat, NEW j \in 1..6
  PROVE  Modest(psram_read(a)[j])
<1>1. a % ADDR_LO_SPAN \in Nat /\ a \div ADDR_LO_SPAN \in Nat
  <2>1. PICK b \in Nat \ {0} : b = ADDR_LO_SPAN BY SpanAssumption
  <2>2. a % b \in 0..b-1 /\ a \div b \in Nat BY Quotient
  <2>3. QED BY <2>1, <2>2
<1> DEFINE p == psram_read(a)
<1>2. /\ p[1] = WriteSingle(REG_GRAB_ADDR_LO, a % ADDR_LO_SPAN)
      /\ p[2] = WriteSingle(REG_GRAB_ADDR_HI, a \div ADDR_LO_SPAN)
      /\ p[3] = WriteSingle(REG_GRAB, 2) /\ p[4] = WaitIdle(REG_GRAB)
      /\ p[5] = ReadHolding(REG_GRAB_DATA_HI, 1) /\ p[6] = ReadHolding(REG_GRAB_DATA_LO, 1)
  BY DEF psram_read
<1> HIDE DEF p
<1>4. Modest(p[1]) /\ Modest(p[2]) /\ Modest(p[3])
  <2>1. ASSUME NEW b, NEW w \in Nat PROVE Modest(WriteSingle(b, w)) BY DEF Modest, WriteSingle
  <2>2. QED BY <1>1, <1>2, <2>1
<1>5. Modest(p[4]) BY <1>2 DEF Modest, WaitIdle
<1>6. Modest(p[5]) /\ Modest(p[6]) BY <1>2 DEF Modest, ReadHolding
<1>7. \A i \in 1..6 : Modest(p[i]) BY <1>4, <1>5, <1>6
<1>8. QED BY <1>7 DEF p

LEMMA RegionModest == \A i \in 1..Len(grab_roi) : Modest(grab_roi[i])
<1> SUFFICES ASSUME NEW i \in 1..2 + 6 * GridCells PROVE Modest(grab_roi[i]) BY RegionProgram
<1>1. CASE i \in {1, 2} BY <1>1, RegionProgram DEF Modest, WriteSingle, WaitIdle
<1>2. CASE i > 2
  <2> DEFINE q == (i - 3) \div 6
             r == (i - 3) % 6
  <2>1. i - 3 \in Nat BY <1>2
  <2>2. q \in Nat /\ r \in 0..5 /\ i - 3 = 6 * q + r BY <2>1
  <2> HIDE DEF q, r
  <2>3. PICK k \in 1..GridCells, j \in 1..6 : i = 2 + 6 * (k - 1) + j
    <3>1. q + 1 \in 1..GridCells /\ r + 1 \in 1..6 /\ i = 2 + 6 * ((q + 1) - 1) + (r + 1)
      BY <2>2, RegionAssumption
    <3>2. QED BY <3>1
  <2>4. grab_roi[i] = psram_read(CellAddr(k))[j] BY <2>3, RegionProgram
  <2>5. CellAddr(k) \in Nat BY RegionAssumption
  <2>6. QED BY <2>4, <2>5, CellModest
<1>3. QED BY <1>1, <1>2

LEMMA BootModest == \A i \in 1..Len(serv_boot_load(Overlay)) : Modest(serv_boot_load(Overlay)[i])
<1> DEFINE M == {op \in {WaitIdle(REG_BOOT_STATUS)} \cup {WriteSingle(a, w) : a \in {REG_MCU_RESET, REG_BOOT_LEN, REG_BOOT_DATA}, w \in Nat} : Modest(op)}
           s == [i \in 1..Len(Overlay) |-> <<WaitIdle(REG_BOOT_STATUS), WriteSingle(REG_BOOT_DATA, Overlay[i])>>]
<1>1. Overlay \in Seq(Nat) /\ Len(Overlay) \in Nat BY OverlayAssumption
<1>2. WaitIdle(REG_BOOT_STATUS) \in M BY DEF WaitIdle, Modest
<1>3. \A a \in {REG_MCU_RESET, REG_BOOT_LEN, REG_BOOT_DATA}, w \in Nat : WriteSingle(a, w) \in M
  BY DEF WriteSingle, Modest
<1>4. \A op \in M : Modest(op) OBVIOUS
<1> HIDE DEF M
<1>5. s \in Seq(Seq(M))
  <2> DEFINE SeqM == Seq(M)
  <2>1. \A i \in 1..Len(Overlay) : <<WaitIdle(REG_BOOT_STATUS), WriteSingle(REG_BOOT_DATA, Overlay[i])>> \in SeqM
    BY <1>1, <1>2, <1>3
  <2> HIDE DEF SeqM
  <2>2. s \in Seq(SeqM) BY <1>1, <2>1
  <2>3. QED BY <2>2 DEF SeqM
<1>6. FlattenSeq(s) \in Seq(M) BY <1>5, FlattenType
<1>7. serv_mcu_reset \in Seq(M) /\ <<WriteSingle(REG_BOOT_LEN, Len(Overlay))>> \in Seq(M)
  BY <1>1, <1>3 DEF serv_mcu_reset
<1>8. serv_boot_load(Overlay) = serv_mcu_reset \o <<WriteSingle(REG_BOOT_LEN, Len(Overlay))>> \o FlattenSeq(s)
  BY DEF serv_boot_load
<1> HIDE DEF s
<1>9. serv_boot_load(Overlay) \in Seq(M) BY <1>6, <1>7, <1>8
<1>10. QED BY <1>4, <1>9

-----------------------------------------------------------------------------
(* What the board holds for a cell *)

\* What the board holds for the word at a, after j operations of psram_read.
Held(d, a, j) ==
  /\ j = 1 => (d.addr % ADDR_LO_SPAN) = (a % ADDR_LO_SPAN)
  /\ j = 2 => d.addr = a
  /\ j \in {3, 4} => d.data[2] = <<d.shot, a + 1>>

LEMMA StillHeld ==
  ASSUME NEW d, Captured(d), NEW e, Still(d, e)
  PROVE  Settled(e) /\ Captured(e) /\ e.shot = d.shot
BY DEF Captured, Still, Film

\* Operation j of psram_read(a) on a captured frame, and what it answers.
CellReady(d, a, j) == Settled(d) /\ Captured(d) /\ a \in Nat /\ a + 1 < FRAME_PIXELS /\ Held(d, a, j - 1)
CellDone(d, a, j, r) ==
  /\ Settled(r[2]) /\ Captured(r[2]) /\ r[2].shot = d.shot
  /\ j <= 4 => Held(r[2], a, j)
  /\ j = 5 => r[1] = <<<<d.shot, a + 1>>>>

LEMMA CellStep ==
  ASSUME NEW d, NEW a, NEW j \in 1..6, CellReady(d, a, j), NEW n \in Nat \ {0}, NEW r,
         r = Answered(d, psram_read(a)[j], n)
  PROVE  CellDone(d, a, j, r)
<1> USE DEF CellReady, CellDone
<1> DEFINE e == r[2]
<1>1. PICK low \in Nat, high \in Nat :
        /\ low = a % ADDR_LO_SPAN /\ high = a \div ADDR_LO_SPAN /\ low < ADDR_LO_SPAN
        /\ high * ADDR_LO_SPAN + low = a
  <2>1. PICK b \in Nat \ {0} : b = ADDR_LO_SPAN BY SpanAssumption
  <2>2. a % b \in 0..b-1 /\ a \div b \in Nat /\ a = b * (a \div b) + (a % b) BY Quotient
  <2>3. PICK q \in Nat, l \in 0..b-1 : q = a \div b /\ l = a % b /\ a = b * q + l BY <2>2
  <2>4. q * b + l = a /\ l < b /\ l \in Nat BY <2>3
  <2>5. QED BY <2>1, <2>3, <2>4
<1>2. CASE j = 1
  <2>1. psram_read(a)[j] = WriteSingle(REG_GRAB_ADDR_LO, low) BY <1>1, <1>2 DEF psram_read
  <2>2. Still(d, e) /\ (e.addr % ADDR_LO_SPAN) = low BY <1>1, <2>1, LowWritten
  <2> HIDE DEF e
  <2>3. Settled(e) /\ Captured(e) /\ e.shot = d.shot BY <2>2, StillHeld
  <2>4. Held(e, a, j) BY <1>1, <1>2, <2>2 DEF Held
  <2>5. QED BY <1>2, <2>3, <2>4 DEF e
<1>3. CASE j = 2
  <2>1. psram_read(a)[j] = WriteSingle(REG_GRAB_ADDR_HI, high) BY <1>1, <1>3 DEF psram_read
  <2>2. Still(d, e) /\ e.addr = high * ADDR_LO_SPAN + (d.addr % ADDR_LO_SPAN)
    BY <1>1, <2>1, HighWritten
  <2> HIDE DEF e
  <2>3. (d.addr % ADDR_LO_SPAN) = (a % ADDR_LO_SPAN) BY <1>3 DEF Held
  <2>4. e.addr = a BY <1>1, <2>2, <2>3
  <2>5. Settled(e) /\ Captured(e) /\ e.shot = d.shot BY <2>2, StillHeld
  <2>6. Held(e, a, j) BY <1>3, <2>4 DEF Held
  <2>7. QED BY <1>3, <2>5, <2>6 DEF e
<1>4. CASE j = 3
  <2>1. psram_read(a)[j] = WriteSingle(REG_GRAB, 2) BY <1>4 DEF psram_read
  <2>2. d.addr = a BY <1>4 DEF Held
  <2>3. Still(d, e) /\ e.data[2] = <<d.shot, d.addr + 1>> BY <2>1, <2>2, BurstRead
  <2> HIDE DEF e
  <2>4. Settled(e) /\ Captured(e) /\ e.shot = d.shot BY <2>3, StillHeld
  <2>5. Held(e, a, j) BY <1>4, <2>2, <2>3, <2>4 DEF Held
  <2>6. QED BY <1>4, <2>4, <2>5 DEF e
<1>5. CASE j = 4
  <2>1. psram_read(a)[j].fn = "wait" BY <1>5 DEF psram_read, WaitIdle
  <2>2. e = d BY <2>1 DEF Answered
  <2>3. Held(d, a, 4) BY <1>5 DEF Held
  <2>4. QED BY <1>5, <2>2, <2>3
<1>6. CASE j = 5
  <2>1. psram_read(a)[j] = ReadHolding(REG_GRAB_DATA_HI, 1) BY <1>6 DEF psram_read
  <2>2. e = d /\ r[1] = <<d.data[2]>> BY <2>1, DataAnswer
  <2>3. d.data[2] = <<d.shot, a + 1>> BY <1>6 DEF Held
  <2>4. QED BY <1>6, <2>2, <2>3
<1>7. CASE j = 6
  <2>1. psram_read(a)[j] = ReadHolding(REG_GRAB_DATA_LO, 1) BY <1>7 DEF psram_read
  <2>2. e = d BY <2>1, DataAnswer
  <2>3. QED BY <1>7, <2>2
<1>8. QED BY <1>2, <1>3, <1>4, <1>5, <1>6, <1>7

-----------------------------------------------------------------------------

\* How many operations of cell k are done after n of grab_roi, if it has been
\* begun, and where its answer is.
Place(n, k) == n - 2 - 6 * (k - 1)
Word(k) == 2 + 6 * (k - 1) + 5

LEMMA Places ==
  ASSUME NEW m \in Nat, NEW k \in 1..GridCells, NEW j \in 1..6, m + 1 = 2 + 6 * (k - 1) + j,
         NEW c \in 1..GridCells
  PROVE  /\ Place(m + 1, c) \in Int
         /\ c = k => /\ Place(m, c) = j - 1 /\ Place(m + 1, c) = j
                     /\ (j = 5 => Word(c) = m + 1) /\ (j = 6 => Word(c) \in 1..m)
         /\ c > k => Place(m + 1, c) <= 0
         /\ c < k => Place(m, c) >= 5 /\ Place(m + 1, c) > 6 /\ Word(c) \in 1..m
<1>1. PICK x \in Nat, y \in Nat : x = k - 1 /\ y = c - 1 BY RegionAssumption
<1>2. m = 1 + 6 * x + j /\ Place(m, c) = m - 2 - 6 * y /\ Place(m + 1, c) = m + 1 - 2 - 6 * y /\ Word(c) = 7 + 6 * y
  BY <1>1 DEF Place, Word
<1>3. (c = k => x = y) /\ (c > k => y >= x + 1) /\ (c < k => x >= y + 1) BY <1>1, RegionAssumption
<1>4. QED BY <1>2, <1>3

LEMMA NoPlace ==
  ASSUME NEW n \in 0..2, NEW k \in 1..GridCells
  PROVE  Place(n, k) \in Int /\ Place(n, k) <= 0
BY RegionAssumption DEF Place

\* What the board and the answers hold after n operations of grab_roi: the
\* capture that was armed is waited for, and the cells that were read are of it.
Filmed(d, g, s, n) ==
  /\ n = 1 => \/ d.busy /\ d.engine = "wait"
              \/ d.busy /\ d.engine = "capture" /\ d.shot > s
              \/ Captured(d) /\ d.shot > s
  /\ n >= 2 => Captured(d) /\ d.shot > s
  /\ \A k \in 1..GridCells :
       /\ Held(d, CellAddr(k), Place(n, k))
       /\ Place(n, k) >= 5 => g[Word(k)][1] = <<d.shot, CellAddr(k) + 1>>

SampleInv ==
  /\ Settled(board) /\ since \in Nat /\ since <= board.shot
  /\ IsSeq(got)
  /\ pc = "grab" /\ ~ odd => Filmed(board, got, since, Len(got))
  /\ SampleOfOneCapture

LEMMA SampleInit == Init => SampleInv
<1> SUFFICES ASSUME Init PROVE SampleInv OBVIOUS
<1>1. PICK serv \in BOOLEAN : board = PowerOn(TRUE, serv) BY DEF Init
<1>2. Shape(board) BY <1>1, PowerShapes
<1>3. board.calib /\ board.addr = 0 /\ board.shot = 0 BY <1>1 DEF PowerOn
<1>4. Settled(board) BY <1>2, <1>3 DEF Settled
<1>5. IsSeq(got) BY EmptySeq DEF Init, IsSeq
<1>6. pc = "down" /\ since = 0 /\ odd = FALSE BY DEF Init
<1>9. since \in Nat /\ since <= board.shot /\ pc # "grab" BY <1>3, <1>6
<1>7. SampleOfOneCapture BY <1>6 DEF SampleOfOneCapture
<1>8. QED BY <1>4, <1>5, <1>7, <1>9 DEF SampleInv

LEMMA SampleExits ==
  ASSUME SampleInv, Settled(board'), Exits
  PROVE  SampleInv'
<1>1. IsSeq(got)' BY EmptySeq DEF Exits, IsSeq
<1>2. 0 <= board'.shot /\ since' = 0 BY DEF Exits, Settled, Shape
<1>3. pc' = "down" /\ odd' = FALSE BY DEF Exits
<1>4. SampleOfOneCapture' BY <1>3 DEF SampleOfOneCapture
<1>5. QED BY <1>1, <1>2, <1>3, <1>4 DEF SampleInv

LEMMA SampleBegins ==
  ASSUME SampleInv, Capture
  PROVE  SampleInv'
<1>1. board' = board /\ since' = board.shot /\ pc' = "grab" /\ got' = <<>> /\ odd' = FALSE BY DEF Capture
<1>2. IsSeq(got)' BY <1>1, EmptySeq DEF IsSeq
<1>3. Settled(board') /\ board.shot \in Nat BY <1>1 DEF SampleInv, Settled, Shape
<1>4. Filmed(board', got', since', Len(got'))
  <2>1. Len(got') = 0 BY <1>1
  <2>2. QED BY <2>1, NoPlace DEF Filmed, Held
<1>7. since' <= board'.shot /\ since' \in Nat BY <1>1, <1>3
<1>5. SampleOfOneCapture' BY <1>1 DEF SampleOfOneCapture
<1>6. QED BY <1>2, <1>3, <1>4, <1>5, <1>7 DEF SampleInv

\* Steps that leave the line alone.
LEMMA SampleAside ==
  ASSUME SampleInv, UNCHANGED line, pc' # "grab", pc' # "prompt"
  PROVE  SampleInv'
BY DEF SampleInv, SampleOfOneCapture, line

LEMMA SampleRests ==
  ASSUME SampleInv, UNCHANGED line, pc' = pc
  PROVE  SampleInv'
<1>1. /\ board' = board /\ got' = got /\ roi' = roi /\ since' = since /\ odd' = odd BY DEF line
<1>2. QED BY <1>1 DEF SampleInv, SampleOfOneCapture

\* One more answer of grab_roi.
LEMMA FilmedAnswer ==
  ASSUME SampleInv, pc = "grab", ~ odd, NEW n \in Nat \ {0}, Calling,
         Op.fn = "wait" => ~ Status(board, Op.addr),
         ~ (Op.addr = REG_GRAB /\ Op.value = 1 /\ board.engine = "capture"),
         board' = Answered(board, Op, n)[2],
         got' = Append(got, Answered(board, Op, n)[1]), since' = since, board'.shot = board.shot
  PROVE  Filmed(board', got', since', Len(got'))
<1> DEFINE r == Answered(board, Op, n)
<1>1. PICK m \in Nat : m = Len(got) /\ m < 2 + 6 * GridCells
  <2>1. Calls = grab_roi BY DEF Calls
  <2>2. Len(got) \in Nat BY AppendSeq DEF SampleInv
  <2>3. Len(got) < 2 + 6 * GridCells BY <2>1, RegionProgram DEF Calling
  <2>4. QED BY <2>2, <2>3
<1>2. Op = grab_roi[m + 1]
  <2>1. Calls = grab_roi BY DEF Calls
  <2>2. QED BY <1>1, <2>1 DEF Op
<1>3. Len(got') = m + 1 /\ got'[m + 1] = r[1] /\ \A i \in 1..m : got'[i] = got[i]
  BY <1>1, AppendSeq DEF SampleInv
<1>4. Filmed(board, got, since, m) BY <1>1 DEF SampleInv
<1>5. Settled(board) /\ Shape(board) BY DEF SampleInv, Settled
<1>6. GridCells \in Nat \ {0} BY RegionAssumption
<1> HIDE DEF r
<1>7. CASE m = 0
  <2>1. Op = WriteSingle(REG_GRAB, 1) BY <1>2, <1>7, RegionProgram
  <2>2. Op.addr = REG_GRAB /\ Op.value = 1 BY <2>1 DEF WriteSingle
  <2>3. board'.busy /\ board'.engine = Asked(board) BY <1>5, <2>1, Armed
  <2>4. board'.busy /\ board'.engine = "wait" BY <1>5, <2>2, <2>3 DEF Asked, Settled, Shape
  <2>5. Len(got') = 1 BY <1>3, <1>7
  <2>6. QED BY <2>4, <2>5, NoPlace DEF Filmed, Held
<1>8. CASE m = 1
  <2>1. Op = WaitIdle(REG_GRAB) BY <1>2, <1>8, RegionProgram
  <2>2. Op.fn = "wait" /\ Op.addr = REG_GRAB BY <2>1 DEF WaitIdle
  <2>3. board' = board BY <2>2 DEF Answered
  <2>4. ~ board.busy
    <3>1. ~ Status(board, REG_GRAB) BY <2>2
    <3>2. QED BY <3>1 DEF Status, REG_GRAB, REG_BOOT_STATUS
  <2>5. Captured(board) /\ board.shot > since BY <1>4, <1>8, <2>4 DEF Filmed
  <2>6. Len(got') = 2 /\ board'.shot > since' BY <1>3, <1>8, <2>3, <2>5
  <2>7. Captured(board') BY <2>3, <2>5
  <2>8. QED BY <2>6, <2>7, NoPlace DEF Filmed, Held
<1>9. CASE m >= 2
  <2>1. PICK k \in 1..GridCells, j \in 1..6 : m + 1 = 2 + 6 * (k - 1) + j
    <3> DEFINE q == (m - 2) \div 6
               l == (m - 2) % 6
    <3>1. m - 2 \in Nat BY <1>9
    <3>2. q \in Nat /\ l \in 0..5 /\ m - 2 = 6 * q + l BY <3>1
    <3> HIDE DEF q, l
    <3>3. q + 1 \in 1..GridCells /\ l + 1 \in 1..6 /\ m + 1 = 2 + 6 * ((q + 1) - 1) + (l + 1)
      BY <1>1, <1>6, <3>2
    <3>4. QED BY <3>3
  <2> DEFINE a == CellAddr(k)
  <2>2. Op = psram_read(a)[j] BY <1>2, <2>1, RegionProgram
  <2>3. a \in Nat /\ a + 1 < FRAME_PIXELS BY RegionAssumption
  <2>4. Captured(board) /\ board.shot > since BY <1>4, <1>9 DEF Filmed
  <2>5. Place(m, k) = j - 1 BY <2>1, Places
  <2>6. Held(board, a, j - 1) BY <1>4, <2>5 DEF Filmed
  <2> HIDE DEF a
  <2>7. /\ Settled(r[2]) /\ Captured(r[2]) /\ r[2].shot = board.shot
        /\ j <= 4 => Held(r[2], a, j)
        /\ j = 5 => r[1] = <<<<board.shot, a + 1>>>>
    <3>1. r = Answered(board, psram_read(a)[j], n) BY <2>2 DEF r
    <3>2. CellReady(board, a, j) BY <1>5, <2>3, <2>4, <2>6 DEF CellReady
    <3>3. CellDone(board, a, j, r) BY <3>1, <3>2, CellStep, Zenon
    <3>4. QED BY <3>3 DEF CellDone
  <2> DEFINE e == board'
             g == got'
  <2>8. e = r[2] BY DEF r
  <2>9. g[m + 1] = r[1] /\ \A i \in 1..m : g[i] = got[i] BY <1>3
  <2> HIDE DEF e, g
  <2>10. ASSUME NEW c \in 1..GridCells
         PROVE  /\ Held(e, CellAddr(c), Place(m + 1, c))
                /\ Place(m + 1, c) >= 5 => g[Word(c)][1] = <<e.shot, CellAddr(c) + 1>>
    <3>6. /\ Place(m + 1, c) \in Int
          /\ c = k => /\ Place(m, c) = j - 1 /\ Place(m + 1, c) = j
                      /\ (j = 5 => Word(c) = m + 1) /\ (j = 6 => Word(c) \in 1..m)
          /\ c > k => Place(m + 1, c) <= 0
          /\ c < k => Place(m, c) >= 5 /\ Place(m + 1, c) > 6 /\ Word(c) \in 1..m
      BY <2>1, Places, Zenon
    <3>1. CASE c = k
      <4>1. Place(m + 1, c) = j /\ CellAddr(c) = a BY <3>1, <3>6 DEF a
      <4>2. CASE j <= 4 BY <2>7, <2>8, <4>1, <4>2
      <4>3. CASE j = 5
        <5>1. Word(c) = m + 1 BY <3>1, <3>6, <4>3
        <5>2. g[Word(c)][1] = <<e.shot, a + 1>> BY <2>7, <2>8, <2>9, <4>3, <5>1
        <5>3. QED BY <4>1, <4>3, <5>2 DEF Held
      <4>4. CASE j = 6
        <5>1. Word(c) \in 1..m /\ Place(m, c) >= 5 BY <3>1, <3>6, <4>4
        <5>2. got[Word(c)][1] = <<board.shot, CellAddr(c) + 1>> BY <1>4, <5>1 DEF Filmed
        <5>3. g[Word(c)][1] = <<e.shot, CellAddr(c) + 1>> BY <2>7, <2>8, <2>9, <5>1, <5>2
        <5>4. QED BY <4>1, <4>4, <5>3 DEF Held
      <4>5. QED BY <4>2, <4>3, <4>4
    <3>2. CASE c > k
      <4>1. Place(m + 1, c) <= 0 /\ Place(m + 1, c) \in Int BY <3>2, <3>6
      <4>2. QED BY <4>1 DEF Held
    <3>3. CASE c < k
      <4>1. Place(m, c) >= 5 /\ Place(m + 1, c) > 6 /\ Place(m + 1, c) \in Int /\ Word(c) \in 1..m
        BY <3>3, <3>6
      <4>2. Held(e, CellAddr(c), Place(m + 1, c)) BY <4>1 DEF Held
      <4>3. got[Word(c)][1] = <<board.shot, CellAddr(c) + 1>> BY <1>4, <4>1 DEF Filmed
      <4>4. QED BY <2>7, <2>8, <2>9, <4>1, <4>2, <4>3
    <3>4. c = k \/ c > k \/ c < k BY <1>6
    <3>5. QED BY <3>1, <3>2, <3>3, <3>4
  <2>11. m + 1 >= 2 /\ m + 1 # 1 BY <1>9
  <2>12. Captured(e) /\ e.shot > since BY <2>4, <2>7, <2>8
  <2>13. Filmed(e, g, since, m + 1) BY <2>10, <2>11, <2>12 DEF Filmed
  <2>14. QED BY <1>3, <2>13 DEF e, g
<1>10. QED BY <1>1, <1>7, <1>8, <1>9

-----------------------------------------------------------------------------
(* Every step keeps it *)

LEMMA OpModest == SampleInv /\ Calling => Modest(Op)
<1> SUFFICES ASSUME SampleInv, Calling PROVE Modest(Op) OBVIOUS
<1>1. PICK m \in Nat : m = Len(got) BY AppendSeq DEF SampleInv
<1>2. CASE pc = "boot"
  <2>1. Calls = serv_boot_load(Overlay) BY <1>2 DEF Calls
  <2>2. Op = serv_boot_load(Overlay)[m + 1] /\ m < Len(serv_boot_load(Overlay)) BY <1>1, <2>1 DEF Op, Calling
  <2>3. Len(serv_boot_load(Overlay)) \in Nat BY BootModest
  <2>4. m + 1 \in 1..Len(serv_boot_load(Overlay)) BY <2>2, <2>3
  <2>5. QED BY <2>2, <2>4, BootModest
<1>3. CASE pc = "grab"
  <2>1. Calls = grab_roi BY <1>3 DEF Calls
  <2>2. Op = grab_roi[m + 1] /\ m < Len(grab_roi) BY <1>1, <2>1 DEF Op, Calling
  <2>3. m + 1 \in 1..Len(grab_roi) BY <2>2, RegionProgram, RegionAssumption
  <2>4. QED BY <2>2, <2>3, RegionModest
<1>4. QED BY <1>2, <1>3 DEF Calling

LEMMA SampleAnswered ==
  ASSUME SampleInv, NEW n \in 1..Resends+1, Answers(n)
  PROVE  SampleInv'
<1>1. n \in Nat \ {0} BY ResendAssumption
<1>2. Calling /\ Modest(Op) BY OpModest DEF Answers
<1>3. board' = Answered(board, Op, n)[2] /\ got' = Append(got, Answered(board, Op, n)[1])
  BY DEF Answers
<1>4. /\ pc' = pc /\ roi' = roi /\ since' = since
      /\ odd' = (odd \/ (Op.addr = REG_GRAB /\ Op.value = 1 /\ board.engine = "capture"))
      /\ Op.fn = "wait" => ~ Status(board, Op.addr)
  BY DEF Answers
<1>5. Settled(board') /\ board'.shot = board.shot BY <1>1, <1>2, <1>3, ModestAnswer DEF SampleInv, Access
<1>6. IsSeq(got') BY <1>3, AppendSeq DEF SampleInv
<1>7. ASSUME pc' = "grab", ~ odd' PROVE Filmed(board', got', since', Len(got'))
  <2>1. pc = "grab" BY <1>4, <1>7
  <2>2. ~ odd BY <1>4, <1>7
  <2>3. ~ (Op.addr = REG_GRAB /\ Op.value = 1 /\ board.engine = "capture") BY <1>4, <1>7
  <2>4. QED BY <1>1, <1>2, <1>3, <1>4, <1>5, <2>1, <2>2, <2>3, FilmedAnswer
<1>8. pc' # "prompt" BY <1>2, <1>4 DEF Calling
<1>9. SampleOfOneCapture' BY <1>8 DEF SampleOfOneCapture
<1>10. since' \in Nat /\ since' <= board'.shot BY <1>4, <1>5 DEF SampleInv
<1>11. QED BY <1>5, <1>6, <1>7, <1>9, <1>10 DEF SampleInv

LEMMA SampleFails ==
  ASSUME SampleInv, Deadline \/ \E n \in 0..Resends+1 : TimesOut(n)
  PROVE  SampleInv'
<1>1. ASSUME Deadline PROVE SampleInv'
  <2>1. Exits /\ Settled(board') BY <1>1 DEF Deadline, SampleInv
  <2>2. QED BY <2>1, SampleExits
<1>2. ASSUME NEW n \in 0..Resends+1, TimesOut(n) PROVE SampleInv'
  <2>1. n \in Nat BY ResendAssumption
  <2>2. Exits /\ Modest(Op) /\ board' = After(board, Op, n) /\ (Op.fn = "wait" => n = 0)
    BY <1>2, OpModest DEF TimesOut
  <2>3. Settled(board') BY <2>1, <2>2, ModestAfter DEF SampleInv
  <2>4. QED BY <2>2, <2>3, SampleExits
<1>3. QED BY <1>1, <1>2

\* What the board does by itself is the capture that is waited for.
LEMMA FilmedMove ==
  ASSUME NEW d, Settled(d), NEW e \in BoardSteps(d), NEW g, NEW s \in Nat, s <= d.shot,
         NEW n \in Nat, Filmed(d, g, s, n)
  PROVE  Settled(e) /\ s <= e.shot /\ Filmed(e, g, s, n)
<1>1. Shape(d) BY DEF Settled
<1>2. /\ Shape(e) /\ e.shot >= d.shot /\ e.addr = d.addr
      /\ \/ /\ Film(e) = Film(d) /\ e.engine = d.engine /\ e.busy = d.busy /\ e.data = d.data
         \/ d.engine = "wait" /\ e.engine = "capture" /\ e.busy = d.busy /\ e.shot > d.shot
         \/ d.engine = "capture" /\ Captured(e) /\ e.shot = d.shot
  BY <1>1, BoardShapes
<1>3. Settled(e)
  <2>1. e.engine # "idle" => e.calib BY <1>2 DEF Shape
  <2>2. e.calib BY <1>2, <2>1 DEF Film, Captured, Settled
  <2>3. QED BY <1>2, <2>2 DEF Settled
<1>4. d.shot \in Nat /\ e.shot \in Nat BY <1>1, <1>2 DEF Shape
<1>5. CASE Film(e) = Film(d) /\ e.engine = d.engine /\ e.busy = d.busy /\ e.data = d.data
  <2>1. e.shot = d.shot /\ (Captured(d) <=> Captured(e)) BY <1>5 DEF Film, Captured
  <2>2. \A k \in 1..GridCells : Held(d, CellAddr(k), Place(n, k)) => Held(e, CellAddr(k), Place(n, k))
    BY <1>2, <1>5, <2>1 DEF Held
  <2>3. QED BY <1>3, <1>5, <2>1, <2>2 DEF Filmed
<1>6. CASE d.engine \in {"wait", "capture"} /\ e.shot >= d.shot
           /\ \/ e.engine = "capture" /\ e.busy = d.busy /\ e.shot > d.shot
              \/ d.engine = "capture" /\ Captured(e) /\ e.shot = d.shot
  <2>1. ~ Captured(d) BY <1>6 DEF Captured
  <2>2. n <= 1 BY <2>1 DEF Filmed
  <2>3. n \in 0..2 BY <2>2
  <2>4. \A k \in 1..GridCells : Held(e, CellAddr(k), Place(n, k)) /\ ~ (Place(n, k) >= 5)
    BY <2>3, NoPlace DEF Held
  <2>5. n = 1 => \/ e.busy /\ e.engine = "wait"
                 \/ e.busy /\ e.engine = "capture" /\ e.shot > s
                 \/ Captured(e) /\ e.shot > s
    BY <1>4, <1>6, <2>1 DEF Filmed
  <2>6. ~ (n >= 2) BY <2>2
  <2>7. Filmed(e, g, s, n) BY <2>4, <2>5, <2>6 DEF Filmed
  <2>8. QED BY <1>3, <1>4, <1>6, <2>7
<1>7. QED BY <1>2, <1>5, <1>6

LEMMA SampleMoves ==
  ASSUME SampleInv, BoardMoves \/ Watchdog
  PROVE  SampleInv'
<1>1. ASSUME BoardMoves PROVE SampleInv'
  <2>1. /\ board' \in BoardSteps(board) /\ got' = got /\ roi' = roi /\ since' = since /\ odd' = odd /\ pc' = pc
    BY <1>1 DEF BoardMoves
  <2>2. Len(got) \in Nat BY AppendSeq DEF SampleInv
  <2>3. Settled(board) /\ since \in Nat /\ since <= board.shot /\ IsSeq(got) /\ SampleOfOneCapture BY DEF SampleInv
  <2>4. CASE pc = "grab" /\ ~ odd
    <3>1. Filmed(board, got, since, Len(got)) BY <2>4 DEF SampleInv
    <3>2. Settled(board') /\ since <= board'.shot /\ Filmed(board', got, since, Len(got))
      BY <2>1, <2>2, <2>3, <3>1, FilmedMove
    <3>3. SampleOfOneCapture' BY <2>1, <2>4 DEF SampleOfOneCapture
    <3>4. QED BY <2>1, <2>3, <3>2, <3>3 DEF SampleInv
  <2>5. CASE ~ (pc = "grab" /\ ~ odd)
    <3>1. Settled(board') /\ since <= board'.shot
      <4>1. Shape(board) /\ Shape(board') /\ board'.shot >= board.shot /\ board'.addr = board.addr
        BY <2>1, <2>3, BoardShapes DEF Settled
      <4>2. board'.calib BY <2>1, <2>3, BoardShapes DEF Settled, Shape, Film, Captured
      <4>3. board'.shot \in Nat /\ board.shot \in Nat BY <4>1 DEF Shape
      <4>4. QED BY <2>3, <4>1, <4>2, <4>3 DEF Settled
    <3>2. SampleOfOneCapture' BY <2>1, <2>3 DEF SampleOfOneCapture
    <3>3. QED BY <2>1, <2>3, <2>5, <3>1, <3>2 DEF SampleInv
  <2>6. QED BY <2>4, <2>5
<1>2. ASSUME Watchdog PROVE SampleInv'
  <2>1. /\ board' = WatchdogEnds(board) /\ got' = got /\ since' = since /\ odd' = TRUE
    BY <1>2 DEF Watchdog
  <2>2. Settled(board') /\ board'.shot = board.shot
    BY <2>1 DEF SampleInv, WatchdogEnds, Settled, Shape, BoardFields
  <2>3. SampleOfOneCapture' BY <2>1 DEF SampleOfOneCapture
  <2>4. QED BY <2>1, <2>2, <2>3 DEF SampleInv
<1>3. QED BY <1>1, <1>2

LEMMA SampleGrabbed ==
  ASSUME SampleInv, Grabbed
  PROVE  SampleInv'
<1>1. /\ pc = "grab" /\ ~ Calling /\ pc' = "prompt" /\ roi' = Cells(got) /\ got' = <<>>
      /\ board' = board /\ since' = since /\ odd' = odd
  BY DEF Grabbed
<1>2. PICK n \in Nat : n = Len(got) BY AppendSeq DEF SampleInv
<1>3. GridCells \in Nat \ {0} BY RegionAssumption
<1>4. n >= 2 + 6 * GridCells
  <2>1. Calls = grab_roi BY <1>1 DEF Calls
  <2>2. ~ (n < 2 + 6 * GridCells) BY <1>1, <1>2, <2>1, RegionProgram DEF Calling
  <2>3. QED BY <1>3, <2>2
<1>5. ASSUME ~ odd PROVE roi' = [k \in 1..GridCells |-> <<board.shot, CellAddr(k) + 1>>] /\ board.shot > since
  <2>1. Filmed(board, got, since, n) BY <1>1, <1>2, <1>5 DEF SampleInv
  <2>2. ASSUME NEW k \in 1..GridCells PROVE got[2 + PerCell * k - 1][1] = <<board.shot, CellAddr(k) + 1>>
    <3>1. PICK x \in Nat : k = x + 1
      <4>1. k - 1 \in Nat /\ k = (k - 1) + 1 BY <1>3
      <4>2. QED BY <4>1
    <3>2. Place(n, k) >= 5 BY <1>3, <1>4, <3>1 DEF Place
    <3>3. PerCell = 6 BY CellProgram DEF PerCell
    <3>4. 2 + PerCell * k - 1 = Word(k) BY <3>1, <3>3 DEF Word
    <3>5. got[Word(k)][1] = <<board.shot, CellAddr(k) + 1>> BY <2>1, <3>2 DEF Filmed
    <3>6. QED BY <3>4, <3>5
  <2>3. board.shot > since BY <1>3, <1>4, <2>1 DEF Filmed
  <2>4. QED BY <1>1, <2>2, <2>3 DEF Cells
<1>6. SampleOfOneCapture'
  <2>1. SUFFICES ASSUME ~ odd
                 PROVE  roi'[1][1] > since /\ roi' = [k \in 1..GridCells |-> <<roi'[1][1], CellAddr(k) + 1>>]
    BY <1>1 DEF SampleOfOneCapture
  <2>2. roi' = [k \in 1..GridCells |-> <<board.shot, CellAddr(k) + 1>>] /\ board.shot > since BY <1>5, <2>1
  <2>3. 1 \in 1..GridCells BY <1>3
  <2>4. roi'[1] = <<board.shot, CellAddr(1) + 1>> BY <2>2, <2>3
  <2>5. roi'[1][1] = board.shot BY <2>4
  <2>6. QED BY <2>2, <2>5
<1>7. IsSeq(got') BY <1>1, EmptySeq DEF IsSeq
<1>8. QED BY <1>1, <1>6, <1>7 DEF SampleInv

LEMMA SampleSteps == SampleInv /\ [CollectorNext]_collectorVars => SampleInv'
<1> SUFFICES ASSUME SampleInv, [CollectorNext]_collectorVars PROVE SampleInv' OBVIOUS
<1>1. CASE OnLine
  <2>1. ASSUME Start PROVE SampleInv'
    <3>1. board' = board /\ since' = since /\ got' = <<>> /\ pc' \in {"boot", "load"} BY <2>1 DEF Start
    <3>2. IsSeq(got') BY <3>1, EmptySeq DEF IsSeq
    <3>3. SampleOfOneCapture' BY <3>1 DEF SampleOfOneCapture
    <3>4. QED BY <3>1, <3>2, <3>3 DEF SampleInv
  <2>2. ASSUME Booted PROVE SampleInv'
    <3>1. board' = board /\ since' = since /\ got' = <<>> /\ pc' = "load" BY <2>2 DEF Booted
    <3>2. IsSeq(got') BY <3>1, EmptySeq DEF IsSeq
    <3>3. SampleOfOneCapture' BY <3>1 DEF SampleOfOneCapture
    <3>4. QED BY <3>1, <3>2, <3>3 DEF SampleInv
  <2>3. QED BY <1>1, <2>1, <2>2, SampleGrabbed, SampleFails, SampleAnswered, SampleMoves DEF OnLine
<1>2. CASE OnFile
  <2>1. ASSUME load_dataset PROVE SampleInv'
    <3>1. CASE file.torn
      <4>1. Exits /\ board' = board BY <2>1, <3>1 DEF load_dataset
      <4>2. QED BY <4>1, SampleExits DEF SampleInv
    <3>2. CASE ~ file.torn
      <4>1. Capture BY <2>1, <3>2 DEF load_dataset
      <4>2. QED BY <4>1, SampleBegins
    <3>3. QED BY <3>1, <3>2
  <2>2. ASSUME Saved \/ WriteRest PROVE SampleInv' BY <2>2, SampleBegins DEF Saved, WriteRest
  <2>3. ASSUME AppendLine \/ Truncate PROVE SampleInv'
    BY <2>3, SampleAside DEF AppendLine, Truncate
  <2>4. ASSUME NEW k, NEW torn, WriteBlock(k, torn) PROVE SampleInv'
    BY <2>4, SampleRests DEF WriteBlock
  <2>5. QED BY <1>2, <2>1, <2>2, <2>3, <2>4 DEF OnFile
<1>3. CASE OnKey
  <2>1. ASSUME NEW label, Label(label) PROVE SampleInv' BY <2>1, SampleAside DEF Label
  <2>2. ASSUME Undo PROVE SampleInv'
    <3>1. CASE records = <<>> BY <2>2, <3>1, SampleBegins DEF Undo
    <3>2. CASE records # <<>> BY <2>2, <3>2, SampleAside DEF Undo
    <3>3. QED BY <3>1, <3>2
  <2>3. ASSUME Recapture PROVE SampleInv' BY <2>3, SampleBegins DEF Recapture
  <2>4. ASSUME Quit PROVE SampleInv'
    <3>1. Exits /\ board' = board BY <2>4 DEF Quit
    <3>2. QED BY <3>1, SampleExits DEF SampleInv
  <2>5. QED BY <1>3, <2>1, <2>2, <2>3, <2>4 DEF OnKey
<1>4. CASE Kill
  <2>1. Exits /\ board' = board BY <1>4 DEF Kill
  <2>2. QED BY <2>1, SampleExits DEF SampleInv
<1>5. CASE UNCHANGED collectorVars
  <2>1. UNCHANGED line /\ pc' = pc BY <1>5 DEF collectorVars
  <2>2. QED BY <2>1, SampleRests
<1>6. QED BY <1>1, <1>2, <1>3, <1>4, <1>5 DEF CollectorNext

\* collect_samples.py: a sample at the prompt is the cells of the region, row
\* by row, of one capture begun after the last key, however calls fail, are
\* sent again, or time out, unless a capture was under way when it was armed
\* or the watchdog ended it.
THEOREM OneCaptureSampled == CollectorSpec => []SampleOfOneCapture
<1>1. SampleInv => SampleOfOneCapture BY DEF SampleInv
<1>2. QED BY SampleInit, SampleSteps, <1>1, PTL DEF CollectorSpec

\* The same with train_tm.py and roi_tm at work.
THEOREM OneCapturePipelined == PipelineSpec => []SampleOfOneCapture
<1>1. PipelineInit => Init BY DEF PipelineInit
<1>2. [PipelineNext]_pipelineVars => [CollectorNext]_collectorVars
  BY DEF PipelineNext, Collects, load_samples, Fit, Export, Classify, pipelineVars
<1>3. SampleInv => SampleOfOneCapture BY DEF SampleInv
<1> QED BY SampleInit, SampleSteps, <1>1, <1>2, <1>3, PTL DEF PipelineSpec

-----------------------------------------------------------------------------
(* The features *)

\* Pictures of the region in RGB565.
Pixels565 == 0 .. 32 * 64 * 32 - 1
Pictures == [1..ROI_CELLS -> Pixels565]

\* A region is whole blocks, at least two each way.
LEMMA Blocks ==
  /\ DSW \in Nat /\ DSH \in Nat /\ DSW >= 2 /\ DSH >= 2
  /\ ROI_COLS = 2 * DSW /\ ROI_ROWS = 2 * DSH /\ DS = 2
  /\ DSW - 2 \in Nat /\ DSH - 2 \in Nat
BY RoiAssumption DEF RoiAssumption, DSW, DSH, DS

\* Cells counted row by row in a grid w wide.
LEMMA CellOf ==
  ASSUME NEW w \in Nat, NEW h \in Nat, NEW k \in 0..w*h-1
  PROVE  k \div w \in 0..h-1 /\ k % w \in 0..w-1 /\ k = w * (k \div w) + (k % w) /\ w # 0 /\ k \in Nat
<1>1. w * h \in Nat /\ k \in Nat OBVIOUS
<1>2. w # 0
  <2>1. w = 0 => w * h = 0 OBVIOUS
  <2>2. w * h # 0 BY <1>1
  <2>3. QED BY <2>1, <2>2
<1>3. k \div w \in Nat /\ k % w \in 0..w-1 /\ k = w * (k \div w) + (k % w) BY <1>1, <1>2, Quotient
<1>4. PICK q \in Nat, r \in 0..w-1 : q = k \div w /\ r = k % w BY <1>3
<1>5. q < h
  <2>1. SUFFICES ASSUME q >= h PROVE FALSE BY <1>4
  <2>2. PICK g \in Nat : q = h + g
    <3>1. q - h \in Nat /\ q = h + (q - h) BY <1>4, <2>1
    <3>2. QED BY <3>1
  <2>3. w * q = w * h + w * g /\ w * g \in Nat BY <2>2
  <2>4. QED BY <1>1, <1>3, <1>4, <2>3
<1>6. QED BY <1>1, <1>2, <1>3, <1>4, <1>5

\* The quotient and the remainder of an index are its row and its column.
LEMMA IndexOf ==
  ASSUME NEW w \in Nat \ {0}, NEW h \in Nat, NEW r \in 0..h-1, NEW c \in 0..w-1
  PROVE  /\ w * r + c \in 0..w*h-1
         /\ (w * r + c) \div w = r /\ (w * r + c) % w = c
<1>1. PICK a \in Nat : a = w * r + c OBVIOUS
<1>2. a % w = c BY <1>1, Remainder
<1>3. a \div w = r
  <2>1. a = w * (a \div w) + (a % w) /\ a \div w \in Nat BY <1>1, Quotient
  <2>2. PICK q \in Nat : q = a \div w BY <2>1
  <2>3. w * q = w * r BY <1>1, <1>2, <2>1, <2>2
  <2>4. q = r
    <3>1. CASE q < r
      <4>1. PICK g \in Nat : r = q + 1 + g
        <5>1. r - q - 1 \in Nat /\ r = q + 1 + (r - q - 1) BY <3>1
        <5>2. QED BY <5>1
      <4>2. w * r = w * q + w + w * g /\ w * g \in Nat BY <4>1
      <4>3. w * q \in Nat OBVIOUS
      <4>4. QED BY <2>3, <4>2, <4>3
    <3>2. CASE q > r
      <4>1. PICK g \in Nat : q = r + 1 + g
        <5>1. q - r - 1 \in Nat /\ q = r + 1 + (q - r - 1) BY <3>2
        <5>2. QED BY <5>1
      <4>2. w * q = w * r + w + w * g /\ w * g \in Nat BY <4>1
      <4>3. w * r \in Nat OBVIOUS
      <4>4. QED BY <2>3, <4>2, <4>3
    <3>3. QED BY <3>1, <3>2
  <2>5. QED BY <2>2, <2>4
<1>4. a <= w * h - 1
  <2>1. PICK g \in Nat : h = r + 1 + g
    <3>1. h - r - 1 \in Nat /\ h = r + 1 + (h - r - 1) OBVIOUS
    <3>2. QED BY <3>1
  <2>2. w * h = w * r + w + w * g /\ w * g \in Nat BY <2>1
  <2>3. w * r \in Nat OBVIOUS
  <2>4. QED BY <1>1, <2>2, <2>3
<1>5. QED BY <1>1, <1>2, <1>3, <1>4

\* A quotient below its bound.
LEMMA Below ==
  ASSUME NEW a \in Nat, NEW b \in Nat \ {0}, NEW c \in Nat, a < b * c
  PROVE  a \div b \in 0..c-1
<1>1. a \in 0..b*c-1 BY SMT
<1>2. QED BY <1>1, CellOf

\* Five bits of red, six of green, five of blue.
LEMMA Channels ==
  ASSUME NEW p \in Pixels565
  PROVE  Red(p) \in 0..31 /\ Green(p) \in 0..63 /\ Blue(p) \in 0..31
<1> DEFINE m == 32 * 64 * 32
<1>1. p \in Nat /\ p < 2048 * 32
  <2>1. m \in Nat OBVIOUS
  <2>2. m = 2048 * 32 OBVIOUS
  <2>3. p \in 0..m - 1 BY Zenon DEF Pixels565
  <2> HIDE DEF m
  <2>4. p \in Nat /\ p < m BY <2>1, <2>3
  <2>5. QED BY <2>2, <2>4
<1>2. p \div 2048 \in 0..31 BY <1>1, Below
<1>3. p \div 32 \in Nat /\ p % 32 \in 0..31 BY <1>1, Quotient
<1>4. (p \div 32) % 64 \in 0..63
  <2>1. PICK q \in Nat : q = p \div 32 BY <1>3
  <2>2. q % 64 \in 0..63 BY Quotient
  <2>3. QED BY <2>1, <2>2
<1>5. QED BY <1>2, <1>3, <1>4 DEF Red, Green, Blue

\* The four pixels of a block, as the host and as the microcontroller find them.
LEMMA BlockAgrees ==
  ASSUME NEW patch \in Pictures, NEW r \in 0..DSH-1, NEW c \in 0..DSW-1
  PROVE  /\ McuBlock(patch, DSW * r + c).br = _downsample_channels(patch)[<<r, c>>].bright
         /\ McuBlock(patch, DSW * r + c).r = _downsample_channels(patch)[<<r, c>>].r
         /\ McuBlock(patch, DSW * r + c).g5 = _downsample_channels(patch)[<<r, c>>].g
         /\ McuBlock(patch, DSW * r + c).b = _downsample_channels(patch)[<<r, c>>].b
<1> DEFINE o == DSW * r + c
           x == 2 * ROI_COLS * r + 2 * c
<1>1. o \div DSW = r /\ o % DSW = c BY Blocks, IndexOf
<1>2. PICK y \in Nat : y = ROI_COLS * r
  <2>1. ROI_COLS * r \in Nat BY RoiAssumption
  <2>2. QED BY <2>1
<1>3. /\ x + 1 \in 1..ROI_CELLS /\ x + 2 \in 1..ROI_CELLS
      /\ x + ROI_COLS + 1 \in 1..ROI_CELLS /\ x + ROI_COLS + 2 \in 1..ROI_CELLS
  <2>1. ROI_CELLS = ROI_COLS * ROI_ROWS BY DEF ROI_CELLS
  <2>2. /\ 2 * r \in 0..ROI_ROWS-1 /\ 2 * r + 1 \in 0..ROI_ROWS-1
        /\ 2 * c \in 0..ROI_COLS-1 /\ 2 * c + 1 \in 0..ROI_COLS-1
    BY Blocks
  <2>3. \A i \in 0..ROI_ROWS-1, j \in 0..ROI_COLS-1 : ROI_COLS * i + j \in 0..ROI_CELLS-1
    BY <2>1, RoiAssumption, IndexOf
  <2>4. ROI_COLS * (2 * r) = 2 * y /\ ROI_COLS * (2 * r + 1) = 2 * y + ROI_COLS /\ x = 2 * y + 2 * c
    BY <1>2, RoiAssumption
  <2>5. PICK n \in Nat : n = ROI_CELLS BY <2>1, RoiAssumption
  <2>6. /\ ROI_COLS * (2 * r) + 2 * c \in 0..ROI_CELLS-1
        /\ ROI_COLS * (2 * r) + (2 * c + 1) \in 0..ROI_CELLS-1
        /\ ROI_COLS * (2 * r + 1) + 2 * c \in 0..ROI_CELLS-1
        /\ ROI_COLS * (2 * r + 1) + (2 * c + 1) \in 0..ROI_CELLS-1
    BY <2>2, <2>3
  <2>7. QED BY <1>2, <2>4, <2>5, <2>6, RoiAssumption
<1> DEFINE p1 == patch[x + 1]
           p2 == patch[x + 2]
           p3 == patch[x + ROI_COLS + 1]
           p4 == patch[x + ROI_COLS + 2]
           rs == Red(p1) + Red(p2) + Red(p3) + Red(p4)
           gs == Green(p1) + Green(p2) + Green(p3) + Green(p4)
           bs == Blue(p1) + Blue(p2) + Blue(p3) + Blue(p4)
<1>4. rs \in 0..124 /\ gs \in 0..252 /\ bs \in 0..124
  <2>1. \A i \in 1..ROI_CELLS : patch[i] \in Pixels565 BY DEF Pictures
  <2>2. p1 \in Pixels565 /\ p2 \in Pixels565 /\ p3 \in Pixels565 /\ p4 \in Pixels565
    <3> HIDE DEF x
    <3>1. QED BY <1>3, <2>1
  <2> HIDE DEF p1, p2, p3, p4
  <2>3. \A p \in {p1, p2, p3, p4} : Red(p) \in 0..31 /\ Green(p) \in 0..63 /\ Blue(p) \in 0..31
    BY <2>2, Channels
  <2>4. PICK a1 \in 0..31, a2 \in 0..31, a3 \in 0..31, a4 \in 0..31 :
          a1 = Red(p1) /\ a2 = Red(p2) /\ a3 = Red(p3) /\ a4 = Red(p4)
    BY <2>3
  <2>5. PICK b1 \in 0..31, b2 \in 0..31, b3 \in 0..31, b4 \in 0..31 :
          b1 = Blue(p1) /\ b2 = Blue(p2) /\ b3 = Blue(p3) /\ b4 = Blue(p4)
    BY <2>3
  <2>6. PICK g1 \in 0..63, g2 \in 0..63, g3 \in 0..63, g4 \in 0..63 :
          g1 = Green(p1) /\ g2 = Green(p2) /\ g3 = Green(p3) /\ g4 = Green(p4)
    BY <2>3
  <2>7. a1 + a2 + a3 + a4 \in 0..124 /\ b1 + b2 + b3 + b4 \in 0..124 /\ g1 + g2 + g3 + g4 \in 0..252
    OBVIOUS
  <2>8. rs = a1 + a2 + a3 + a4 /\ gs = g1 + g2 + g3 + g4 /\ bs = b1 + b2 + b3 + b4
    BY <2>4, <2>5, <2>6
  <2>9. QED BY <2>7, <2>8
<1>5. McuBlock(patch, o) = [br |-> ((rs + gs + bs) \div 4) % 256, r |-> (rs \div 4) % 256,
                          g5 |-> (gs \div 8) % 256, b |-> (bs \div 4) % 256]
  <2>1. 2 * ROI_COLS * (o \div DSW) + 2 * (o % DSW) = x
        /\ 2 * ROI_COLS * (o \div DSW) + ROI_COLS + 2 * (o % DSW) = x + ROI_COLS
    <3>1. 2 * ROI_COLS * (o \div DSW) = 2 * ROI_COLS * r /\ 2 * (o % DSW) = 2 * c BY <1>1
    <3>2. PICK z \in Nat : z = 2 * ROI_COLS * r BY <1>2, RoiAssumption
    <3>3. QED BY <3>1, <3>2, RoiAssumption
  <2>2. QED BY <2>1 DEF McuBlock
<1>6. _downsample_channels(patch)[<<r, c>>]
        = [bright |-> (rs + gs + bs) \div 4, r |-> rs \div 4, g |-> gs \div 8, b |-> bs \div 4]
  <2> DEFINE px == [k \in 0..3 |-> patch[(2 * r + (k \div 2)) * ROI_COLS + 2 * c + (k % 2) + 1]]
  <2>1. px[0] = p1 /\ px[1] = p2 /\ px[2] = p3 /\ px[3] = p4 /\ DOMAIN px = 0..3
    <3>1. /\ (2 * r + (0 \div 2)) * ROI_COLS + 2 * c + (0 % 2) + 1 = x + 1
          /\ (2 * r + (1 \div 2)) * ROI_COLS + 2 * c + (1 % 2) + 1 = x + 2
          /\ (2 * r + (2 \div 2)) * ROI_COLS + 2 * c + (2 % 2) + 1 = x + ROI_COLS + 1
          /\ (2 * r + (3 \div 2)) * ROI_COLS + 2 * c + (3 % 2) + 1 = x + ROI_COLS + 2
      <4>1. (2 * r + 0) * ROI_COLS = 2 * y /\ (2 * r + 1) * ROI_COLS = 2 * y + ROI_COLS /\ x = 2 * y + 2 * c
        BY <1>2, RoiAssumption
      <4>2. /\ 0 \div 2 = 0 /\ 1 \div 2 = 0 /\ 2 \div 2 = 1 /\ 3 \div 2 = 1
            /\ 0 % 2 = 0 /\ 1 % 2 = 1 /\ 2 % 2 = 0 /\ 3 % 2 = 1
        OBVIOUS
      <4>3. QED BY <1>2, <4>1, <4>2, RoiAssumption
    <3>2. QED BY <3>1
  <2>2. <<r, c>> \in (0..DSH-1) \X (0..DSW-1) OBVIOUS
  <2>3. px = [k \in 0..DS*DS-1 |-> patch[(DS * r + (k \div DS)) * ROI_COLS + DS * c + (k % DS) + 1]]
    <3>1. DS * DS - 1 = 3 BY DEF DS
    <3>2. QED BY <3>1 DEF DS
  <2> HIDE DEF px, p1, p2, p3, p4
  <2>4. _downsample_channels(patch)[<<r, c>>] =
          LET Rs == [k \in DOMAIN px |-> Red(px[k])]
              Gs == [k \in DOMAIN px |-> Green(px[k])]
              Bs == [k \in DOMAIN px |-> Blue(px[k])]
              R == Rs[0] + Rs[1] + Rs[2] + Rs[3]
              G == Gs[0] + Gs[1] + Gs[2] + Gs[3]
              B == Bs[0] + Bs[1] + Bs[2] + Bs[3]
          IN  [bright |-> (R + G + B) \div 4, r |-> R \div 4, g |-> G \div 8, b |-> B \div 4]
    BY <2>2, <2>3 DEF _downsample_channels
  <2>5. QED BY <2>1, <2>4
<1> HIDE DEF rs, gs, bs, o
<1>7. /\ ((rs + gs + bs) \div 4) % 256 = (rs + gs + bs) \div 4 /\ (rs \div 4) % 256 = rs \div 4
      /\ (gs \div 8) % 256 = gs \div 8 /\ (bs \div 4) % 256 = bs \div 4
  BY <1>4
<1>8. QED BY <1>5, <1>6, <1>7 DEF o

\* The cells the microcontroller keeps.
McuCells(patch) == [o \in 0..COLOR_CELLS-1 |-> McuBlock(patch, o)]

\* How many cells and features there are.
LEMMA Counts ==
  /\ LBP_CELLS \in Nat /\ N_LBP \in Nat /\ COLOR_CELLS \in Nat /\ N_FEATURES \in Nat
  /\ COLOR_CELLS = DSW * DSH /\ LBP_CELLS = (DSW - 2) * (DSH - 2) /\ N_LBP = 8 * LBP_CELLS
  /\ N_FEATURES = N_LBP + 3 * COLOR_CELLS
<1>1. PICK a \in Nat, b \in Nat : a = DSW - 2 /\ b = DSH - 2 BY Blocks
<1>2. a * b \in Nat BY SMT
<1>3. LBP_CELLS \in Nat BY <1>1, <1>2 DEF LBP_CELLS
<1>4. COLOR_CELLS \in Nat BY Blocks DEF COLOR_CELLS
<1>5. N_LBP = 8 * LBP_CELLS /\ N_LBP \in Nat BY <1>3 DEF N_LBP
<1>6. QED BY <1>3, <1>4, <1>5 DEF N_FEATURES, LBP_CELLS, COLOR_CELLS

\* A cell of the microcontroller is a cell of the host.
LEMMA CellsAgree ==
  ASSUME NEW patch \in Pictures, NEW r \in 0..DSH-1, NEW c \in 0..DSW-1
  PROVE  /\ DSW * r + c \in 0..COLOR_CELLS-1
         /\ McuCells(patch)[DSW * r + c].br = _downsample_channels(patch)[<<r, c>>].bright
         /\ McuCells(patch)[DSW * r + c].r = _downsample_channels(patch)[<<r, c>>].r
         /\ McuCells(patch)[DSW * r + c].g5 = _downsample_channels(patch)[<<r, c>>].g
         /\ McuCells(patch)[DSW * r + c].b = _downsample_channels(patch)[<<r, c>>].b
<1>1. PICK o : o = DSW * r + c OBVIOUS
<1>2. o \in 0..COLOR_CELLS-1
  <2>1. DSW \in Nat \ {0} /\ DSH \in Nat BY Blocks
  <2>2. o \in 0..DSW*DSH-1 BY <1>1, <2>1, IndexOf
  <2>3. QED BY <2>2, Counts
<1>3. McuCells(patch)[o] = McuBlock(patch, o) BY <1>2 DEF McuCells
<1>4. QED BY <1>1, <1>2, <1>3, BlockAgrees

\* The cells around an interior one.
LEMMA AroundAgrees ==
  ASSUME NEW R \in 1..DSH-2, NEW C \in 1..DSW-2, NEW f \in 0..7, NEW b, b = DSW * R + C
  PROVE  LET around == <<b - DSW - 1, b - DSW, b - DSW + 1, b - 1, b + 1, b + DSW - 1, b + DSW, b + DSW + 1>>
             off == LBP_OFFSETS[f+1]
         IN  /\ around[f+1] = DSW * (R + off[1]) + (C + off[2])
             /\ R + off[1] \in 0..DSH-1 /\ C + off[2] \in 0..DSW-1
<1>1. PICK w \in Nat, h \in Nat : w = DSW /\ h = DSH BY Blocks
<1>2. R \in Nat /\ C \in Nat /\ R - 1 \in 0..h-1 /\ R \in 0..h-1 /\ R + 1 \in 0..h-1
      /\ C - 1 \in 0..w-1 /\ C \in 0..w-1 /\ C + 1 \in 0..w-1 BY <1>1
<1>3. PICK z \in Nat : z = w * R BY <1>2
<1>4. w * (R - 1) = z - w /\ w * (R + 1) = z + w BY <1>2, <1>3
<1>5. b = z + C BY <1>1, <1>3
<1>6. f \in {0, 1, 2, 3, 4, 5, 6, 7} OBVIOUS
<1>7. DSW * (R + (-1)) = z - w /\ DSW * (R + 0) = z /\ DSW * (R + 1) = z + w
  <2>1. R + (-1) = R - 1 /\ R + 0 = R BY <1>2
  <2>2. QED BY <1>1, <1>3, <1>4, <2>1
<1>8. /\ z - w \in Int /\ z \in Int /\ C \in Int /\ w \in Int BY <1>2
<1> DEFINE around == <<b - DSW - 1, b - DSW, b - DSW + 1, b - 1, b + 1, b + DSW - 1, b + DSW, b + DSW + 1>>
           off == LBP_OFFSETS[f+1]
           Goal == /\ around[f+1] = DSW * (R + off[1]) + (C + off[2])
                   /\ R + off[1] \in 0..DSH-1 /\ C + off[2] \in 0..DSW-1
<1>20. CASE f = 0
  <2>1. around[f+1] = b - DSW - 1 /\ off = <<-1, -1>> BY <1>20 DEF LBP_OFFSETS
  <2>2. QED BY <1>1, <1>2, <1>3, <1>5, <1>7, <2>1
<1>21. CASE f = 1
  <2>1. around[f+1] = b - DSW /\ off = <<-1, 0>> BY <1>21 DEF LBP_OFFSETS
  <2>2. QED BY <1>1, <1>2, <1>3, <1>5, <1>7, <2>1
<1>22. CASE f = 2
  <2>1. around[f+1] = b - DSW + 1 /\ off = <<-1, 1>> BY <1>22 DEF LBP_OFFSETS
  <2>2. QED BY <1>1, <1>2, <1>3, <1>5, <1>7, <2>1
<1>23. CASE f = 3
  <2>1. around[f+1] = b - 1 /\ off = <<0, -1>> BY <1>23 DEF LBP_OFFSETS
  <2>2. QED BY <1>1, <1>2, <1>3, <1>5, <1>7, <2>1
<1>24. CASE f = 4
  <2>1. around[f+1] = b + 1 /\ off = <<0, 1>> BY <1>24 DEF LBP_OFFSETS
  <2>2. QED BY <1>1, <1>2, <1>3, <1>5, <1>7, <2>1
<1>25. CASE f = 5
  <2>1. around[f+1] = b + DSW - 1 /\ off = <<1, -1>> BY <1>25 DEF LBP_OFFSETS
  <2>2. QED BY <1>1, <1>2, <1>3, <1>5, <1>7, <2>1
<1>26. CASE f = 6
  <2>1. around[f+1] = b + DSW /\ off = <<1, 0>> BY <1>26 DEF LBP_OFFSETS
  <2>2. QED BY <1>1, <1>2, <1>3, <1>5, <1>7, <2>1
<1>27. CASE f = 7
  <2>1. around[f+1] = b + DSW + 1 /\ off = <<1, 1>> BY <1>27 DEF LBP_OFFSETS
  <2>2. QED BY <1>1, <1>2, <1>3, <1>5, <1>7, <2>1
<1>30. QED BY <1>6, <1>20, <1>21, <1>22, <1>23, <1>24, <1>25, <1>26, <1>27

\* The bits of texture, on the host and on the microcontroller.
HostTexture(patch, k) ==
  Brighter(_downsample_channels(patch), <<1 + ((k \div 8) \div (DSW - 2)), 1 + ((k \div 8) % (DSW - 2))>>,
           LBP_OFFSETS[(k % 8) + 1])

\* A texture condition of the microcontroller.
McuTexture(patch, i) ==
  LET ds == McuCells(patch)
      At(k) == DSW * (1 + (k \div (DSW - 2))) + 1 + (k % (DSW - 2))
      Around(b) == <<b - DSW - 1, b - DSW, b - DSW + 1, b - 1, b + 1, b + DSW - 1, b + DSW, b + DSW + 1>>
      k == (i - 1) \div 8
  IN  ds[Around(At(k))[((i - 1) % 8) + 1]].br >= ds[At(k)].br

\* The texture conditions are the host's texture features.
LEMMA TextureAgrees ==
  ASSUME NEW patch \in Pictures, NEW m \in 0..N_LBP-1
  PROVE  McuTexture(patch, m + 1) <=> HostTexture(patch, m)
<1>1. PICK w \in Nat, h \in Nat : w = DSW - 2 /\ h = DSH - 2 BY Blocks
<1>2. m \in 0..8*LBP_CELLS-1 BY Counts
<1>3. PICK k \in 0..LBP_CELLS-1, f \in 0..7 : k = m \div 8 /\ f = m % 8
  <2>1. PICK g \in Nat : g = LBP_CELLS BY Counts
  <2>2. m \div 8 \in 0..g-1 /\ m % 8 \in 0..7
    <3>1. m \in 0..8*g-1 BY <1>2, <2>1
    <3>2. QED BY <3>1, CellOf
  <2>3. QED BY <2>1, <2>2
<1>4. k \in 0..w*h-1 BY <1>1, Counts
<1>5. k \div w \in 0..h-1 /\ k % w \in 0..w-1 BY <1>4, CellOf
<1>6. PICK R, C : R = 1 + (k \div w) /\ C = 1 + (k % w) OBVIOUS
<1>7. R \in 1..DSH-2 /\ C \in 1..DSW-2
  <2>1. R \in 1..h /\ C \in 1..w BY <1>5, <1>6
  <2>2. QED BY <1>1, <2>1
<1>8. PICK b : b = DSW * R + 1 + (k % w) OBVIOUS
<1>9. b = DSW * R + C
  <2>1. DSW * R \in Int /\ k % w \in Int BY <1>5, <1>7, Blocks
  <2>2. QED BY <1>6, <1>8, <2>1
<1> DEFINE around == <<b - DSW - 1, b - DSW, b - DSW + 1, b - 1, b + 1, b + DSW - 1, b + DSW, b + DSW + 1>>
           off == LBP_OFFSETS[f+1]
           d == _downsample_channels(patch)
<1>10. (m + 1) - 1 = m OBVIOUS
<1>11. McuTexture(patch, m + 1) <=> (McuCells(patch)[around[f+1]].br >= McuCells(patch)[b].br)
  BY <1>1, <1>3, <1>6, <1>8, <1>10 DEF McuTexture
<1>12. HostTexture(patch, m) <=> (d[<<R + off[1], C + off[2]>>].bright >= d[<<R, C>>].bright)
  BY <1>1, <1>3, <1>6 DEF HostTexture, Brighter
<1>13. /\ around[f+1] = DSW * (R + off[1]) + (C + off[2])
       /\ R + off[1] \in 0..DSH-1 /\ C + off[2] \in 0..DSW-1
  BY <1>7, <1>9, AroundAgrees
<1>14. R \in 0..DSH-1 /\ C \in 0..DSW-1 BY <1>7, Blocks
<1> HIDE DEF around, off, d
<1>15. McuCells(patch)[around[f+1]].br = d[<<R + off[1], C + off[2]>>].bright
  BY <1>13, CellsAgree DEF d
<1>16. McuCells(patch)[b].br = d[<<R, C>>].bright BY <1>9, <1>14, CellsAgree DEF d
<1>17. QED BY <1>11, <1>12, <1>15, <1>16

\* Two sequences end to end.
TwoJoined(S, n, m, s, t, c) ==
  /\ c \in Seq(S) /\ Len(c) = n + m
  /\ \A i \in 1..n : c[i] = s[i]
  /\ \A i \in 1..m : c[n + i] = t[i]

LEMMA JoinTwo ==
  ASSUME NEW S, NEW s \in Seq(S), NEW t \in Seq(S), NEW n, NEW m, n = Len(s), m = Len(t)
  PROVE  TwoJoined(S, n, m, s, t, s \o t)
<1> DEFINE c == s \o t
<1>1. /\ c \in Seq(S) /\ Len(c) = Len(s) + Len(t)
      /\ \A i \in 1..Len(s) + Len(t) : c[i] = IF i <= Len(s) THEN s[i] ELSE t[i - Len(s)]
  BY ConcatProperties
<1> HIDE DEF c
<1>2. n \in Nat /\ m \in Nat OBVIOUS
<1>3. ASSUME NEW i \in 1..n PROVE c[i] = s[i]
  <2>1. i \in 1..n+m /\ i <= n BY <1>2
  <2>2. QED BY <1>1, <2>1
<1>4. ASSUME NEW i \in 1..m PROVE c[n + i] = t[i]
  <2>1. n + i \in 1..n+m /\ ~ (n + i <= n) /\ n + i - n = i BY <1>2
  <2>2. QED BY <1>1, <2>1
<1>5. TwoJoined(S, n, m, s, t, c) BY <1>1, <1>3, <1>4 DEF TwoJoined
<1>6. QED BY <1>5 DEF c

\* Four vectors of bits end to end, as a sequence and as a set.
FourJoined(n, m, c1, c2, c3, c4, c) ==
  /\ Len(c) = n + 3 * m
  /\ \A k \in 0..n-1 : c[k+1] = c1[k+1]
  /\ \A k \in 0..m-1 : /\ c[n + k + 1] = c2[k+1]
                       /\ c[n + m + k + 1] = c3[k+1]
                       /\ c[n + 2 * m + k + 1] = c4[k+1]

\* Joining the four lists of conditions puts them where FourJoined says.
LEMMA JoinFour ==
  ASSUME NEW S, NEW n \in Nat, NEW m \in Nat, NEW c1 \in Seq(S), NEW c2 \in Seq(S), NEW c3 \in Seq(S),
         NEW c4 \in Seq(S), Len(c1) = n, Len(c2) = m, Len(c3) = m, Len(c4) = m
  PROVE  FourJoined(n, m, c1, c2, c3, c4, c1 \o c2 \o c3 \o c4)
<1> DEFINE c12 == c1 \o c2
           c123 == c12 \o c3
           c == c123 \o c4
<1>4. /\ c12 \in Seq(S) /\ Len(c12) = n + m
      /\ \A i \in 1..n : c12[i] = c1[i]
      /\ \A i \in 1..m : c12[n + i] = c2[i]
  <2>1. TwoJoined(S, n, m, c1, c2, c12) BY JoinTwo
  <2>2. QED BY <2>1 DEF TwoJoined
<1> HIDE DEF c12
<1>5. /\ c123 \in Seq(S) /\ Len(c123) = n + m + m
      /\ \A i \in 1..n+m : c123[i] = c12[i]
      /\ \A i \in 1..m : c123[n + m + i] = c3[i]
  <2>1. n + m = Len(c12) /\ m = Len(c3) /\ c12 \in Seq(S) BY <1>4
  <2>2. TwoJoined(S, n + m, m, c12, c3, c123) BY <2>1, JoinTwo
  <2>3. QED BY <2>2 DEF TwoJoined
<1> HIDE DEF c123
<1>6. /\ Len(c) = n + m + m + m
      /\ \A i \in 1..n+m+m : c[i] = c123[i]
      /\ \A i \in 1..m : c[n + m + m + i] = c4[i]
  <2>1. n + m + m = Len(c123) /\ m = Len(c4) /\ c123 \in Seq(S) BY <1>5
  <2>2. TwoJoined(S, n + m + m, m, c123, c4, c) BY <2>1, JoinTwo
  <2>3. QED BY <2>2 DEF TwoJoined
<1>7. c1 \o c2 \o c3 \o c4 = c BY DEF c123, c12
<1> HIDE DEF c
<1>8. ASSUME NEW k \in 0..n-1 PROVE c[k+1] = c1[k+1]
  <2>1. k + 1 \in 1..n /\ k + 1 \in 1..n+m /\ k + 1 \in 1..n+m+m OBVIOUS
  <2>2. QED BY <1>4, <1>5, <1>6, <2>1
<1>9. ASSUME NEW k \in 0..m-1
      PROVE c[n + k + 1] = c2[k+1] /\ c[n + m + k + 1] = c3[k+1] /\ c[n + 2 * m + k + 1] = c4[k+1]
  <2>1. PICK i \in 1..m : i = k + 1 OBVIOUS
  <2>2. n + k + 1 = n + i /\ n + m + k + 1 = n + m + i /\ n + 2 * m + k + 1 = n + m + m + i BY <2>1
  <2>3. n + i \in 1..n+m /\ n + i \in 1..n+m+m /\ n + m + i \in 1..n+m+m OBVIOUS
  <2>4. c[n + i] = c2[i] BY <1>4, <1>5, <1>6, <2>3
  <2>5. c[n + m + i] = c3[i] BY <1>5, <1>6, <2>3
  <2>6. c[n + m + m + i] = c4[i] BY <1>6
  <2>7. QED BY <2>1, <2>2, <2>4, <2>5, <2>6
<1>10. Len(c) = n + 3 * m BY <1>6
<1>11. FourJoined(n, m, c1, c2, c3, c4, c) BY <1>8, <1>9, <1>10 DEF FourJoined
<1>12. QED BY <1>7, <1>11

\* The same for sets of indices.
FourUnited(n, m, A, B, C, D, F) ==
  /\ F \subseteq 0..n+3*m-1
  /\ \A k \in 0..n-1 : k \in F <=> k \in A
  /\ \A k \in 0..m-1 : /\ n + k \in F <=> k \in B
                       /\ n + m + k \in F <=> k \in C
                       /\ n + 2 * m + k \in F <=> k \in D

\* The four sets of features are apart.
LEMMA UniteFour ==
  ASSUME NEW n \in Nat, NEW m \in Nat, NEW A \in SUBSET (0..n-1), NEW B \in SUBSET (0..m-1),
         NEW C \in SUBSET (0..m-1), NEW D \in SUBSET (0..m-1)
  PROVE  FourUnited(n, m, A, B, C, D,
                    A \cup {n + k : k \in B} \cup {n + m + k : k \in C} \cup {n + 2 * m + k : k \in D})
<1> DEFINE F == A \cup {n + k : k \in B} \cup {n + m + k : k \in C} \cup {n + 2 * m + k : k \in D}
<1>1. \A k \in B \cup C \cup D : k \in 0..m-1 OBVIOUS
<1>2. F \subseteq 0..n+3*m-1
  <2>1. A \subseteq 0..n+3*m-1 OBVIOUS
  <2>2. \A k \in 0..m-1 : n + k \in 0..n+3*m-1 /\ n + m + k \in 0..n+3*m-1 /\ n + 2 * m + k \in 0..n+3*m-1
    OBVIOUS
  <2> DEFINE U == 0..n+3*m-1
  <2>3. A \subseteq U /\ \A k \in 0..m-1 : n + k \in U /\ n + m + k \in U /\ n + 2 * m + k \in U
    BY <2>1, <2>2
  <2> HIDE DEF U
  <2>4. F \subseteq U BY <1>1, <2>3
  <2>5. QED BY <2>4 DEF U
<1>3. \A k \in 0..n-1 : k \in F <=> k \in A BY <1>1
<1>4. ASSUME NEW k \in 0..m-1 PROVE n + k \in F <=> k \in B
  <2>1. n + k \notin A OBVIOUS
  <2>2. \A j \in 0..m-1 : n + k = n + j => k = j OBVIOUS
  <2>3. \A j \in 0..m-1 : n + k # n + m + j /\ n + k # n + 2 * m + j OBVIOUS
  <2>4. QED BY <2>1, <2>2, <2>3
<1>5. ASSUME NEW k \in 0..m-1 PROVE n + m + k \in F <=> k \in C
  <2>1. n + m + k \notin A OBVIOUS
  <2>2. \A j \in 0..m-1 : n + m + k = n + m + j => k = j OBVIOUS
  <2>3. \A j \in 0..m-1 : n + m + k # n + j /\ n + m + k # n + 2 * m + j OBVIOUS
  <2>4. QED BY <2>1, <2>2, <2>3
<1>6. ASSUME NEW k \in 0..m-1 PROVE n + 2 * m + k \in F <=> k \in D
  <2>1. n + 2 * m + k \notin A OBVIOUS
  <2>2. \A j \in 0..m-1 : n + 2 * m + k = n + 2 * m + j => k = j OBVIOUS
  <2>3. \A j \in 0..m-1 : n + 2 * m + k # n + j /\ n + 2 * m + k # n + m + j OBVIOUS
  <2>4. QED BY <2>1, <2>2, <2>3
<1> HIDE DEF F
<1>7. FourUnited(n, m, A, B, C, D, F) BY <1>2, <1>3, <1>4, <1>5, <1>6 DEF FourUnited
<1>8. QED BY <1>7 DEF F

\* The microcontroller's conditions are the host's features, one by one.
LEMMA ConditionsAgree ==
  ASSUME NEW patch \in Pictures
  PROVE  /\ featurize(patch) \subseteq 0..N_FEATURES-1
         /\ Len(McuConditions(patch)) = N_FEATURES
         /\ \A k \in 0..N_FEATURES-1 : McuConditions(patch)[k+1] <=> k \in featurize(patch)
<1> DEFINE d == _downsample_channels(patch)
           ds == McuCells(patch)
           Cell(k) == d[<<k \div DSW, k % DSW>>]
           A == {k \in 0..N_LBP-1 : HostTexture(patch, k)}
           B == {j \in 0..COLOR_CELLS-1 : Cell(j).r > Cell(j).g}
           C == {j \in 0..COLOR_CELLS-1 : Cell(j).r > Cell(j).b}
           D == {j \in 0..COLOR_CELLS-1 : SkinCue(Cell(j))}
           c1 == [i \in 1..N_LBP |-> McuTexture(patch, i)]
           c2 == [i \in 1..COLOR_CELLS |-> ds[i-1].r > ds[i-1].g5]
           c3 == [i \in 1..COLOR_CELLS |-> ds[i-1].r > ds[i-1].b]
           c4 == [i \in 1..COLOR_CELLS |-> /\ ds[i-1].r > ds[i-1].g5 /\ ds[i-1].g5 >= ds[i-1].b
                                           /\ ds[i-1].r - ds[i-1].b >= 2]
           F == A \cup {N_LBP + k : k \in B} \cup {N_LBP + COLOR_CELLS + k : k \in C}
                  \cup {N_LBP + 2 * COLOR_CELLS + k : k \in D}
<1>1. featurize(patch) = F BY DEF featurize, HostTexture
<1>2. McuConditions(patch) = c1 \o c2 \o c3 \o c4 BY DEF McuConditions, McuTexture, McuCells
<1>3. ASSUME NEW k \in 0..COLOR_CELLS-1
      PROVE  ds[k].r = Cell(k).r /\ ds[k].g5 = Cell(k).g /\ ds[k].b = Cell(k).b
  <2>1. /\ k \div DSW \in 0..DSH-1 /\ k % DSW \in 0..DSW-1
        /\ k = DSW * (k \div DSW) + (k % DSW)
    BY Counts, Blocks, CellOf
  <2>2. PICK r \in 0..DSH-1, c \in 0..DSW-1 : r = k \div DSW /\ c = k % DSW BY <2>1
  <2>3. k = DSW * r + c BY <2>1, <2>2
  <2> HIDE DEF d, ds
  <2>4. ds[DSW * r + c].r = d[<<r, c>>].r /\ ds[DSW * r + c].g5 = d[<<r, c>>].g
        /\ ds[DSW * r + c].b = d[<<r, c>>].b
    BY CellsAgree DEF d, ds
  <2>5. QED BY <2>2, <2>3, <2>4
<1>4. \A k \in 0..N_LBP-1 : c1[k+1] <=> k \in A
  <2>1. \A k \in 0..N_LBP-1 : k + 1 \in 1..N_LBP BY Counts
  <2>2. QED BY <2>1, TextureAgrees
<1>5. \A k \in 0..COLOR_CELLS-1 : /\ c2[k+1] <=> k \in B
                                  /\ c3[k+1] <=> k \in C
                                  /\ c4[k+1] <=> k \in D
  <2>1. \A k \in 0..COLOR_CELLS-1 : k + 1 \in 1..COLOR_CELLS /\ (k + 1) - 1 = k BY Counts
  <2> HIDE DEF d, ds
  <2>2. QED BY <1>3, <2>1 DEF SkinCue
<1>6. /\ c1 = [i \in 1..N_LBP |-> c1[i]] /\ c2 = [i \in 1..COLOR_CELLS |-> c2[i]]
      /\ c3 = [i \in 1..COLOR_CELLS |-> c3[i]] /\ c4 = [i \in 1..COLOR_CELLS |-> c4[i]]
  OBVIOUS
<1>7. A \subseteq 0..N_LBP-1 /\ B \subseteq 0..COLOR_CELLS-1 /\ C \subseteq 0..COLOR_CELLS-1
      /\ D \subseteq 0..COLOR_CELLS-1
  OBVIOUS
<1> HIDE DEF c1, c2, c3, c4, A, B, C, D
<1>8. PICK n \in Nat, m \in Nat : n = N_LBP /\ m = COLOR_CELLS BY Counts
<1> DEFINE c == c1 \o c2 \o c3 \o c4
           S == {c1[i] : i \in 1..n} \cup {c2[i] : i \in 1..m}
                  \cup {c3[i] : i \in 1..m} \cup {c4[i] : i \in 1..m}
<1>9. /\ Len(c) = n + 3 * m
      /\ \A k \in 0..n-1 : c[k+1] = c1[k+1]
      /\ \A k \in 0..m-1 : /\ c[n + k + 1] = c2[k+1]
                           /\ c[n + m + k + 1] = c3[k+1]
                           /\ c[n + 2 * m + k + 1] = c4[k+1]
  <2>1. /\ \A i \in 1..n : c1[i] \in S
        /\ \A i \in 1..m : c2[i] \in S /\ c3[i] \in S /\ c4[i] \in S
    OBVIOUS
  <2> HIDE DEF S
  <2>2. c1 \in [1..n -> S] /\ c2 \in [1..m -> S] /\ c3 \in [1..m -> S] /\ c4 \in [1..m -> S]
    BY <1>6, <1>8, <2>1
  <2>3. /\ c1 \in Seq(S) /\ Len(c1) = n /\ c2 \in Seq(S) /\ Len(c2) = m
        /\ c3 \in Seq(S) /\ Len(c3) = m /\ c4 \in Seq(S) /\ Len(c4) = m
    BY <2>2
  <2>4. FourJoined(n, m, c1, c2, c3, c4, c) BY <2>3, JoinFour
  <2>5. QED BY <2>4 DEF FourJoined
<1>20. F = A \cup {n + k : k \in B} \cup {n + m + k : k \in C} \cup {n + 2 * m + k : k \in D}
  BY <1>8
<1>21. A \in SUBSET (0..n-1) /\ B \in SUBSET (0..m-1) /\ C \in SUBSET (0..m-1) /\ D \in SUBSET (0..m-1)
  BY <1>7, <1>8
<1> HIDE DEF c, F
<1>10. /\ F \subseteq 0..n+3*m-1
       /\ \A k \in 0..n-1 : k \in F <=> k \in A
       /\ \A k \in 0..m-1 : /\ n + k \in F <=> k \in B
                            /\ n + m + k \in F <=> k \in C
                            /\ n + 2 * m + k \in F <=> k \in D
  <2>1. FourUnited(n, m, A, B, C, D,
                   A \cup {n + k : k \in B} \cup {n + m + k : k \in C} \cup {n + 2 * m + k : k \in D})
    BY <1>21, UniteFour
  <2>2. FourUnited(n, m, A, B, C, D, F) BY <1>20, <2>1
  <2>3. QED BY <2>2 DEF FourUnited
<1>11. ASSUME NEW k \in 0..n+3*m-1 PROVE c[k+1] <=> k \in F
  <2>1. CASE k < n BY <1>4, <1>8, <1>9, <1>10, <2>1
  <2>2. CASE k >= n /\ k < n + m
    <3>1. PICK j \in 0..m-1 : k = n + j
      <4>1. k - n \in 0..m-1 /\ k = n + (k - n) BY <2>2
      <4>2. QED BY <4>1
    <3>2. QED BY <1>5, <1>8, <1>9, <1>10, <3>1
  <2>3. CASE k >= n + m /\ k < n + 2 * m
    <3>1. PICK j \in 0..m-1 : k = n + m + j
      <4>1. k - n - m \in 0..m-1 /\ k = n + m + (k - n - m) BY <2>3
      <4>2. QED BY <4>1
    <3>2. QED BY <1>5, <1>8, <1>9, <1>10, <3>1
  <2>4. CASE k >= n + 2 * m
    <3>1. PICK j \in 0..m-1 : k = n + 2 * m + j
      <4>1. k - n - 2 * m \in 0..m-1 /\ k = n + 2 * m + (k - n - 2 * m) BY <2>4
      <4>2. QED BY <4>1
    <3>2. QED BY <1>5, <1>8, <1>9, <1>10, <3>1
  <2>5. QED BY <2>1, <2>2, <2>3, <2>4
<1>12. N_FEATURES = n + 3 * m BY <1>8, Counts
<1>13. QED BY <1>1, <1>2, <1>9, <1>10, <1>11, <1>12 DEF c

\* What roi_featurize sets in its words are the literals pack_literals packs.
THEOREM FeaturesAgree ==
  ASSUME NEW patch \in Pictures
  PROVE  roi_featurize(patch) = pack_literals(featurize(patch))
<1> DEFINE cond == McuConditions(patch)
           feat == featurize(patch)
           bit(idx) == IF cond[idx+1] THEN idx ELSE N_FEATURES + idx
           set == {bit(idx) : idx \in 0..Len(cond)-1}
<1>1. /\ feat \subseteq 0..N_FEATURES-1 /\ Len(cond) = N_FEATURES
      /\ \A k \in 0..N_FEATURES-1 : cond[k+1] <=> k \in feat
  BY ConditionsAgree
<1>2. roi_featurize(patch) = [w \in 0..nwords(2*N_FEATURES)-1 |-> {b % WORD : b \in {x \in set : x \div WORD = w}}]
  BY DEF roi_featurize
<1> HIDE DEF cond, feat
<1>3. set = LiteralsOf(feat)
  <2>1. \A k \in 0..N_FEATURES-1 : bit(k) = IF k \in feat THEN k ELSE N_FEATURES + k BY <1>1
  <2>2. LiteralsOf(feat) = feat \cup {N_FEATURES + k : k \in (0..N_FEATURES-1) \ feat} BY DEF LiteralsOf
  <2>3. set = {bit(idx) : idx \in 0..N_FEATURES-1} BY <1>1
  <2> HIDE DEF bit, set
  <2>4. ASSUME NEW y \in set PROVE y \in LiteralsOf(feat)
    <3>1. PICK k \in 0..N_FEATURES-1 : y = bit(k) BY <2>3
    <3>2. QED BY <2>1, <2>2, <3>1
  <2>5. ASSUME NEW y \in LiteralsOf(feat) PROVE y \in set
    <3>1. CASE y \in feat
      <4>1. y \in 0..N_FEATURES-1 /\ bit(y) = y BY <1>1, <2>1, <3>1
      <4>2. QED BY <2>3, <4>1
    <3>2. CASE y \notin feat
      <4>1. PICK k \in (0..N_FEATURES-1) \ feat : y = N_FEATURES + k BY <2>2, <3>2
      <4>2. bit(k) = y BY <2>1, <4>1
      <4>3. QED BY <2>3, <4>2
    <3>3. QED BY <3>1, <3>2
  <2>6. QED BY <2>4, <2>5
<1>4. \A b \in set : b \in Nat
  <2>1. \A k \in 0..N_FEATURES-1 : k \in Nat /\ N_FEATURES + k \in Nat BY Counts
  <2>2. QED BY <1>1, <1>3, <2>1 DEF LiteralsOf
<1> HIDE DEF set
<1>5. ASSUME NEW w \in 0..nwords(2*N_FEATURES)-1
      PROVE  {b % WORD : b \in {x \in set : x \div WORD = w}} = {i \in 0..WORD-1 : w * WORD + i \in set}
  <2>1. WORD \in Nat \ {0} /\ w \in Nat BY RoiAssumption
  <2>2. ASSUME NEW b \in set, b \div WORD = w
        PROVE  b % WORD \in 0..WORD-1 /\ w * WORD + (b % WORD) = b
    <3>1. b \in Nat BY <1>4
    <3>2. b % WORD \in 0..WORD-1 /\ b = WORD * (b \div WORD) + (b % WORD) BY <2>1, <3>1, Quotient
    <3>3. WORD * w = w * WORD BY <2>1
    <3>4. QED BY <2>2, <3>2, <3>3
  <2>3. ASSUME NEW i \in 0..WORD-1, w * WORD + i \in set
        PROVE  (w * WORD + i) \div WORD = w /\ (w * WORD + i) % WORD = i
    <3>1. w \in 0..w+1-1 /\ w + 1 \in Nat BY <2>1
    <3>2. (WORD * w + i) \div WORD = w /\ (WORD * w + i) % WORD = i BY <2>1, <3>1, IndexOf
    <3>3. WORD * w = w * WORD BY <2>1
    <3>4. QED BY <3>2, <3>3
  <2>4. QED BY <2>2, <2>3
<1>6. pack_literals(feat) = [w \in 0..nwords(2*N_FEATURES)-1 |-> {i \in 0..WORD-1 : w * WORD + i \in set}]
  BY <1>3 DEF pack_literals, pack_bits
<1>7. roi_featurize(patch) = pack_literals(feat) BY <1>2, <1>5, <1>6
<1>8. QED BY <1>7 DEF feat

-----------------------------------------------------------------------------
(* The packed inference *)

\* Bit b of a vector of n bits is bit b % WORD of word b \div WORD.
LEMMA WordOf ==
  ASSUME NEW n \in Int, NEW b \in 0..n-1
  PROVE  /\ b \div WORD \in 0..nwords(n)-1
         /\ b % WORD \in 0..WORD-1
         /\ (b \div WORD) * WORD + (b % WORD) = b
<1> DEFINE q == b \div WORD
<1>1. WORD \in Nat \ {0} /\ b \in Nat /\ n \in Nat BY RoiAssumption DEF RoiAssumption
<1>2. q \in Nat /\ b % WORD \in 0..WORD-1 /\ q * WORD + (b % WORD) = b
  <2>1. \A a \in Nat, d \in Nat \ {0} : a \div d \in Int /\ a % d \in 0..d-1 /\ a = d * (a \div d) + (a % d)
    OBVIOUS
  <2>2. \A a \in Nat, d \in Nat \ {0} : a \div d >= 0 OBVIOUS
  <2>3. q \in Int /\ q >= 0 /\ b % WORD \in 0..WORD-1 /\ b = WORD * q + (b % WORD) BY <1>1, <2>1, <2>2
  <2>4. WORD * q = q * WORD BY <1>1, <2>3
  <2> QED BY <2>3, <2>4
<1>3. q <= nwords(n) - 1 /\ nwords(n) \in Int
  <2>1. nwords(n) = (n + WORD - 1) \div WORD BY DEF nwords
  <2> DEFINE m == n + WORD - 1
             p == m \div WORD
  <2>2. m \in Nat /\ p \in Nat /\ m < (p + 1) * WORD BY <1>1
  <2>3. (q + 1) * WORD <= m
    <3>1. q * WORD <= n - 1 BY <1>1, <1>2
    <3>2. q * WORD \in Int /\ (q + 1) * WORD = q * WORD + WORD BY <1>1, <1>2
    <3> QED BY <1>1, <3>1, <3>2
  <2>4. (q + 1) * WORD < (p + 1) * WORD BY <1>1, <1>2, <2>2, <2>3
  <2>5. q < p BY <1>1, <1>2, <2>2, <2>4
  <2> QED BY <1>2, <2>1, <2>2, <2>5
<1> QED BY <1>2, <1>3

\* A mask is within the literals, word by word, when the set it packs is.
LEMMA PackedSubset ==
  ASSUME NEW n \in Int, NEW mask \in SUBSET (0..n-1), NEW bits
  PROVE  (\A w \in 0..nwords(n)-1 :
            pack_bits(bits, n)[w] \cap pack_bits(mask, n)[w] = pack_bits(mask, n)[w])
         <=> mask \subseteq bits
<1>1. \A w \in 0..nwords(n)-1 :
        /\ pack_bits(bits, n)[w] = {i \in 0..WORD-1 : w * WORD + i \in bits}
        /\ pack_bits(mask, n)[w] = {i \in 0..WORD-1 : w * WORD + i \in mask}
  BY DEF pack_bits
<1>2. ASSUME mask \subseteq bits, NEW w \in 0..nwords(n)-1
      PROVE  pack_bits(bits, n)[w] \cap pack_bits(mask, n)[w] = pack_bits(mask, n)[w]
  BY <1>1, <1>2
<1>3. ASSUME \A w \in 0..nwords(n)-1 :
               pack_bits(bits, n)[w] \cap pack_bits(mask, n)[w] = pack_bits(mask, n)[w],
             NEW b \in mask
      PROVE  b \in bits
  <2> DEFINE w == b \div WORD
             i == b % WORD
  <2>1. w \in 0..nwords(n)-1 /\ i \in 0..WORD-1 /\ w * WORD + i = b
    <3>1. b \in 0..n-1 OBVIOUS
    <3>2. b \div WORD \in 0..nwords(n)-1 /\ b % WORD \in 0..WORD-1 /\ (b \div WORD) * WORD + (b % WORD) = b
      BY <3>1, WordOf
    <3> QED BY <3>2
  <2> HIDE DEF w, i
  <2>2. i \in pack_bits(mask, n)[w] BY <1>1, <2>1
  <2>3. i \in pack_bits(bits, n)[w] BY <1>3, <2>1, <2>2
  <2> QED BY <1>1, <2>1, <2>3
<1> QED BY <1>2, <1>3

\* The number of literals.
LEMMA NLITType == NLIT \in Int
<1>1. ROI_COLS \in Nat /\ ROI_ROWS \in Nat BY RoiAssumption DEF RoiAssumption
<1>2. DSW \in Int /\ DSH \in Int BY <1>1 DEF DSW, DSH, DS
<1>3. (DSW - 2) * (DSH - 2) \in Int /\ DSW * DSH \in Int BY <1>2
<1> QED BY <1>3 DEF NLIT, N_FEATURES, N_LBP, LBP_CELLS, COLOR_CELLS

\* infer_packed with the packed masks and literals takes the vote that
\* _update_one takes with the clauses as they are, and decides by it.
THEOREM PackedVote ==
  ASSUME NEW t, NEW x, NEW threshold
  PROVE  /\ infer_packed(masks(t), pack_literals(x), threshold).vote = Vote(t, x)
         /\ infer_packed(masks(t), pack_literals(x), threshold).predict = (Vote(t, x) >= threshold)
<1> DEFINE words == pack_literals(x)
           lit == LiteralsOf(x)
           fires == {j \in Clauses : \A w \in DOMAIN words : words[w] \cap masks(t)[j][w] = masks(t)[j][w]}
<1>1. words = pack_bits(lit, NLIT) /\ DOMAIN words = 0..nwords(NLIT)-1
  BY DEF pack_literals, NLIT, pack_bits
<1>2. ASSUME NEW j \in Clauses
      PROVE  (\A w \in DOMAIN words : words[w] \cap masks(t)[j][w] = masks(t)[j][w])
             <=> _include(t)[j] \subseteq lit
  <2>1. masks(t)[j] = pack_bits(_include(t)[j], NLIT) BY DEF masks
  <2> DEFINE mask == _include(t)[j]
  <2>2. mask \in SUBSET (0..NLIT-1) BY DEF _include
  <2>3. (\A w \in 0..nwords(NLIT)-1 :
           pack_bits(lit, NLIT)[w] \cap pack_bits(mask, NLIT)[w] = pack_bits(mask, NLIT)[w])
        <=> mask \subseteq lit
    <3> HIDE DEF mask, lit
    <3> QED BY <2>2, NLITType, PackedSubset
  <2> QED BY <1>1, <2>1, <2>3
<1>3. fires = _clause_outputs(lit, _include(t)) BY <1>2 DEF _clause_outputs
<1>4. infer_packed(masks(t), words, threshold) = [predict |-> Tally(fires) >= threshold, vote |-> Tally(fires)]
  BY DEF infer_packed
<1>5. Vote(t, x) = Tally(fires) BY <1>3 DEF Vote
<1> QED BY <1>4, <1>5

-----------------------------------------------------------------------------
(* The exported lists and the votes *)

\* The bits of a packed mask.
MaskBits == nwords(NLIT) * WORD

Included(mask, L) == (L % WORD) \in mask[L \div WORD]

\* f[k] lists the ones of the first k bits, as the lists are made.
Indexed(mask, n, f) ==
  f = [k \in 0..n |-> IF k = 0 THEN <<>>
                      ELSE IF ((k - 1) % WORD) \in mask[(k - 1) \div WORD] THEN Append(f[k-1], k - 1)
                      ELSE f[k-1]]

\* Each bit is listed, or not, after those before it.
LEMMA ListStep ==
  ASSUME NEW mask, NEW n \in Nat, NEW f, Indexed(mask, n, f)
  PROVE  /\ f[0] = <<>>
         /\ \A k \in 0..n-1 : f[k+1] = IF Included(mask, k) THEN Append(f[k], k) ELSE f[k]
<1>1. \A k \in 0..n : f[k] = IF k = 0 THEN <<>>
                             ELSE IF ((k - 1) % WORD) \in mask[(k - 1) \div WORD] THEN Append(f[k-1], k - 1)
                             ELSE f[k-1]
  BY Zenon DEF Indexed
<1>2. f[0] = <<>> BY <1>1
<1>3. ASSUME NEW k \in 0..n-1
      PROVE  f[k+1] = IF Included(mask, k) THEN Append(f[k], k) ELSE f[k]
  <2>1. k + 1 \in 0..n /\ k + 1 # 0 /\ (k + 1) - 1 = k OBVIOUS
  <2>2. QED BY <1>1, <2>1 DEF Included
<1>4. QED BY <1>2, <1>3

\* The recursion that makes a list defines one.
LEMMA ListExists ==
  ASSUME NEW mask, NEW n \in Nat
  PROVE  \E f : Indexed(mask, n, f)
<1> DEFINE N == {m \in Nat : \E f : Indexed(mask, m, f)}
<1>1. 0 \in N
  <2> DEFINE f == [k \in 0..0 |-> <<>>]
  <2>1. Indexed(mask, 0, f) BY DEF Indexed
  <2>2. QED BY <2>1
<1>2. ASSUME NEW m \in Nat, m \in N PROVE m + 1 \in N
  <2>1. PICK f : Indexed(mask, m, f) BY <1>2
  <2>2. /\ f[0] = <<>>
        /\ \A k \in 0..m-1 : f[k+1] = IF Included(mask, k) THEN Append(f[k], k) ELSE f[k]
    BY <2>1, ListStep
  <2> DEFINE g == [k \in 0..m+1 |-> IF k <= m THEN f[k]
                                    ELSE IF Included(mask, m) THEN Append(f[m], m) ELSE f[m]]
  <2>3. ASSUME NEW k \in 0..m+1
        PROVE  g[k] = IF k = 0 THEN <<>>
                      ELSE IF ((k - 1) % WORD) \in mask[(k - 1) \div WORD] THEN Append(g[k-1], k - 1)
                      ELSE g[k-1]
    <3>1. CASE k = 0 BY <2>2, <3>1
    <3>2. CASE k # 0 /\ k <= m
      <4>1. PICK i \in 0..m-1 : k = i + 1
        <5>1. k - 1 \in 0..m-1 /\ k = (k - 1) + 1 BY <3>2
        <5>2. QED BY <5>1
      <4>2. g[k] = f[k] /\ k - 1 = i /\ g[i] = f[i] BY <3>2, <4>1
      <4> HIDE DEF g
      <4>3. QED BY <2>2, <3>2, <4>1, <4>2 DEF Included
    <3>3. CASE k = m + 1
      <4>1. g[m+1] = IF Included(mask, m) THEN Append(f[m], m) ELSE f[m]
        <5>1. m + 1 \in 0..m+1 /\ ~ (m + 1 <= m) OBVIOUS
        <5>2. QED BY <5>1
      <4>2. g[m] = f[m] /\ k - 1 = m /\ k # 0 BY <3>3
      <4> HIDE DEF g
      <4>3. QED BY <3>3, <4>1, <4>2 DEF Included
    <3>4. QED BY <3>1, <3>2, <3>3
  <2>4. g = [k \in 0..m+1 |-> g[k]] OBVIOUS
  <2> HIDE DEF g
  <2>5. Indexed(mask, m + 1, g) BY <2>3, <2>4 DEF Indexed
  <2>6. QED BY <2>5
<1> HIDE DEF N
<1>3. Nat \subseteq N BY <1>1, <1>2, Induction
<1>4. QED BY <1>3 DEF N

\* A list of the ones of the first n bits of a mask.
ListOf(mask, n, s) ==
  /\ s \in Seq(Nat)
  /\ \A t \in 1..Len(s) : s[t] \in 0..n-1 /\ Included(mask, s[t])
  /\ \A L \in 0..n-1 : Included(mask, L) => \E t \in 1..Len(s) : s[t] = L

\* One more bit is listed when it is a one.
LEMMA ListGrows ==
  ASSUME NEW mask, NEW n \in Nat, NEW s, ListOf(mask, n, s)
  PROVE  ListOf(mask, n + 1, IF Included(mask, n) THEN Append(s, n) ELSE s)
<1>1. CASE Included(mask, n)
  <2> DEFINE a == Append(s, n)
  <2>1. /\ a \in Seq(Nat) /\ Len(a) = Len(s) + 1 /\ Len(s) \in Nat
        /\ \A t \in 1..Len(s) : a[t] = s[t]
        /\ a[Len(s) + 1] = n
    BY DEF ListOf
  <2> HIDE DEF a
  <2>2. ASSUME NEW t \in 1..Len(a) PROVE a[t] \in 0..n /\ Included(mask, a[t])
    <3>1. CASE t <= Len(s)
      <4>1. t \in 1..Len(s) BY <2>1, <3>1
      <4>2. a[t] = s[t] /\ s[t] \in 0..n-1 /\ Included(mask, s[t]) BY <2>1, <4>1 DEF ListOf
      <4>3. QED BY <4>2
    <3>2. CASE t = Len(s) + 1 BY <1>1, <2>1, <3>2
    <3>3. QED BY <2>1, <3>1, <3>2
  <2>3. ASSUME NEW L \in 0..n, Included(mask, L) PROVE \E t \in 1..Len(a) : a[t] = L
    <3>1. CASE L = n
      <4>1. Len(s) + 1 \in 1..Len(a) BY <2>1
      <4>2. QED BY <2>1, <3>1, <4>1
    <3>2. CASE L # n
      <4>1. L \in 0..n-1 BY <3>2
      <4>2. PICK t \in 1..Len(s) : s[t] = L BY <2>3, <4>1 DEF ListOf
      <4>3. t \in 1..Len(a) /\ a[t] = L BY <2>1, <4>2
      <4>4. QED BY <4>3
    <3>3. QED BY <3>1, <3>2
  <2>4. (n + 1) - 1 = n OBVIOUS
  <2>5. ListOf(mask, n + 1, a) BY <2>1, <2>2, <2>3, <2>4 DEF ListOf
  <2>6. QED BY <1>1, <2>5 DEF a
<1>2. CASE ~ Included(mask, n)
  <2>1. \A t \in 1..Len(s) : s[t] \in 0..n BY DEF ListOf
  <2>2. \A L \in 0..n : Included(mask, L) => L \in 0..n-1 BY <1>2
  <2>3. (n + 1) - 1 = n OBVIOUS
  <2>4. ListOf(mask, n + 1, s) BY <2>1, <2>2, <2>3 DEF ListOf
  <2>5. QED BY <1>2, <2>4
<1>3. QED BY <1>1, <1>2

\* After n bits the list has their ones.
LEMMA Listed ==
  ASSUME NEW mask, NEW n \in Nat, NEW f, Indexed(mask, n, f)
  PROVE  ListOf(mask, n, f[n])
<1> DEFINE N == {k \in Nat : k <= n => ListOf(mask, k, f[k])}
<1>1. /\ f[0] = <<>>
      /\ \A k \in 0..n-1 : f[k+1] = IF Included(mask, k) THEN Append(f[k], k) ELSE f[k]
  BY ListStep
<1>2. 0 \in N
  <2>1. ListOf(mask, 0, <<>>) BY DEF ListOf
  <2>2. QED BY <1>1, <2>1
<1>3. ASSUME NEW k \in Nat, k \in N PROVE k + 1 \in N
  <2>1. SUFFICES ASSUME k + 1 <= n PROVE ListOf(mask, k + 1, f[k+1]) OBVIOUS
  <2>2. k \in 0..n-1 BY <2>1
  <2>3. f[k+1] = IF Included(mask, k) THEN Append(f[k], k) ELSE f[k] BY <1>1, <2>2
  <2>4. ListOf(mask, k, f[k]) BY <1>3, <2>1
  <2>5. ListOf(mask, k + 1, IF Included(mask, k) THEN Append(f[k], k) ELSE f[k]) BY <2>4, ListGrows
  <2>6. QED BY <2>3, <2>5
<1> HIDE DEF N
<1>4. Nat \subseteq N BY <1>2, <1>3, Induction
<1>5. QED BY <1>4 DEF N

\* The numbers of literals, words and bits.
LEMMA BitsType == MaskBits \in Nat /\ nwords(NLIT) \in Nat /\ NLIT \in Nat /\ WORD \in Nat \ {0}
<1>1. NLIT \in Nat BY Counts DEF NLIT
<1>2. WORD \in Nat \ {0} BY RoiAssumption
<1>3. PICK a \in Nat : a = NLIT + WORD - 1 BY <1>1, <1>2
<1>4. a \div WORD \in Nat BY <1>2, Quotient
<1>5. nwords(NLIT) \in Nat BY <1>3, <1>4 DEF nwords
<1>6. QED BY <1>1, <1>2, <1>5 DEF MaskBits

\* The list of a clause has the indices of the ones of its mask.
LEMMA ClauseListed ==
  ASSUME NEW ms, NEW j \in Clauses
  PROVE  ListOf(ms[j], MaskBits, clause_literals(ms)[j])
<1> DEFINE f == CHOOSE f : Indexed(ms[j], MaskBits, f)
<1>1. clause_literals(ms)[j] = f[MaskBits] BY DEF clause_literals, Indexed, MaskBits
<1>2. Indexed(ms[j], MaskBits, f) BY ListExists, BitsType
<1> HIDE DEF f
<1>3. ListOf(ms[j], MaskBits, f[MaskBits]) BY <1>2, BitsType, Listed
<1>4. QED BY <1>1, <1>3

\* f[k] is where the list of clause k begins, as tm_votes counts.
Offsets(len, n, f) == f = [j \in 0..n |-> IF j = 0 THEN 0 ELSE f[j-1] + len[j-1]]

\* The recursion that counts the offsets defines them.
LEMMA OffsetExists ==
  ASSUME NEW len, NEW n \in Nat
  PROVE  \E f : Offsets(len, n, f)
<1> DEFINE N == {m \in Nat : \E f : Offsets(len, m, f)}
<1>1. 0 \in N
  <2> DEFINE f == [j \in 0..0 |-> 0]
  <2>1. Offsets(len, 0, f) BY DEF Offsets
  <2>2. QED BY <2>1
<1>2. ASSUME NEW m \in Nat, m \in N PROVE m + 1 \in N
  <2>1. PICK f : Offsets(len, m, f) BY <1>2
  <2>2. \A j \in 0..m : f[j] = IF j = 0 THEN 0 ELSE f[j-1] + len[j-1] BY <2>1, Zenon DEF Offsets
  <2> DEFINE g == [j \in 0..m+1 |-> IF j <= m THEN f[j] ELSE f[m] + len[m]]
  <2>3. ASSUME NEW j \in 0..m+1 PROVE g[j] = IF j = 0 THEN 0 ELSE g[j-1] + len[j-1]
    <3>1. CASE j = 0 BY <2>2, <3>1
    <3>2. CASE j # 0 /\ j <= m
      <4>1. j \in 0..m /\ g[j] = f[j] /\ g[j-1] = f[j-1] BY <3>2
      <4> HIDE DEF g
      <4>2. QED BY <2>2, <3>2, <4>1
    <3>3. CASE j = m + 1
      <4>1. g[m+1] = f[m] + len[m]
        <5>1. m + 1 \in 0..m+1 /\ ~ (m + 1 <= m) OBVIOUS
        <5>2. QED BY <5>1
      <4>2. g[m] = f[m] /\ j - 1 = m /\ j # 0 BY <3>3
      <4> HIDE DEF g
      <4>3. QED BY <3>3, <4>1, <4>2
    <3>4. QED BY <3>1, <3>2, <3>3
  <2>4. g = [j \in 0..m+1 |-> g[j]] OBVIOUS
  <2> HIDE DEF g
  <2>5. Offsets(len, m + 1, g) BY <2>3, <2>4 DEF Offsets
  <2>6. QED BY <2>5
<1> HIDE DEF N
<1>3. Nat \subseteq N BY <1>1, <1>2, Induction
<1>4. QED BY <1>3 DEF N

\* The literals a clause looks up are those of its list.
ListPlaced(header, lits, off) ==
  \A j \in Clauses : /\ header.clause_len[j] = Len(lits[j]) /\ Len(lits[j]) \in Nat
                     /\ \A t \in 1..Len(lits[j]) : header.lit[off[j] + t] = lits[j][t]

\* With the lists end to end, tm_votes finds the list of every clause.
LEMMA Exported ==
  ASSUME NEW ms, NEW threshold, NEW off, Offsets(export_header(ms, threshold).clause_len, CLAUSES, off)
  PROVE  ListPlaced(export_header(ms, threshold), clause_literals(ms), off)
<1> DEFINE lits == clause_literals(ms)
           s == [j \in 1..CLAUSES |-> lits[j-1]]
           header == export_header(ms, threshold)
<1>1. CLAUSES \in Nat \ {0} /\ Clauses = 0..CLAUSES-1 BY MachineAssumption DEF Clauses
<1>2. /\ header.clause_len = [j \in Clauses |-> Len(lits[j])] /\ header.lit = FlattenSeq(s)
  BY DEF export_header
<1>3. \A j \in Clauses : lits[j] \in Seq(Nat) BY ClauseListed DEF ListOf
<1>4. /\ off[0] = 0
      /\ \A j \in 1..CLAUSES : off[j] = off[j-1] + header.clause_len[j-1]
  <2>1. \A j \in 0..CLAUSES : off[j] = IF j = 0 THEN 0 ELSE off[j-1] + header.clause_len[j-1]
    BY Zenon DEF Offsets
  <2> HIDE DEF header
  <2>2. QED BY <1>1, <2>1
<1> HIDE DEF header, lits
<1>5. \A k \in 1..CLAUSES : k - 1 \in Clauses /\ s[k] = lits[k-1] BY <1>1
<1>6. s \in Seq(Seq(Nat)) /\ Len(s) = CLAUSES
  <2> DEFINE S == Seq(Nat)
  <2>1. \A k \in 1..CLAUSES : lits[k-1] \in S BY <1>3, <1>5
  <2> HIDE DEF S
  <2>2. s \in [1..CLAUSES -> S] BY <2>1
  <2>3. s \in Seq(S) /\ Len(s) = CLAUSES BY <1>1, <2>2
  <2>4. QED BY <2>3 DEF S
<1>7. \A k \in 1..Len(s) : off[k] = off[k-1] + Len(s[k])
  <2>1. \A k \in 1..CLAUSES : header.clause_len[k-1] = Len(s[k]) BY <1>2, <1>5
  <2> HIDE DEF s
  <2>2. QED BY <1>4, <1>6, <2>1
<1> HIDE DEF s
<1>8. /\ off[Len(s)] \in Nat /\ Len(FlattenSeq(s)) = off[Len(s)]
      /\ \A k \in 1..Len(s) :
           /\ off[k-1] \in Nat
           /\ \A i \in 1..Len(s[k]) :
                /\ off[k-1] + i \in 1..off[Len(s)]
                /\ FlattenSeq(s)[off[k-1] + i] = s[k][i]
  <2>1. Len(s) # 0 BY <1>1, <1>6
  <2>2. off[0] = 0 BY <1>4
  <2>3. s \in Seq(Seq(Nat)) BY <1>6
  <2>4. QED BY <1>7, <2>1, <2>2, <2>3, FlattenOffsets
<1>9. ASSUME NEW j \in Clauses
      PROVE  /\ header.clause_len[j] = Len(lits[j]) /\ Len(lits[j]) \in Nat
             /\ \A t \in 1..Len(lits[j]) : header.lit[off[j] + t] = lits[j][t]
  <2>1. PICK k \in 1..CLAUSES : j = k - 1
    <3>1. j + 1 \in 1..CLAUSES /\ j = (j + 1) - 1 BY <1>1
    <3>2. QED BY <3>1
  <2>2. s[k] = lits[j] /\ lits[j] \in Seq(Nat) BY <1>3, <1>5, <2>1
  <2>3. \A t \in 1..Len(s[k]) : FlattenSeq(s)[off[j] + t] = s[k][t] BY <1>6, <1>8, <2>1
  <2>4. QED BY <1>2, <2>2, <2>3
<1>10. ListPlaced(header, lits, off) BY <1>9 DEF ListPlaced
<1>11. QED BY <1>10 DEF header, lits

\* Every literal of the list is set when the mask is within the words.
LEMMA ListWithin ==
  ASSUME NEW mask, NEW words, NEW s, ListOf(mask, MaskBits, s),
         \A w \in 0..nwords(NLIT)-1 : mask[w] \subseteq 0..WORD-1
  PROVE  (\A t \in 1..Len(s) : (s[t] % WORD) \in words[s[t] \div WORD])
         <=> \A w \in 0..nwords(NLIT)-1 : words[w] \cap mask[w] = mask[w]
<1> DEFINE n == nwords(NLIT)
<1>1. n \in Nat /\ WORD \in Nat \ {0} /\ MaskBits = WORD * n BY BitsType DEF MaskBits
<1>2. ASSUME \A t \in 1..Len(s) : (s[t] % WORD) \in words[s[t] \div WORD],
             NEW w \in 0..n-1, NEW i \in mask[w]
      PROVE  i \in words[w]
  <2>1. i \in 0..WORD-1 OBVIOUS
  <2>2. PICK L : L = WORD * w + i OBVIOUS
  <2>3. L \in 0..MaskBits-1 /\ L \div WORD = w /\ L % WORD = i
    <3> HIDE DEF n
    <3>1. QED BY <1>1, <2>1, <2>2, IndexOf
  <2>4. PICK t \in 1..Len(s) : s[t] = L BY <2>3 DEF ListOf, Included
  <2>5. QED BY <1>2, <2>3, <2>4
<1>3. ASSUME \A w \in 0..n-1 : words[w] \cap mask[w] = mask[w], NEW t \in 1..Len(s)
      PROVE  (s[t] % WORD) \in words[s[t] \div WORD]
  <2>1. s[t] \in 0..MaskBits-1 /\ (s[t] % WORD) \in mask[s[t] \div WORD] BY DEF ListOf, Included
  <2>2. s[t] \div WORD \in 0..n-1
    <3>1. PICK L \in 0..WORD*n-1 : L = s[t] BY <1>1, <2>1
    <3> HIDE DEF n
    <3>2. L \in Nat /\ L < WORD * n
      <4>1. PICK N \in Nat : N = WORD * n
        <5>1. WORD * n \in Nat BY <1>1
        <5>2. QED BY <5>1
      <4>2. QED BY <4>1
    <3>3. L \div WORD \in 0..n-1 BY <1>1, <3>2, Below
    <3>4. QED BY <3>1, <3>3
  <2>3. QED BY <1>3, <2>1, <2>2
<1>4. QED BY <1>2, <1>3

\* The packed masks are within words.
LEMMA MaskWords ==
  ASSUME NEW t, NEW j \in Clauses, NEW w \in 0..nwords(NLIT)-1
  PROVE  masks(t)[j][w] \subseteq 0..WORD-1
BY DEF masks, pack_bits

\* The clauses whose packed mask is within the words.
Firing(ms, words) == {j \in Clauses : \A w \in DOMAIN words : words[w] \cap ms[j][w] = ms[j][w]}

\* The microcontroller counts the clauses that fire on the host.
THEOREM VotesAgree ==
  ASSUME NEW t, NEW threshold, NEW words, DOMAIN words = 0..nwords(NLIT)-1
  PROVE  /\ tm_votes(export_header(masks(t), threshold), words).face =
              Cardinality(Firing(masks(t), words) \cap Positive)
         /\ tm_votes(export_header(masks(t), threshold), words).nonface =
              Cardinality(Firing(masks(t), words) \ Positive)
<1> DEFINE ms == masks(t)
           header == export_header(ms, threshold)
           lits == clause_literals(ms)
           off == CHOOSE f : Offsets(header.clause_len, CLAUSES, f)
           out(j) == \A i \in 1..header.clause_len[j] :
                       (header.lit[off[j] + i] % WORD) \in words[header.lit[off[j] + i] \div WORD]
<1>1. /\ tm_votes(header, words).face = Cardinality({j \in Positive : out(j)})
      /\ tm_votes(header, words).nonface = Cardinality({j \in Clauses \ Positive : out(j)})
  <2> HIDE DEF header
  <2>1. QED BY DEF tm_votes, Offsets
<1>2. Offsets(header.clause_len, CLAUSES, off)
  <2>1. CLAUSES \in Nat BY MachineAssumption
  <2> HIDE DEF header
  <2>2. QED BY <2>1, OffsetExists
<1> HIDE DEF off
<1>3. ListPlaced(header, lits, off) BY <1>2, Exported
<1>4. ASSUME NEW j \in Clauses PROVE out(j) <=> j \in Firing(ms, words)
  <2>1. ListOf(ms[j], MaskBits, lits[j]) BY ClauseListed
  <2>2. (\A i \in 1..Len(lits[j]) : (lits[j][i] % WORD) \in words[lits[j][i] \div WORD])
        <=> \A w \in 0..nwords(NLIT)-1 : words[w] \cap ms[j][w] = ms[j][w]
    <3>1. \A w \in 0..nwords(NLIT)-1 : ms[j][w] \subseteq 0..WORD-1 BY MaskWords
    <3> HIDE DEF ms, lits
    <3>2. QED BY <2>1, <3>1, ListWithin
  <2> HIDE DEF header, ms, lits
  <2>3. out(j) <=> \A i \in 1..Len(lits[j]) : (lits[j][i] % WORD) \in words[lits[j][i] \div WORD]
    BY <1>3 DEF ListPlaced
  <2>4. QED BY <2>2, <2>3 DEF Firing
<1>5. Positive \subseteq Clauses
  <2>1. PICK n \in Nat : n = CLAUSES BY MachineAssumption
  <2>2. CLAUSES \div 2 \in Nat /\ CLAUSES \div 2 <= CLAUSES BY <2>1
  <2>3. QED BY <2>1, <2>2 DEF Positive, Clauses, pos
<1> HIDE DEF header, out
<1>6. /\ {j \in Positive : out(j)} = Firing(ms, words) \cap Positive
      /\ {j \in Clauses \ Positive : out(j)} = Firing(ms, words) \ Positive
  <2>1. Firing(ms, words) \subseteq Clauses BY DEF Firing
  <2> HIDE DEF ms
  <2>2. QED BY <1>4, <1>5, <2>1
<1>7. QED BY <1>1, <1>6 DEF header

-----------------------------------------------------------------------------
(* The heartbeat *)

\* The tallies of the clauses are small.
LEMMA VoteBound ==
  ASSUME NEW F \in SUBSET Clauses, NEW n \in Nat, CLAUSES <= 2 * n
  PROVE  /\ Cardinality(F \cap Positive) \in 0..n /\ Cardinality(F \ Positive) \in 0..n
<1>1. PICK c \in Nat, p \in Nat : c = CLAUSES /\ p = pos /\ c = 2 * p
  <2>1. CLAUSES \in Nat /\ CLAUSES % 2 = 0 BY MachineAssumption
  <2>2. PICK c \in Nat : c = CLAUSES BY <2>1
  <2>3. c \div 2 \in Nat /\ c = 2 * (c \div 2) BY <2>1, <2>2
  <2>4. pos = c \div 2 BY <2>2 DEF pos
  <2>5. QED BY <2>2, <2>3, <2>4
<1>2. Positive = 0..p-1 /\ Clauses = 0..c-1 /\ p <= n BY <1>1 DEF Positive, Clauses
<1>3. IsFiniteSet(0..p-1) /\ Cardinality(0..p-1) = p
  <2>1. 0 \in Int /\ p - 1 \in Int OBVIOUS
  <2>2. IsFiniteSet(0..p-1) /\ Cardinality(0..p-1) = IF 0 > p-1 THEN 0 ELSE (p-1) - 0 + 1
    BY <2>1, FS_Interval
  <2>3. QED BY <2>2
<1>4. IsFiniteSet(p..c-1) /\ Cardinality(p..c-1) = p
  <2>1. p \in Int /\ c - 1 \in Int OBVIOUS
  <2>2. IsFiniteSet(p..c-1) /\ Cardinality(p..c-1) = IF p > c-1 THEN 0 ELSE (c-1) - p + 1
    BY <2>1, FS_Interval
  <2>3. QED BY <1>1, <2>2
<1>5. F \cap Positive \in SUBSET (0..p-1) /\ F \ Positive \in SUBSET (p..c-1) BY <1>2
<1>6. /\ IsFiniteSet(F \cap Positive) /\ Cardinality(F \cap Positive) <= p
      /\ IsFiniteSet(F \ Positive) /\ Cardinality(F \ Positive) <= p
  BY <1>3, <1>4, <1>5, FS_Subset
<1>7. Cardinality(F \cap Positive) \in Nat /\ Cardinality(F \ Positive) \in Nat BY <1>6, FS_CardinalityType
<1>8. QED BY <1>2, <1>6, <1>7

\* What a heartbeat says.
Says(hb, host) == host.predict = (hb >= 128) /\ host.vote = (hb % 128) - 64

\* The vote and the decision can be read back from a heartbeat.
LEMMA BeatSays ==
  ASSUME NEW v \in -63..63, NEW yes \in BOOLEAN
  PROVE  LET hb == (IF yes THEN 128 ELSE 0) + Clip(v + 64, 0, 127)
         IN  yes = (hb >= 128) /\ v = (hb % 128) - 64
<1>1. PICK c \in 0..127 : c = v + 64 OBVIOUS
<1>2. Clip(v + 64, 0, 127) = c BY <1>1 DEF Clip
<1>3. PICK b \in 0..1 : b = IF yes THEN 1 ELSE 0 OBVIOUS
<1>4. (128 * b + c) % 128 = c
  <2>1. 128 \in Nat \ {0} /\ 2 \in Nat /\ b \in 0..2-1 /\ c \in 0..128-1 OBVIOUS
  <2>2. QED BY <2>1, IndexOf
<1>5. (IF yes THEN 128 ELSE 0) + c = 128 * b + c BY <1>3
<1>6. yes = (128 * b + c >= 128) BY <1>3
<1>7. v = c - 64 BY <1>1
<1>8. QED BY <1>2, <1>4, <1>5, <1>6, <1>7

\* With at most 126 clauses, the heartbeat of the board carries what the host
\* infers of the same region with the model that was exported: the vote is
\* never clipped.
THEOREM HeartbeatAgrees ==
  ASSUME CLAUSES <= 126, NEW t, NEW threshold, NEW patch \in Pictures
  PROVE  Says(HeartbeatOf(export_header(masks(t), threshold), patch),
              infer_packed(masks(t), pack_literals(featurize(patch)), threshold))
<1> DEFINE ms == masks(t)
           words == pack_literals(featurize(patch))
           F == Firing(ms, words)
           v == Tally(F)
           header == export_header(ms, threshold)
           yes == v >= threshold
<1>1. roi_featurize(patch) = words BY FeaturesAgree
<1>2. DOMAIN words = 0..nwords(NLIT)-1 BY DEF pack_literals, pack_bits, NLIT
<1>3. /\ tm_votes(header, words).face = Cardinality(F \cap Positive)
      /\ tm_votes(header, words).nonface = Cardinality(F \ Positive)
  <2> HIDE DEF words
  <2>1. QED BY <1>2, VotesAgree
<1>4. v \in -63..63
  <2>1. F \in SUBSET Clauses /\ 63 \in Nat /\ CLAUSES <= 2 * 63 BY DEF Firing
  <2> HIDE DEF F
  <2>2. Cardinality(F \cap Positive) \in 0..63 /\ Cardinality(F \ Positive) \in 0..63
    BY <2>1, VoteBound
  <2>3. QED BY <2>2 DEF Tally
<1>5. header.threshold = threshold BY DEF export_header
<1>6. infer_packed(ms, words, threshold) = [predict |-> yes, vote |-> v]
  BY DEF infer_packed, Firing
<1> HIDE DEF header, ms, words, F
<1>7. tm_votes(header, words).face - tm_votes(header, words).nonface = v BY <1>3 DEF Tally
<1> DEFINE hb == (IF yes THEN 128 ELSE 0) + Clip(v + 64, 0, 127)
<1>8. HeartbeatOf(header, patch) = hb
  BY <1>1, <1>5, <1>7 DEF HeartbeatOf
<1> HIDE DEF v
<1>9. yes = (hb >= 128) /\ v = (hb % 128) - 64
  <2>1. yes \in BOOLEAN OBVIOUS
  <2> HIDE DEF yes
  <2>2. QED BY <1>4, <2>1, BeatSays
<1> HIDE DEF hb, yes
<1>10. Says(HeartbeatOf(header, patch), infer_packed(ms, words, threshold)) BY <1>6, <1>8, <1>9 DEF Says
<1>11. QED BY <1>10 DEF header, ms, words

\* A region of a scene is a picture.
LEMMA ScenePicture == \A s \in Scenes : RoiOf(s) \in Pictures
<1> SUFFICES ASSUME NEW s \in Scenes PROVE RoiOf(s) \in Pictures OBVIOUS
<1>1. GridCells = ROI_CELLS
  BY PipelineAssumption DEF GridCells, ROI_CELLS
<1>2. \A k \in 1..GridCells : CellAddr(k) \in Nat /\ CellAddr(k) + 1 < FRAME_PIXELS BY RegionAssumption
<1>3. FRAME_PIXELS \in Nat BY StreamAssumption
<1>4. ASSUME NEW k \in 1..GridCells PROVE Colour(s, CellAddr(k) + 1) \in Pixels565
  <2>1. CellAddr(k) + 1 \in 0..FRAME_PIXELS-1 BY <1>2, <1>3
  <2>2. QED BY <2>1, ColourAssumption DEF Pixels565
<1>5. QED BY <1>1, <1>4 DEF RoiOf, Pictures

\* The model is what was trained, and an answer is of it.
DeployedInv ==
  /\ at = "deployed" => \E threshold : model = export_header(masks(ta), threshold)
  /\ heartbeat # 0 => at = "deployed" /\ scene \in Scenes /\ heartbeat = HeartbeatOf(model, RoiOf(scene))

\* Nothing is deployed at first.
LEMMA DeployedInit == PipelineInit => DeployedInv
BY DEF PipelineInit, DeployedInv

\* Every step of the pipeline keeps that.
LEMMA DeployedSteps == DeployedInv /\ [PipelineNext]_pipelineVars => DeployedInv'
<1> SUFFICES ASSUME DeployedInv, [PipelineNext]_pipelineVars PROVE DeployedInv' OBVIOUS
<1>1. CASE UNCHANGED trainerVars BY <1>1 DEF trainerVars, DeployedInv
<1>2. CASE load_samples BY <1>2 DEF load_samples, DeployedInv
<1>3. CASE Fit BY <1>3 DEF Fit, DeployedInv
<1>4. CASE Export BY <1>4 DEF Export, DeployedInv
<1>5. CASE Classify BY <1>5 DEF Classify, DeployedInv
<1>6. QED BY <1>1, <1>2, <1>3, <1>4, <1>5 DEF PipelineNext, Collects, pipelineVars

\* It is what the property needs.
LEMMA DeployedImplied == CLAUSES <= 126 /\ DeployedInv => DeployedAgrees
<1> SUFFICES ASSUME CLAUSES <= 126, DeployedInv PROVE DeployedAgrees OBVIOUS
<1>1. ASSUME heartbeat # 0
      PROVE  Says(heartbeat, infer_packed(masks(ta), pack_literals(featurize(RoiOf(scene))), model.threshold))
  <2>1. PICK threshold : model = export_header(masks(ta), threshold) BY <1>1 DEF DeployedInv
  <2>2. heartbeat = HeartbeatOf(model, RoiOf(scene)) /\ scene \in Scenes BY <1>1 DEF DeployedInv
  <2>3. model.threshold = threshold BY <2>1 DEF export_header
  <2>4. RoiOf(scene) \in Pictures BY <2>2, ScenePicture
  <2>5. Says(HeartbeatOf(export_header(masks(ta), threshold), RoiOf(scene)),
             infer_packed(masks(ta), pack_literals(featurize(RoiOf(scene))), threshold))
    BY <2>4, HeartbeatAgrees
  <2>6. QED BY <2>1, <2>2, <2>3, <2>5
<1>2. \A i \in DOMAIN trn :
        infer_packed(masks(ta), pack_literals(trn[i].x), THRESHOLD).vote = Vote(ta, trn[i].x)
  BY PackedVote
<1>3. QED BY <1>1, <1>2 DEF Says, DeployedAgrees

\* roi_tm.c and train_tm.py: whatever was collected and trained, with at most
\* 126 clauses (the default is 64) the heartbeat of the board says what the
\* host's inference says of the same region with the exported model, and the
\* packed masks vote as the clauses they pack.
THEOREM BoardAgrees == CLAUSES <= 126 => (PipelineSpec => []DeployedAgrees)
<1> SUFFICES ASSUME CLAUSES <= 126 PROVE PipelineSpec => []DeployedAgrees OBVIOUS
<1>1. DeployedInv => DeployedAgrees BY DeployedImplied
<1>2. QED BY DeployedInit, DeployedSteps, <1>1, PTL DEF PipelineSpec
=============================================================================
