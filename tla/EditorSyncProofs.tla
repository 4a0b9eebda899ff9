-------------------------- MODULE EditorSyncProofs --------------------------
(***************************************************************************)
(* Proofs about EditorActions and EditorSync, for maps, actions and        *)
(* requests of any size and any number of clients.                         *)
(*                                                                         *)
(* An action is described by its effect: a relation between the map before *)
(* and the map after it, which has no guards and nothing to correct.       *)
(*   1. Sequences, folds and places of a map: how to take apart and to put *)
(*      together again.                                                    *)
(*   2. The effect of each kind of action: doing it has that effect, and   *)
(*      when it had that effect on m, it can be done on m again and its    *)
(*      inverse on the map after it (ActionsAreUndone).                    *)
(*   3. Two actions merged have the effect of both (MergedEffect), and so  *)
(*      has a list of them (MergeLeads); redone, a list leads on, undone,  *)
(*      it leads back (RedoLeads, UndoLeads; MergedGroupsAreUndone).       *)
(*   4. The server's history is a row of maps with a list of actions from  *)
(*      each to the next (EditInv), and so are the messages on their way   *)
(*      to a client (ClientsInv).  From these follow the properties of     *)
(*      EditorSync and its refinement of UndoList.                         *)
(***************************************************************************)
EXTENDS EditorSync, TLAPS, SequenceTheorems, WellFoundedInduction, NaturalsInduction

(***************************************************************************)
(* Sequences.                                                              *)
(***************************************************************************)
\* Concatenation and parts of sequences, as names that the provers do not look into.
Cat(a, c) == a \o c
Part(s, i, j) == SubSeq(s, i, j)

\* Places of a sequence: after k of its elements, after all elements of a, and the
\* n elements from i on.
Within(s, k) == k \in 0 .. Len(s)
After(a, i) == i = Len(a) + 1
Long(t, n) == Len(t) = n
Fits(s, i, n) == i \in 1 .. Len(s) + 1 /\ n \in Nat /\ i + n - 1 <= Len(s)

LEMMA CatProperties ==
    ASSUME NEW S, NEW a \in Seq(S), NEW c \in Seq(S)
    PROVE  Cat(a, c) \in Seq(S) /\ Len(Cat(a, c)) = Len(a) + Len(c)
BY ConcatProperties DEF Cat

LEMMA CatAssociative ==
    ASSUME NEW S, NEW a \in Seq(S), NEW t \in Seq(S), NEW c \in Seq(S)
    PROVE  Cat(Cat(a, t), c) = Cat(a, Cat(t, c))
BY ConcatAssociative DEF Cat

\* A sequence is its first k elements and the rest.
LEMMA TwoParts ==
    ASSUME NEW S, NEW s \in Seq(S), NEW k, Within(s, k)
    PROVE  \E a, c \in Seq(S) : s = Cat(a, c) /\ Len(a) = k /\ Len(c) = Len(s) - k
<1> DEFINE a == SubSeq(s, 1, k)
           c == SubSeq(s, k + 1, Len(s))
<1>0. k \in 0 .. Len(s)  BY DEF Within
<1>1. Len(s) \in Nat /\ \A i \in 1 .. Len(s) : s[i] \in S  BY LenProperties, ElementOfSeq
<1>2. a \in Seq(S) /\ Len(a) = k  BY <1>0, <1>1, SubSeqProperties
<1>3. c \in Seq(S) /\ Len(c) = Len(s) - k
  <2>1. \A i \in k + 1 .. Len(s) : s[i] \in S  BY <1>0, <1>1
  <2>2. k + 1 \in Int /\ Len(s) \in Int  BY <1>0, <1>1
  <2>3. c \in Seq(S) /\ Len(c) = IF k + 1 <= Len(s) THEN Len(s) - (k + 1) + 1 ELSE 0
        BY <2>1, <2>2, SubSeqProperties
  <2> QED  BY <1>0, <1>1, <2>3
<1>4. Cat(a, c) = s
  <2>1. 1 \in 1 .. Len(s) + 1 /\ k \in 1 - 1 .. Len(s) /\ Len(s) \in k .. Len(s)  BY <1>0, <1>1
  <2>2. Cat(a, c) = SubSeq(s, 1, Len(s))  BY <2>1, ConcatAdjacentSubSeq DEF Cat
  <2> QED  BY <2>2, SubSeqFull
<1> QED  BY <1>2, <1>3, <1>4

\* The parts of a concatenation.
LEMMA PartsOfTwo ==
    ASSUME NEW S, NEW a \in Seq(S), NEW c \in Seq(S)
    PROVE  /\ SubSeq(Cat(a, c), 1, Len(a)) = a
           /\ SubSeq(Cat(a, c), Len(a) + 1, Len(a) + Len(c)) = c
<1>0. Len(a) \in Nat /\ Len(c) \in Nat  BY LenProperties
<1>1. SubSeq(Cat(a, c), 1, Len(a)) = a
  <2>1. CASE Len(a) = 0
    <3>1. a = <<>>  BY <2>1, EmptySeq
    <3>2. SubSeq(Cat(a, c), 1, 0) = <<>>  BY SubSeqEmpty
    <3> QED  BY <2>1, <3>1, <3>2
  <2>2. CASE Len(a) > 0
    <3>1. 1 \in 1 .. Len(a) /\ Len(a) \in 1 .. Len(a)  BY <1>0, <2>2
    <3>2. SubSeq(Cat(a, c), 1, Len(a)) = SubSeq(a, 1, Len(a))  BY <3>1, SubSeqOfConcat1 DEF Cat
    <3> QED  BY <3>2, SubSeqFull
  <2> QED  BY <1>0, <2>1, <2>2
<1>2. SubSeq(Cat(a, c), Len(a) + 1, Len(a) + Len(c)) = c
  <2>1. CASE Len(c) = 0
    <3>1. c = <<>>  BY <2>1, EmptySeq
    <3>2. Len(a) + Len(c) < Len(a) + 1  BY <1>0, <2>1
    <3>3. Len(a) + 1 \in Int /\ Len(a) + Len(c) \in Int  BY <1>0
    <3>4. SubSeq(Cat(a, c), Len(a) + 1, Len(a) + Len(c)) = <<>>  BY <3>2, <3>3, SubSeqEmpty
    <3> QED  BY <3>1, <3>4
  <2>2. CASE Len(c) > 0
    <3>1. /\ Len(a) + 1 \in Len(a) + 1 .. Len(a) + Len(c)
          /\ Len(a) + Len(c) \in Len(a) + 1 .. Len(a) + Len(c)
          /\ Len(a) + 1 - Len(a) = 1 /\ Len(a) + Len(c) - Len(a) = Len(c)
          BY <1>0, <2>2
    <3>2. SubSeq(Cat(a, c), Len(a) + 1, Len(a) + Len(c)) = SubSeq(c, 1, Len(c))
          BY <3>1, SubSeqOfConcat2 DEF Cat
    <3> QED  BY <3>2, SubSeqFull
  <2> QED  BY <1>0, <2>1, <2>2
<1> QED  BY <1>1, <1>2

LEMMA PartsOfThree ==
    ASSUME NEW S, NEW a \in Seq(S), NEW t \in Seq(S), NEW c \in Seq(S)
    PROVE  LET s == Cat(Cat(a, t), c)
           IN  /\ Len(s) = Len(a) + Len(t) + Len(c)
               /\ Part(s, 1, Len(a)) = a
               /\ Part(s, Len(a) + 1, Len(a) + Len(t)) = t
               /\ Part(s, Len(a) + Len(t) + 1, Len(s)) = c
<1>0. Len(a) \in Nat /\ Len(t) \in Nat /\ Len(c) \in Nat  BY LenProperties
<1>1. PICK b \in Seq(S) : b = Cat(a, t) /\ Len(b) = Len(a) + Len(t)  BY CatProperties
<1>2. PICK d \in Seq(S) : d = Cat(t, c) /\ Len(d) = Len(t) + Len(c)  BY CatProperties
<1>3. PICK s \in Seq(S) : s = Cat(b, c) /\ Len(s) = Len(b) + Len(c)  BY <1>1, CatProperties
<1>4. s = Cat(a, d)  BY <1>1, <1>2, <1>3, CatAssociative
<1>6. SubSeq(s, 1, Len(a)) = a /\ SubSeq(s, Len(a) + 1, Len(a) + Len(d)) = d
      BY <1>2, <1>4, PartsOfTwo
<1>7. SubSeq(s, Len(b) + 1, Len(b) + Len(c)) = c  BY <1>1, <1>3, PartsOfTwo
<1>8. SubSeq(s, Len(a) + 1, Len(a) + Len(t)) = t
  <2>1. CASE Len(t) = 0
    <3>1. t = <<>>  BY <2>1, EmptySeq
    <3>2. Len(a) + Len(t) < Len(a) + 1 /\ Len(a) + 1 \in Int /\ Len(a) + Len(t) \in Int
          BY <1>0, <2>1
    <3>3. SubSeq(s, Len(a) + 1, Len(a) + Len(t)) = <<>>  BY <3>2, SubSeqEmpty
    <3> QED  BY <3>1, <3>3
  <2>2. CASE Len(t) > 0
    <3>1. Len(a) + 1 \in 1 .. Len(b) /\ Len(a) + Len(t) \in 1 .. Len(b)  BY <1>0, <1>1, <2>2
    <3>2. SubSeq(s, Len(a) + 1, Len(a) + Len(t)) = SubSeq(b, Len(a) + 1, Len(a) + Len(t))
          BY <1>1, <1>3, <3>1, SubSeqOfConcat1 DEF Cat
    <3>3. SubSeq(b, Len(a) + 1, Len(a) + Len(t)) = t  BY <1>1, PartsOfTwo
    <3> QED  BY <3>2, <3>3
  <2> QED  BY <1>0, <2>1, <2>2
<1>9. SubSeq(s, Len(a) + Len(t) + 1, Len(s)) = c  BY <1>1, <1>3, <1>7
<1>10. Len(s) = Len(a) + Len(t) + Len(c)  BY <1>0, <1>1, <1>3
<1>11. /\ Part(s, 1, Len(a)) = a
       /\ Part(s, Len(a) + 1, Len(a) + Len(t)) = t
       /\ Part(s, Len(a) + Len(t) + 1, Len(s)) = c
       BY <1>6, <1>8, <1>9 DEF Part
<1> QED  BY <1>1, <1>3, <1>10, <1>11

LEMMA CatThree ==
    ASSUME NEW S, NEW a \in Seq(S), NEW t \in Seq(S), NEW c \in Seq(S)
    PROVE  Cat(Cat(a, t), c) \in Seq(S)
BY CatProperties

\* A sequence is what precedes, n elements, and what follows.
LEMMA ThreeParts ==
    ASSUME NEW S, NEW s \in Seq(S), NEW i, NEW n, Fits(s, i, n)
    PROVE  \E a, t, c \in Seq(S) :
              s = Cat(Cat(a, t), c) /\ After(a, i) /\ Long(t, n)
<1>0. Len(s) \in Nat /\ i \in 1 .. Len(s) + 1 /\ n \in Nat /\ i + n - 1 <= Len(s)
      BY LenProperties DEF Fits
<1>1. PICK k : k = i - 1  OBVIOUS
<1>2. Within(s, k)  BY <1>0, <1>1 DEF Within
<1>3. PICK a, d \in Seq(S) : s = Cat(a, d) /\ Len(a) = k /\ Len(d) = Len(s) - k
      BY <1>2, TwoParts
<1>4. Within(d, n)  BY <1>0, <1>1, <1>3 DEF Within
<1>5. PICK t, c \in Seq(S) : d = Cat(t, c) /\ Len(t) = n  BY <1>3, <1>4, TwoParts
<1>6. s = Cat(Cat(a, t), c)  BY <1>3, <1>5, CatAssociative
<1>7. After(a, i)  BY <1>0, <1>1, <1>3 DEF After
<1> QED  BY <1>3, <1>5, <1>6, <1>7 DEF Long

LEMMA SpliceInto ==
    ASSUME NEW S, NEW a \in Seq(S), NEW t \in Seq(S), NEW c \in Seq(S), NEW i, After(a, i)
    PROVE  Splice(Cat(a, c), i, t) = Cat(Cat(a, t), c)
<1>0. Len(a) \in Nat /\ Len(c) \in Nat  BY LenProperties
<1>1. Len(Cat(a, c)) = Len(a) + Len(c)  BY CatProperties
<1>2. SubSeq(Cat(a, c), 1, Len(a)) = a /\ SubSeq(Cat(a, c), Len(a) + 1, Len(Cat(a, c))) = c
      BY <1>1, PartsOfTwo
<1>3. i - 1 = Len(a) /\ i = Len(a) + 1  BY <1>0 DEF After
<1>4. \A s : Splice(s, i, t) = Cat(Cat(SubSeq(s, 1, i - 1), t), SubSeq(s, i, Len(s)))
      BY DEF Splice, Cat
<1> QED  BY <1>2, <1>3, <1>4

LEMMA CutOutOf ==
    ASSUME NEW S, NEW a \in Seq(S), NEW t \in Seq(S), NEW c \in Seq(S),
           NEW i, NEW n, After(a, i), Long(t, n)
    PROVE  LET s == Cat(Cat(a, t), c)
           IN  Cut(s, i, n) = Cat(a, c) /\ Part(s, i, i + n - 1) = t
<1>0. Len(a) \in Nat /\ Len(t) \in Nat /\ Len(t) = n  BY LenProperties DEF Long
<1>1. Cat(Cat(a, t), c) \in Seq(S)  BY CatThree
<1>2. PICK s \in Seq(S) : s = Cat(Cat(a, t), c)  BY <1>1
<1>3. /\ Part(s, 1, Len(a)) = a
      /\ Part(s, Len(a) + 1, Len(a) + Len(t)) = t
      /\ Part(s, Len(a) + Len(t) + 1, Len(s)) = c
      BY <1>2, PartsOfThree
<1>4. /\ i - 1 = Len(a) /\ i = Len(a) + 1
      /\ i + n - 1 = Len(a) + Len(t)
      /\ i + n = Len(a) + Len(t) + 1
  <2>1. i = Len(a) + 1 /\ n \in Nat  BY <1>0 DEF After
  <2> QED  BY <1>0, <2>1
<1>5. Cut(s, i, n) = Cat(Part(s, 1, i - 1), Part(s, i + n, Len(s)))
      BY DEF Cut, Cat, Part
<1>6. Cut(s, i, n) = Cat(a, c)  BY <1>3, <1>4, <1>5
<1>7. Part(s, i, i + n - 1) = t  BY <1>3, <1>4
<1> QED  BY <1>2, <1>6, <1>7

\* What was put in can be taken out again.
LEMMA CutSpliced ==
    ASSUME NEW S, NEW s \in Seq(S), NEW i, NEW t \in Seq(S), NEW n, Fits(s, i, 0), Long(t, n)
    PROVE  /\ Splice(s, i, t) \in Seq(S)
           /\ Len(Splice(s, i, t)) = Len(s) + n
           /\ Fits(Splice(s, i, t), i, n)
           /\ Part(Splice(s, i, t), i, i + n - 1) = t
           /\ Cut(Splice(s, i, t), i, n) = s
<1>0. Len(s) \in Nat /\ Len(t) \in Nat /\ i \in 1 .. Len(s) + 1 /\ n = Len(t)
      BY LenProperties DEF Fits, Long
<1>1. PICK k : k = i - 1  OBVIOUS
<1>2. Within(s, k)  BY <1>0, <1>1 DEF Within
<1>3. PICK a, c \in Seq(S) : s = Cat(a, c) /\ Len(a) = k /\ Len(c) = Len(s) - k
      BY <1>2, TwoParts
<1>4. After(a, i) /\ Len(a) + Len(t) + Len(c) = Len(s) + n  BY <1>0, <1>1, <1>3 DEF After
<1>5. Cat(Cat(a, t), c) \in Seq(S) /\ Len(Cat(Cat(a, t), c)) = Len(a) + Len(t) + Len(c)
  <2>1. Cat(Cat(a, t), c) \in Seq(S)  BY <1>3, CatThree
  <2>2. Cat(a, t) \in Seq(S) /\ Len(Cat(a, t)) = Len(a) + Len(t)  BY <1>3, CatProperties
  <2>3. Len(Cat(Cat(a, t), c)) = Len(Cat(a, t)) + Len(c)  BY <1>3, <2>2, CatProperties
  <2> QED  BY <2>1, <2>2, <2>3
<1>6. Splice(s, i, t) = Cat(Cat(a, t), c)  BY <1>3, <1>4, SpliceInto
<1>7. Cut(Cat(Cat(a, t), c), i, n) = Cat(a, c) /\ Part(Cat(Cat(a, t), c), i, i + n - 1) = t
  <2>1. After(a, i) /\ a \in Seq(S) /\ c \in Seq(S)  BY <1>3, <1>4
  <2> QED  BY <2>1, CutOutOf
<1>8. Splice(s, i, t) \in Seq(S) /\ Len(Splice(s, i, t)) = Len(s) + n  BY <1>4, <1>5, <1>6
<1>9. Fits(Splice(s, i, t), i, n)  BY <1>0, <1>8 DEF Fits
<1> QED  BY <1>3, <1>6, <1>7, <1>8, <1>9

\* What was taken out can be put in again.
LEMMA SpliceCut ==
    ASSUME NEW S, NEW s \in Seq(S), NEW i, NEW n, Fits(s, i, n)
    PROVE  /\ Part(s, i, i + n - 1) \in Seq(S)
           /\ Len(Part(s, i, i + n - 1)) = n
           /\ Cut(s, i, n) \in Seq(S)
           /\ Len(Cut(s, i, n)) = Len(s) - n
           /\ Fits(Cut(s, i, n), i, 0)
           /\ Splice(Cut(s, i, n), i, Part(s, i, i + n - 1)) = s
<1>0. Len(s) \in Nat /\ i \in 1 .. Len(s) + 1 /\ n \in Nat /\ i + n - 1 <= Len(s)
      BY LenProperties DEF Fits
<1>1. PICK a, t, c \in Seq(S) : s = Cat(Cat(a, t), c) /\ After(a, i) /\ Long(t, n)
      BY ThreeParts
<1>2. Cut(s, i, n) = Cat(a, c) /\ Part(s, i, i + n - 1) = t  BY <1>1, CutOutOf
<1>3. Cat(a, c) \in Seq(S) /\ Len(Cat(a, c)) = Len(a) + Len(c)  BY <1>1, CatProperties
<1>4. Len(s) = Len(a) + Len(t) + Len(c)  BY <1>1, PartsOfThree
<1>5. Len(a) \in Nat /\ Len(c) \in Nat /\ Len(t) \in Nat /\ Len(t) = n
      BY <1>1, LenProperties DEF Long
<1>6. Splice(Cat(a, c), i, t) = s  BY <1>1, SpliceInto
<1>7. Len(a) + Len(c) = Len(s) - n  BY <1>1, <1>4, <1>5
<1>8. i \in 1 .. (Len(s) - n) + 1 /\ i + 0 - 1 <= Len(s) - n  BY <1>0
<1>9. Cut(s, i, n) \in Seq(S) /\ Len(Cut(s, i, n)) = Len(s) - n  BY <1>2, <1>3, <1>7
<1>10. Fits(Cut(s, i, n), i, 0)  BY <1>8, <1>9 DEF Fits
<1> QED  BY <1>1, <1>2, <1>5, <1>6, <1>9, <1>10

\* Putting in a sequence, then another into or next to it, is putting in one.
LEMMA Regroup ==
    ASSUME NEW S, NEW a \in Seq(S), NEW p \in Seq(S), NEW v \in Seq(S),
           NEW q \in Seq(S), NEW c \in Seq(S)
    PROVE  /\ Cat(Cat(a, Cat(p, q)), c) = Cat(Cat(a, p), Cat(q, c))
           /\ Cat(Cat(Cat(a, p), v), Cat(q, c)) = Cat(Cat(a, Cat(Cat(p, v), q)), c)
<1>1. PICK ap \in Seq(S) : ap = Cat(a, p)  BY CatProperties
<1>2. PICK apv \in Seq(S) : apv = Cat(ap, v)  BY <1>1, CatProperties
<1>3. PICK pv \in Seq(S) : pv = Cat(p, v)  BY CatProperties
<1>4. apv = Cat(a, pv)  BY <1>1, <1>2, <1>3, CatAssociative
<1>5. Cat(apv, Cat(q, c)) = Cat(Cat(apv, q), c)  BY <1>2, CatAssociative
<1>6. Cat(apv, q) = Cat(a, Cat(pv, q))  BY <1>3, <1>4, CatAssociative
<1>7. Cat(a, Cat(p, q)) = Cat(ap, q)  BY <1>1, CatAssociative
<1>8. Cat(Cat(ap, q), c) = Cat(ap, Cat(q, c))  BY <1>1, CatAssociative
<1> QED  BY <1>1, <1>2, <1>3, <1>5, <1>6, <1>7, <1>8

LEMMA SpliceParts ==
    ASSUME NEW S, NEW a \in Seq(S), NEW p \in Seq(S), NEW v \in Seq(S),
           NEW q \in Seq(S), NEW c \in Seq(S), NEW i, After(a, i),
           NEW j, After(Cat(a, p), j)
    PROVE  Splice(Splice(Cat(a, c), i, Cat(p, q)), j, v)
             = Splice(Cat(a, c), i, Cat(Cat(p, v), q))
<1>1. PICK t \in Seq(S) : t = Cat(p, q)  BY CatProperties
<1>2. Cat(Cat(p, v), q) \in Seq(S)  BY CatThree
<1>3. PICK w \in Seq(S) : w = Cat(Cat(p, v), q)  BY <1>2
<1>4. PICK ap \in Seq(S) : ap = Cat(a, p)  BY CatProperties
<1>5. PICK qc \in Seq(S) : qc = Cat(q, c)  BY CatProperties
<1>6. Cat(Cat(a, Cat(p, q)), c) = Cat(Cat(a, p), Cat(q, c))  BY Regroup
<1>7. Cat(Cat(Cat(a, p), v), Cat(q, c)) = Cat(Cat(a, Cat(Cat(p, v), q)), c)  BY Regroup
<1>8. Cat(Cat(a, t), c) = Cat(ap, qc)  BY <1>1, <1>4, <1>5, <1>6
<1>9. Cat(Cat(ap, v), qc) = Cat(Cat(a, w), c)  BY <1>3, <1>4, <1>5, <1>7
<1>10. Splice(Cat(a, c), i, t) = Cat(Cat(a, t), c)  BY <1>1, SpliceInto
<1>11. Splice(Cat(a, c), i, w) = Cat(Cat(a, w), c)  BY <1>3, SpliceInto
<1>12. Splice(Cat(ap, qc), j, v) = Cat(Cat(ap, v), qc)
  <2>1. After(ap, j)  BY <1>4
  <2> QED  BY <1>4, <1>5, <2>1, SpliceInto
<1> QED  BY <1>1, <1>3, <1>8, <1>9, <1>10, <1>11, <1>12

LEMMA SpliceSpliced ==
    ASSUME NEW S, NEW s \in Seq(S), NEW i, NEW t \in Seq(S), NEW v \in Seq(S), NEW j,
           Fits(s, i, 0), j \in i .. i + Len(t)
    PROVE  /\ Fits(t, j - i + 1, 0)
           /\ Splice(t, j - i + 1, v) \in Seq(S)
           /\ Splice(Splice(s, i, t), j, v) = Splice(s, i, Splice(t, j - i + 1, v))
<1>0. Len(s) \in Nat /\ Len(t) \in Nat /\ i \in 1 .. Len(s) + 1  BY LenProperties DEF Fits
<1>1. PICK k : k = i - 1  OBVIOUS
<1>2. PICK l : l = j - i  OBVIOUS
<1>3. Within(s, k) /\ Within(t, l)  BY <1>0, <1>1, <1>2 DEF Within
<1>4. PICK a, c \in Seq(S) : s = Cat(a, c) /\ Len(a) = k  BY <1>3, TwoParts
<1>5. PICK p, q \in Seq(S) : t = Cat(p, q) /\ Len(p) = l  BY <1>3, TwoParts
<1>6. Len(Cat(a, p)) = Len(a) + Len(p)  BY <1>4, <1>5, CatProperties
<1>7. After(a, i) /\ After(Cat(a, p), j) /\ After(p, j - i + 1)
      BY <1>0, <1>1, <1>2, <1>4, <1>5, <1>6 DEF After
<1>8. Splice(Splice(Cat(a, c), i, Cat(p, q)), j, v) = Splice(Cat(a, c), i, Cat(Cat(p, v), q))
      BY <1>4, <1>5, <1>7, SpliceParts
<1>9. PICK h : h = j - i + 1  OBVIOUS
<1>10. Splice(Cat(p, q), h, v) = Cat(Cat(p, v), q)  BY <1>5, <1>7, <1>9, SpliceInto
<1>11. Cat(Cat(p, v), q) \in Seq(S)  BY <1>5, CatThree
<1>12. Fits(t, h, 0)  BY <1>0, <1>9 DEF Fits
<1> QED  BY <1>4, <1>5, <1>8, <1>9, <1>10, <1>11, <1>12

\* A part of a sequence overwritten, and written back.
LEMMA OverwrittenBack ==
    ASSUME NEW S, NEW s \in Seq(S), NEW new \in Seq(S), NEW i, NEW n,
           Fits(s, i, n), Long(new, n)
    PROVE  LET old == Part(s, i, i + n - 1)
               u == Cat(Cat(Part(s, 1, i - 1), new), Part(s, i + n, Len(s)))
           IN  /\ old \in Seq(S) /\ Len(old) = n
               /\ u \in Seq(S) /\ Len(u) = Len(s)
               /\ Part(u, i, i + n - 1) = new
               /\ Cat(Cat(Part(u, 1, i - 1), old), Part(u, i + n, Len(u))) = s
<1>0. Len(s) \in Nat /\ n \in Nat /\ i \in Nat  BY LenProperties DEF Fits
<1>1. PICK a, t, c \in Seq(S) : s = Cat(Cat(a, t), c) /\ After(a, i) /\ Long(t, n)
      BY ThreeParts
<1>2. Len(a) \in Nat /\ Len(t) = n /\ Len(new) = n  BY <1>1, LenProperties DEF Long
<1>3. i = Len(a) + 1 /\ i - 1 = Len(a) /\ i + n - 1 = Len(a) + n /\ i + n = Len(a) + n + 1
      BY <1>0, <1>1, <1>2 DEF After
<1>4. /\ Len(s) = Len(a) + Len(t) + Len(c)
      /\ Part(s, 1, Len(a)) = a
      /\ Part(s, Len(a) + 1, Len(a) + Len(t)) = t
      /\ Part(s, Len(a) + Len(t) + 1, Len(s)) = c
  <2>1. PICK z : z = Cat(Cat(a, t), c)  OBVIOUS
  <2>2. /\ Len(z) = Len(a) + Len(t) + Len(c)
        /\ Part(z, 1, Len(a)) = a
        /\ Part(z, Len(a) + 1, Len(a) + Len(t)) = t
        /\ Part(z, Len(a) + Len(t) + 1, Len(z)) = c
        BY <1>1, <2>1, PartsOfThree
  <2> QED  BY <1>1, <2>1, <2>2
<1>5. Cat(Cat(a, new), c) \in Seq(S)  BY <1>1, CatThree
<1>6. PICK u \in Seq(S) : u = Cat(Cat(a, new), c)  BY <1>5
<1>7. /\ Len(u) = Len(a) + Len(new) + Len(c)
      /\ Part(u, 1, Len(a)) = a
      /\ Part(u, Len(a) + 1, Len(a) + Len(new)) = new
      /\ Part(u, Len(a) + Len(new) + 1, Len(u)) = c
      BY <1>1, <1>6, PartsOfThree
<1>8. Part(s, i, i + n - 1) = t  BY <1>1, <1>2, <1>3, <1>4
<1>9. Cat(Cat(Part(s, 1, i - 1), new), Part(s, i + n, Len(s))) = u
      BY <1>1, <1>2, <1>3, <1>4, <1>6
<1>10. Part(u, i, i + n - 1) = new  BY <1>2, <1>3, <1>7
<1>11. Cat(Cat(Part(u, 1, i - 1), t), Part(u, i + n, Len(u))) = s
       BY <1>1, <1>2, <1>3, <1>6, <1>7
<1>12. Len(u) = Len(s)  BY <1>1, <1>2, <1>4, <1>7
<1> QED  BY <1>1, <1>2, <1>6, <1>8, <1>9, <1>10, <1>11, <1>12

\* One element more or less.
LEMMA InsertIsSplice ==
    ASSUME NEW s, NEW i, NEW e
    PROVE  InsertAt(s, i, e) = Splice(s, i, <<e>>)
BY DEF InsertAt, Splice

LEMMA RemoveIsCut ==
    ASSUME NEW s, NEW i
    PROVE  RemoveAt(s, i) = Cut(s, i, 1)
BY DEF RemoveAt, Cut

LEMMA OnePart ==
    ASSUME NEW S, NEW s \in Seq(S), NEW i \in 1 .. Len(s)
    PROVE  Part(s, i, i) = <<s[i]>>
<1>1. i \in Int /\ \A j \in i .. i : s[j] \in S  BY LenProperties, ElementOfSeq
<1>2. /\ SubSeq(s, i, i) \in Seq(S) /\ Len(SubSeq(s, i, i)) = 1
      /\ SubSeq(s, i, i)[1] = s[i]
      BY <1>1, SubSeqProperties
<1> DEFINE o == <<s[i]>>
<1>3. o \in Seq(S) /\ Len(o) = 1 /\ o[1] = s[i]  BY <1>1
<1>4. PICK p \in Seq(S) : p = Part(s, i, i) /\ Len(p) = 1 /\ p[1] = s[i]  BY <1>2 DEF Part
<1>5. PICK q \in Seq(S) : q = o /\ Len(q) = 1 /\ q[1] = s[i]  BY <1>3
<1>6. \A j \in 1 .. 1 : q[j] = p[j]  BY <1>4, <1>5
<1>7. q = p  BY <1>4, <1>5, <1>6, SeqEqual
<1> QED  BY <1>4, <1>5, <1>7

LEMMA RemoveInserted ==
    ASSUME NEW S, NEW s \in Seq(S), NEW i, Fits(s, i, 0), NEW e \in S
    PROVE  LET t == InsertAt(s, i, e)
           IN  /\ t \in Seq(S) /\ Len(t) = Len(s) + 1
               /\ i \in DOMAIN t /\ t[i] = e
               /\ RemoveAt(t, i) = s
<1>1. PICK o : o = <<e>>  OBVIOUS
<1>2. o \in Seq(S) /\ Len(o) = 1 /\ o[1] = e  BY <1>1
<1>3. PICK t : t = InsertAt(s, i, e)  OBVIOUS
<1>4. t = Splice(s, i, o)  BY <1>1, <1>3, InsertIsSplice
<1>5. PICK n : n = 1  OBVIOUS
<1>6. t \in Seq(S) /\ Len(t) = Len(s) + n /\ Fits(t, i, n) /\ Part(t, i, i + n - 1) = o /\ Cut(t, i, n) = s
  <2>1. Long(o, n)  BY <1>2, <1>5 DEF Long
  <2> QED  BY <1>2, <1>4, <2>1, CutSpliced
<1>7. i \in 1 .. Len(t) /\ i + n - 1 = i /\ DOMAIN t = 1 .. Len(t)
      BY <1>5, <1>6, LenProperties DEF Fits
<1>8. Part(t, i, i) = o  BY <1>6, <1>7
<1>9. <<t[i]>> = <<e>>  BY <1>1, <1>6, <1>7, <1>8, OnePart
<1>10. t[i] = e  BY <1>9
<1> QED  BY <1>3, <1>5, <1>6, <1>7, <1>10, RemoveIsCut

LEMMA InsertRemoved ==
    ASSUME NEW S, NEW s \in Seq(S), NEW i \in DOMAIN s
    PROVE  LET t == RemoveAt(s, i)
           IN  /\ s[i] \in S
               /\ t \in Seq(S) /\ Len(t) = Len(s) - 1
               /\ Fits(t, i, 0)
               /\ InsertAt(t, i, s[i]) = s
<1>0. Len(s) \in Nat /\ DOMAIN s = 1 .. Len(s)  BY LenProperties
<1>1. PICK n : n = 1  OBVIOUS
<1>2. Fits(s, i, n) /\ i + n - 1 = i  BY <1>0, <1>1 DEF Fits
<1>3. /\ Cut(s, i, n) \in Seq(S) /\ Len(Cut(s, i, n)) = Len(s) - n
      /\ Fits(Cut(s, i, n), i, 0)
      /\ Splice(Cut(s, i, n), i, Part(s, i, i + n - 1)) = s
      BY <1>2, SpliceCut
<1>4. Part(s, i, i) = <<s[i]>>  BY <1>0, OnePart
<1>5. Splice(Cut(s, i, 1), i, <<s[i]>>) = s  BY <1>1, <1>2, <1>3, <1>4
<1>6. s[i] \in S  BY <1>0, ElementOfSeq
<1> QED  BY <1>1, <1>3, <1>5, <1>6, InsertIsSplice, RemoveIsCut

(***************************************************************************)
(* Folds.                                                                  *)
(***************************************************************************)
ExecuteStep(r, a) ==
    LET d == DoAction(a, r.map, TRUE)
    IN  IF r.ok /\ d.ok THEN [ok |-> TRUE, map |-> d.map, valid |-> Append(r.valid, d.act)]
                        ELSE [r EXCEPT !.ok = FALSE]
RedoStep(r, a) == LET d == RedoAction(a, r.map) IN [ok |-> r.ok /\ d.ok, map |-> d.map]
UndoStep(r, a) == LET d == UndoAction(a, r.map) IN [ok |-> r.ok /\ d.ok, map |-> d.map]
MergeStep(rest, a) == IF Len(rest) = 1 THEN MergeTwo(a, rest[1]) ELSE <<a>> \o rest

Step(fold, r, a) ==
    CASE fold = "execute" -> ExecuteStep(r, a)
      [] fold = "redo" -> RedoStep(r, a)
      [] fold = "undo" -> UndoStep(r, a)
      [] fold = "merge" -> MergeStep(r, a)
      [] OTHER -> Handled(r, a)

LEMMA Steps ==
    /\ \A r, a : Step("execute", r, a) = ExecuteStep(r, a)
    /\ \A r, a : Step("redo", r, a) = RedoStep(r, a)
    /\ \A r, a : Step("undo", r, a) = UndoStep(r, a)
    /\ \A r, a : Step("merge", r, a) = MergeStep(r, a)
    /\ \A r, a : Step("handle", r, a) = Handled(r, a)
BY DEF Step

\* What FoldLeft chooses: a function on the sets of indices.
Iterates(fold, base, s, f) ==
    f = [x \in SUBSET DOMAIN s |->
            IF x = {} THEN base ELSE Step(fold, f[x \ {Max(x)}], s[Max(x)])]

LEMMA NatSetInduction ==
    ASSUME NEW T, 0 \in T, \A n \in Nat : n \in T => n + 1 \in T
    PROVE  Nat \subseteq T
<1> DEFINE Bad == Nat \ T
<1> SUFFICES ASSUME Bad # {} PROVE FALSE  OBVIOUS
<1>1. PICK x \in Bad : \A y \in Bad : ~ (<<y, x>> \in OpToRel(<, Nat))
      BY NatLessThanWellFounded, WFMin
<1>2. x # 0 /\ x - 1 \in Nat  OBVIOUS
<1>3. x - 1 \in Bad  BY <1>2
<1>4. <<x - 1, x>> \in OpToRel(<, Nat)  BY <1>2 DEF OpToRel
<1> QED  BY <1>1, <1>3, <1>4

LEMMA MaxTo ==
    ASSUME NEW k \in Nat, NEW x \in SUBSET (1 .. k + 1), k + 1 \in x
    PROVE  Max(x) = k + 1
<1>1. \A y \in x : k + 1 >= y  OBVIOUS
<1>2. \A z \in x : (\A y \in x : z >= y) => z = k + 1  BY <1>1
<1> QED  BY <1>1, <1>2 DEF Max

LEMMA IteratesExist ==
    ASSUME NEW fold, NEW base, NEW S, NEW s \in Seq(S)
    PROVE  \E f : Iterates(fold, base, s, f)
<1> DEFINE Def(f, x) == IF x = {} THEN base ELSE Step(fold, f[x \ {Max(x)}], s[Max(x)])
           Iter(f, k) == f = [x \in SUBSET (1 .. k) |-> Def(f, x)]
           T == {k \in Nat : \E f : Iter(f, k)}
<1>1. Len(s) \in Nat /\ DOMAIN s = 1 .. Len(s)  BY LenProperties
<1>2. 0 \in T
  <2> DEFINE f == [x \in SUBSET (1 .. 0) |-> base]
  <2>1. Iter(f, 0)  OBVIOUS
  <2> QED  BY <2>1
<1>3. ASSUME NEW k \in Nat, k \in T PROVE k + 1 \in T
  <2>1. PICK f : Iter(f, k)  BY <1>3
  <2> HIDE DEF Def
  <2> DEFINE h == [x \in SUBSET (1 .. k + 1) |->
                      IF k + 1 \in x THEN Step(fold, f[x \ {k + 1}], s[k + 1]) ELSE f[x]]
  <2>2. ASSUME NEW x \in SUBSET (1 .. k + 1) PROVE h[x] = Def(h, x)
    <3>1. CASE k + 1 \in x
      <4>1. x \ {k + 1} \in SUBSET (1 .. k)  OBVIOUS
      <4>2. h[x \ {k + 1}] = f[x \ {k + 1}]  BY <4>1
      <4>3. Max(x) = k + 1  BY <3>1, MaxTo
      <4> QED  BY <3>1, <4>2, <4>3 DEF Def
    <3>2. CASE k + 1 \notin x
      <4>1. x \in SUBSET (1 .. k)  BY <3>2
      <4>2. h[x] = Def(f, x)  BY <2>1, <3>2, <4>1
      <4>3. CASE x = {}  BY <4>2, <4>3 DEF Def
      <4>4. CASE x # {}
        <5>1. x \ {Max(x)} \in SUBSET (1 .. k)  BY <4>1
        <5>2. h[x \ {Max(x)}] = f[x \ {Max(x)}]  BY <5>1
        <5> QED  BY <4>2, <4>4, <5>2 DEF Def
      <4> QED  BY <4>3, <4>4
    <3> QED  BY <3>1, <3>2
  <2> HIDE DEF h
  <2>3. h = [x \in SUBSET (1 .. k + 1) |-> h[x]]  BY DEF h
  <2>4. Iter(h, k + 1)  BY <2>2, <2>3
  <2> QED  BY <2>4
<1>4. Len(s) \in T  BY <1>1, <1>2, <1>3, NatSetInduction
<1> QED  BY <1>1, <1>4 DEF Iterates

\* The iterates over the first k elements.
LEMMA IteratesValues ==
    ASSUME NEW fold, NEW base, NEW S, NEW s \in Seq(S), NEW f, Iterates(fold, base, s, f)
    PROVE  \E g : /\ g[0] = base
                  /\ \A k \in 1 .. Len(s) : g[k] = Step(fold, g[k - 1], s[k])
                  /\ g[Len(s)] = f[DOMAIN s]
<1> DEFINE n == Len(s)
           Def(x) == IF x = {} THEN base ELSE Step(fold, f[x \ {Max(x)}], s[Max(x)])
           g == [k \in 0 .. n |-> f[1 .. k]]
<1>1. n \in Nat /\ DOMAIN s = 1 .. n  BY LenProperties
<1>2. ASSUME NEW x \in SUBSET (1 .. n) PROVE f[x] = Def(x)
  <2>1. f = [y \in SUBSET (1 .. n) |-> Def(y)]  BY <1>1 DEF Iterates
  <2> HIDE DEF Def
  <2> QED  BY <2>1
<1>3. f[1 .. 0] = base
  <2>1. 1 .. 0 = {} /\ 1 .. 0 \in SUBSET (1 .. n)  OBVIOUS
  <2> QED  BY <1>2, <2>1
<1>4. ASSUME NEW k \in 1 .. n PROVE f[1 .. k] = Step(fold, f[1 .. k - 1], s[k])
  <2>1. Max(1 .. k) = k
    <3>1. k - 1 \in Nat /\ k = (k - 1) + 1 /\ k \in 1 .. k  BY <1>1
    <3> QED  BY <3>1, MaxTo
  <2>2. (1 .. k) \ {k} = 1 .. k - 1  BY <1>1
  <2>3. 1 .. k # {}  BY <1>1
  <2>4. 1 .. k \in SUBSET (1 .. n)  BY <1>1
  <2> QED  BY <1>2, <2>1, <2>2, <2>3, <2>4
<1>5. g[0] = base /\ g[n] = f[1 .. n]  BY <1>1, <1>3
<1>6. \A k \in 1 .. n : g[k] = Step(fold, g[k - 1], s[k])  BY <1>1, <1>4
<1> HIDE DEF g
<1> QED  BY <1>1, <1>5, <1>6

LEMMA RedoFold ==
    ASSUME NEW S, NEW s \in Seq(S), NEW m
    PROVE  \E g : /\ g[0] = [ok |-> TRUE, map |-> m]
                  /\ \A k \in 1 .. Len(s) : g[k] = RedoStep(g[k - 1], s[k])
                  /\ g[Len(s)] = Redo(s, m)
<1> DEFINE base == [ok |-> TRUE, map |-> m]
           Iter(f) == f = [x \in SUBSET DOMAIN s |->
                              IF x = {} THEN base ELSE RedoStep(f[x \ {Max(x)}], s[Max(x)])]
           iter == CHOOSE f : Iter(f)
<1>1. Redo(s, m) = iter[DOMAIN s]  BY DEF Redo, FoldLeft, MapThenFoldSet, RedoStep
<1>2. \A f : Iter(f) <=> Iterates("redo", base, s, f)  BY Steps DEF Iterates
<1>3. \E f : Iter(f)  BY <1>2, IteratesExist
<1>4. Iter(iter)  BY <1>3
<1>5. Iterates("redo", base, s, iter)  BY <1>2, <1>4
<1> HIDE DEF iter, base
<1>6. PICK g : /\ g[0] = base
               /\ \A k \in 1 .. Len(s) : g[k] = Step("redo", g[k - 1], s[k])
               /\ g[Len(s)] = iter[DOMAIN s]
      BY <1>5, IteratesValues
<1>7. \A k \in 1 .. Len(s) : g[k] = RedoStep(g[k - 1], s[k])  BY <1>6, Steps
<1> QED  BY <1>1, <1>6, <1>7 DEF base

LEMMA ExecuteFold ==
    ASSUME NEW S, NEW s \in Seq(S), NEW m
    PROVE  \E g : /\ g[0] = [ok |-> TRUE, map |-> m, valid |-> <<>>]
                  /\ \A k \in 1 .. Len(s) : g[k] = ExecuteStep(g[k - 1], s[k])
                  /\ g[Len(s)] = Execute(s, m)
<1> DEFINE base == [ok |-> TRUE, map |-> m, valid |-> <<>>]
           Iter(f) == f = [x \in SUBSET DOMAIN s |->
                              IF x = {} THEN base ELSE ExecuteStep(f[x \ {Max(x)}], s[Max(x)])]
           iter == CHOOSE f : Iter(f)
<1>1. Execute(s, m) = iter[DOMAIN s]  BY DEF Execute, FoldLeft, MapThenFoldSet, ExecuteStep
<1>2. \A f : Iter(f) <=> Iterates("execute", base, s, f)  BY Steps DEF Iterates
<1>3. \E f : Iter(f)  BY <1>2, IteratesExist
<1>4. Iter(iter)  BY <1>3
<1>5. Iterates("execute", base, s, iter)  BY <1>2, <1>4
<1> HIDE DEF iter, base
<1>6. PICK g : /\ g[0] = base
               /\ \A k \in 1 .. Len(s) : g[k] = Step("execute", g[k - 1], s[k])
               /\ g[Len(s)] = iter[DOMAIN s]
      BY <1>5, IteratesValues
<1>7. \A k \in 1 .. Len(s) : g[k] = ExecuteStep(g[k - 1], s[k])  BY <1>6, Steps
<1> QED  BY <1>1, <1>6, <1>7 DEF base

LEMMA HandleFold ==
    ASSUME NEW S, NEW s \in Seq(S), NEW t
    PROVE  \E g : /\ g[0] = t
                  /\ \A k \in 1 .. Len(s) : g[k] = Handled(g[k - 1], s[k])
                  /\ g[Len(s)] = FoldLeft(Handled, t, s)
<1> DEFINE base == t
           Iter(f) == f = [x \in SUBSET DOMAIN s |->
                              IF x = {} THEN base ELSE Handled(f[x \ {Max(x)}], s[Max(x)])]
           iter == CHOOSE f : Iter(f)
<1>1. FoldLeft(Handled, t, s) = iter[DOMAIN s]  BY DEF FoldLeft, MapThenFoldSet
<1>2. \A f : Iter(f) <=> Iterates("handle", base, s, f)  BY Steps DEF Iterates
<1>3. \E f : Iter(f)  BY <1>2, IteratesExist
<1>4. Iter(iter)  BY <1>3
<1>5. Iterates("handle", base, s, iter)  BY <1>2, <1>4
<1> HIDE DEF iter, base
<1>6. PICK g : /\ g[0] = base
               /\ \A k \in 1 .. Len(s) : g[k] = Step("handle", g[k - 1], s[k])
               /\ g[Len(s)] = iter[DOMAIN s]
      BY <1>5, IteratesValues
<1>7. \A k \in 1 .. Len(s) : g[k] = Handled(g[k - 1], s[k])  BY <1>6, Steps
<1> QED  BY <1>1, <1>6, <1>7 DEF base

LEMMA ReverseProperties ==
    ASSUME NEW S, NEW s \in Seq(S)
    PROVE  /\ Reverse(s) \in Seq(S) /\ Len(Reverse(s)) = Len(s)
           /\ \A k \in 1 .. Len(s) : Reverse(s)[k] = s[Len(s) - k + 1]
<1>1. Len(s) \in Nat /\ \A k \in 1 .. Len(s) : s[k] \in S  BY LenProperties, ElementOfSeq
<1>2. Reverse(s) = [k \in 1 .. Len(s) |-> s[(Len(s) - k) + 1]]  BY DEF Reverse
<1>3. \A k \in 1 .. Len(s) : (Len(s) - k) + 1 \in 1 .. Len(s)  BY <1>1
<1>4. Reverse(s) \in [1 .. Len(s) -> S]  BY <1>1, <1>2, <1>3
<1> QED  BY <1>1, <1>2, <1>4

LEMMA UndoFold ==
    ASSUME NEW S, NEW s \in Seq(S), NEW m
    PROVE  \E g : /\ g[Len(s)] = [ok |-> TRUE, map |-> m]
                  /\ \A k \in 1 .. Len(s) : g[k - 1] = UndoStep(g[k], s[k])
                  /\ g[0] = Undo(s, m)
<1> DEFINE base == [ok |-> TRUE, map |-> m]
           Iter(q, f) == f = [x \in SUBSET DOMAIN q |->
                                 IF x = {} THEN base ELSE UndoStep(f[x \ {Max(x)}], q[Max(x)])]
           iter(q) == CHOOSE f : Iter(q, f)
<1>1. Undo(s, m) = iter(Reverse(s))[DOMAIN Reverse(s)]
      BY DEF Undo, FoldLeft, MapThenFoldSet, UndoStep
<1>2. PICK q \in Seq(S) : /\ q = Reverse(s) /\ Len(q) = Len(s)
                          /\ \A k \in 1 .. Len(s) : q[k] = s[Len(s) - k + 1]
      BY ReverseProperties
<1>3. \A f : Iter(q, f) <=> Iterates("undo", base, q, f)  BY Steps DEF Iterates
<1>4. \E f : Iter(q, f)  BY <1>2, <1>3, IteratesExist
<1>5. Iter(q, iter(q))  BY <1>4
<1>6. Iterates("undo", base, q, iter(q))  BY <1>3, <1>5
<1>7. Undo(s, m) = iter(q)[DOMAIN q]  BY <1>1, <1>2
<1> HIDE DEF iter, base
<1>8. PICK g : /\ g[0] = base
               /\ \A k \in 1 .. Len(q) : g[k] = Step("undo", g[k - 1], q[k])
               /\ g[Len(q)] = iter(q)[DOMAIN q]
      BY <1>2, <1>6, IteratesValues
<1>9. \A k \in 1 .. Len(q) : g[k] = UndoStep(g[k - 1], q[k])  BY <1>8, Steps
<1> DEFINE h == [k \in 0 .. Len(s) |-> g[Len(s) - k]]
<1>10. Len(s) \in Nat  BY LenProperties
<1>11. h[Len(s)] = base /\ h[0] = Undo(s, m)  BY <1>2, <1>7, <1>8, <1>10
<1>12. ASSUME NEW k \in 1 .. Len(s) PROVE h[k - 1] = UndoStep(h[k], s[k])
  <2> DEFINE l == Len(s) - k + 1
  <2>1. l \in 1 .. Len(q) /\ Len(s) - l + 1 = k /\ l - 1 = Len(s) - k /\ l = Len(s) - (k - 1)
        BY <1>2, <1>10
  <2>2. g[l] = UndoStep(g[l - 1], q[l]) /\ q[l] = s[k]  BY <1>2, <1>9, <2>1
  <2>3. h[k] = g[l - 1] /\ h[k - 1] = g[l]  BY <1>10, <2>1
  <2> QED  BY <2>2, <2>3
<1> HIDE DEF h
<1> QED  BY <1>11, <1>12 DEF base

LEMMA MergeFold ==
    ASSUME NEW S, NEW s \in Seq(S), s # <<>>
    PROVE  \E g : /\ g[Len(s)] = <<s[Len(s)]>>
                  /\ \A k \in 1 .. Len(s) - 1 : g[k] = MergeStep(g[k + 1], s[k])
                  /\ g[1] = MergeActions(s)
<1> DEFINE n == Len(s)
           base == <<Last(s)>>
           Iter(q, f) == f = [x \in SUBSET DOMAIN q |->
                                 IF x = {} THEN base ELSE MergeStep(f[x \ {Max(x)}], q[Max(x)])]
           iter(q) == CHOOSE f : Iter(q, f)
<1>0. n \in Nat /\ n >= 1 /\ \A k \in 1 .. n : s[k] \in S
      BY LenProperties, EmptySeq, ElementOfSeq
<1>1. MergeActions(s) = iter(Reverse(Front(s)))[DOMAIN Reverse(Front(s))]
      BY DEF MergeActions, FoldLeft, MapThenFoldSet, MergeStep
<1>2. PICK p \in Seq(S) : /\ p = Front(s) /\ Len(p) = n - 1
                          /\ \A k \in 1 .. n - 1 : p[k] = s[k]
  <2>1. /\ SubSeq(s, 1, n - 1) \in Seq(S) /\ Len(SubSeq(s, 1, n - 1)) = n - 1
        /\ \A k \in 1 .. n - 1 : SubSeq(s, 1, n - 1)[k] = s[k]
    <3>1. 1 \in Int /\ n - 1 \in Int /\ \A k \in 1 .. n - 1 : s[k] \in S  BY <1>0
    <3>2. PICK l \in Int : l = n - 1  BY <3>1
    <3>3. /\ SubSeq(s, 1, l) \in Seq(S)
          /\ Len(SubSeq(s, 1, l)) = IF 1 <= l THEN l - 1 + 1 ELSE 0
          /\ \A k \in 1 .. l - 1 + 1 : SubSeq(s, 1, l)[k] = s[1 + k - 1]
          BY <3>1, <3>2, SubSeqProperties
    <3> QED  BY <1>0, <3>2, <3>3
  <2> QED  BY <2>1 DEF Front
<1>3. PICK q \in Seq(S) : /\ q = Reverse(p) /\ Len(q) = n - 1
                          /\ \A k \in 1 .. n - 1 : q[k] = p[(n - 1) - k + 1]
  <2>1. /\ Reverse(p) \in Seq(S) /\ Len(Reverse(p)) = Len(p)
        /\ \A k \in 1 .. Len(p) : Reverse(p)[k] = p[Len(p) - k + 1]
        BY <1>2, ReverseProperties
  <2> QED  BY <1>2, <2>1
<1>4. \A f : Iter(q, f) <=> Iterates("merge", base, q, f)  BY Steps DEF Iterates
<1>5. \E f : Iter(q, f)  BY <1>3, <1>4, IteratesExist
<1>6. Iter(q, iter(q))  BY <1>5
<1>7. Iterates("merge", base, q, iter(q))  BY <1>4, <1>6
<1>8. MergeActions(s) = iter(q)[DOMAIN q]  BY <1>1, <1>2, <1>3
<1> HIDE DEF iter, base
<1>9. PICK g : /\ g[0] = base
               /\ \A k \in 1 .. Len(q) : g[k] = Step("merge", g[k - 1], q[k])
               /\ g[Len(q)] = iter(q)[DOMAIN q]
  <2>1. q \in Seq(S)  BY <1>3
  <2> QED  BY <2>1, <1>7, IteratesValues
<1>10. \A k \in 1 .. Len(q) : g[k] = MergeStep(g[k - 1], q[k])  BY <1>9, Steps
<1> DEFINE h == [k \in 1 .. n |-> g[n - k]]
<1>11. h[n] = base /\ h[1] = MergeActions(s)  BY <1>0, <1>3, <1>8, <1>9
<1>12. ASSUME NEW k \in 1 .. n - 1 PROVE h[k] = MergeStep(h[k + 1], s[k])
  <2> DEFINE l == n - k
  <2>1. l \in 1 .. n - 1 /\ (n - 1) - l + 1 = k /\ l - 1 = n - (k + 1) /\ k + 1 \in 1 .. n /\ k \in 1 .. n
        BY <1>0
  <2>2. g[l] = MergeStep(g[l - 1], q[l])  BY <1>3, <1>10, <2>1
  <2>3. q[l] = s[k]  BY <1>2, <1>3, <2>1
  <2>4. h[k] = g[l] /\ h[k + 1] = g[l - 1]  BY <2>1
  <2> QED  BY <2>2, <2>3, <2>4
<1> HIDE DEF h
<1>13. base = <<s[n]>>  BY DEF base, Last
<1> QED  BY <1>11, <1>12, <1>13

(***************************************************************************)
(* Places of a map: what is put there is there, putting back what was      *)
(* there gives the map there was, and nothing else changes.                *)
(***************************************************************************)
\* Lists and physics layers are the same.
SameRest(m, n) == n.lists = m.lists /\ n.physics = m.physics

LEMMA MapParts ==
    ASSUME NEW Q, NEW m \in Map(Q)
    PROVE  /\ m.groups \in [Side -> Seq(Group(Q))] /\ m.physics \in Physics
           /\ m.lists \in [File \cup Animation -> Seq(Value)] /\ m.config \in [ConfigParts -> Value]
           /\ m = [groups |-> m.groups, physics |-> m.physics, lists |-> m.lists,
                   config |-> m.config]
BY DEF Map

LEMMA PutGroupsForm ==
    ASSUME NEW Q, NEW m \in Map(Q), NEW side \in Side, NEW gs
    PROVE  PutGroups(m, side, gs) =
             [groups |-> [m.groups EXCEPT ![side] = gs], physics |-> m.physics,
              lists |-> m.lists, config |-> m.config]
<1> DEFINE gg == [m.groups EXCEPT ![side] = gs]
<1>1. PutGroups(m, side, gs) = [m EXCEPT !.groups = gg]  BY DEF PutGroups
<1> HIDE DEF gg
<1>2. [m EXCEPT !.groups = gg] =
        [groups |-> gg, physics |-> m.physics, lists |-> m.lists, config |-> m.config]
  <2>1. PICK A, B, C, D : m \in [groups : A, physics : B, lists : C, config : D]  BY DEF Map
  <2> QED  BY <2>1
<1> QED  BY <1>1, <1>2 DEF gg

LEMMA PutGroupsLaws ==
    ASSUME NEW Q, NEW m \in Map(Q), NEW side \in Side, NEW gs \in Seq(Group(Q))
    PROVE  LET n == PutGroups(m, side, gs)
           IN  /\ n \in Map(Q) /\ SameRest(m, n) /\ n.config = m.config
               /\ n.groups[side] = gs
               /\ \A s \in Side : s # side => n.groups[s] = m.groups[s]
               /\ PutGroups(n, side, m.groups[side]) = m
               /\ \A hs : PutGroups(n, side, hs) = PutGroups(m, side, hs)
<1>1. m.groups \in [Side -> Seq(Group(Q))] /\ DOMAIN m.groups = Side  BY DEF Map
<1> DEFINE gg == [m.groups EXCEPT ![side] = gs]
<1>2. gg \in [Side -> Seq(Group(Q))]  BY <1>1
<1>3. gg[side] = gs /\ \A s \in Side : s # side => gg[s] = m.groups[s]  BY <1>1
<1>4. [gg EXCEPT ![side] = m.groups[side]] = m.groups  BY <1>1
<1>5. \A hs : [gg EXCEPT ![side] = hs] = [m.groups EXCEPT ![side] = hs]  BY <1>1
<1> HIDE DEF gg
<1>6. PICK n : n = PutGroups(m, side, gs)  OBVIOUS
<1>7. n = [groups |-> gg, physics |-> m.physics, lists |-> m.lists, config |-> m.config]
      BY <1>6, PutGroupsForm DEF gg
<1>8. n \in Map(Q)  BY <1>2, <1>7, MapParts DEF Map
<1>9. SameRest(m, n) /\ n.config = m.config /\ n.groups = gg  BY <1>7 DEF SameRest
<1>10. PutGroups(n, side, m.groups[side]) = m
  <2>1. PutGroups(n, side, m.groups[side]) =
          [groups |-> [n.groups EXCEPT ![side] = m.groups[side]], physics |-> n.physics,
           lists |-> n.lists, config |-> n.config]
        BY <1>8, PutGroupsForm
  <2> QED  BY <1>4, <1>9, <2>1, MapParts DEF SameRest
<1>11. ASSUME NEW hs PROVE PutGroups(n, side, hs) = PutGroups(m, side, hs)
  <2>1. PutGroups(n, side, hs) =
          [groups |-> [n.groups EXCEPT ![side] = hs], physics |-> n.physics,
           lists |-> n.lists, config |-> n.config]
        BY <1>8, PutGroupsForm
  <2>2. PutGroups(m, side, hs) =
          [groups |-> [m.groups EXCEPT ![side] = hs], physics |-> m.physics,
           lists |-> m.lists, config |-> m.config]
        BY PutGroupsForm
  <2> QED  BY <1>5, <1>9, <2>1, <2>2 DEF SameRest
<1> QED  BY <1>3, <1>6, <1>8, <1>9, <1>10, <1>11

LEMMA StaysWellFormed ==
    ASSUME NEW m, NEW n, WellFormed(m), n \in Map(InBounds(m.lists)), SameRest(m, n)
    PROVE  WellFormed(n)
BY DEF WellFormed, SameRest

(***************************************************************************)
(* Groups put in and taken out: m is rest with g at place i of a side.     *)
(***************************************************************************)
GroupIn(Q, side, i, g, rest, m) ==
    /\ rest \in Map(Q) /\ side \in Side /\ g \in Group(Q)
    /\ Fits(rest.groups[side], i, 0)
    /\ m = PutGroups(rest, side, InsertAt(rest.groups[side], i, g))

LEMMA GroupInOut ==
    ASSUME NEW Q, NEW side, NEW i, NEW g, NEW rest, NEW m, GroupIn(Q, side, i, g, rest, m)
    PROVE  /\ m \in Map(Q) /\ SameRest(rest, m)
           /\ i \in DOMAIN m.groups[side] /\ m.groups[side][i] = g
           /\ rest = PutGroups(m, side, RemoveAt(m.groups[side], i))
<1>1. rest \in Map(Q) /\ side \in Side /\ g \in Group(Q) /\ Fits(rest.groups[side], i, 0)
      BY DEF GroupIn
<1>2. PICK gs \in Seq(Group(Q)) : gs = rest.groups[side]  BY <1>1 DEF Map
<1>3. PICK hs : hs = InsertAt(gs, i, g)  OBVIOUS
<1>4. hs \in Seq(Group(Q)) /\ i \in DOMAIN hs /\ hs[i] = g /\ RemoveAt(hs, i) = gs
      BY <1>1, <1>2, <1>3, RemoveInserted
<1>5. m = PutGroups(rest, side, hs)  BY <1>2, <1>3 DEF GroupIn
<1>6. m \in Map(Q) /\ SameRest(rest, m) /\ m.groups[side] = hs
      /\ PutGroups(m, side, gs) = rest
      BY <1>1, <1>2, <1>4, <1>5, PutGroupsLaws
<1> QED  BY <1>4, <1>6

LEMMA GroupOutIn ==
    ASSUME NEW Q, NEW m \in Map(Q), NEW side \in Side, NEW i \in DOMAIN m.groups[side]
    PROVE  LET rest == PutGroups(m, side, RemoveAt(m.groups[side], i))
           IN  /\ GroupIn(Q, side, i, m.groups[side][i], rest, m)
               /\ SameRest(m, rest)
<1>1. PICK gs \in Seq(Group(Q)) : gs = m.groups[side]  BY DEF Map
<1>2. PICK hs : hs = RemoveAt(gs, i)  OBVIOUS
<1>3. gs[i] \in Group(Q) /\ hs \in Seq(Group(Q)) /\ Fits(hs, i, 0) /\ InsertAt(hs, i, gs[i]) = gs
      BY <1>1, <1>2, InsertRemoved
<1>4. PICK rest : rest = PutGroups(m, side, hs)  OBVIOUS
<1>5. rest \in Map(Q) /\ SameRest(m, rest) /\ rest.groups[side] = hs
      /\ PutGroups(rest, side, gs) = m
      BY <1>1, <1>3, <1>4, PutGroupsLaws
<1>6. GroupIn(Q, side, i, gs[i], rest, m)  BY <1>3, <1>5 DEF GroupIn
<1> QED  BY <1>1, <1>2, <1>4, <1>5, <1>6

(***************************************************************************)
(* The layers of a group.                                                  *)
(***************************************************************************)
LEMMA SeqPut ==
    ASSUME NEW S, NEW s \in Seq(S), NEW k \in DOMAIN s, NEW e \in S
    PROVE  LET t == [s EXCEPT ![k] = e]
           IN  /\ t \in Seq(S) /\ Len(t) = Len(s) /\ DOMAIN t = DOMAIN s
               /\ t[k] = e /\ s[k] \in S
               /\ [t EXCEPT ![k] = s[k]] = s
               /\ \A x : [t EXCEPT ![k] = x] = [s EXCEPT ![k] = x]
<1>1. Len(s) \in Nat /\ DOMAIN s = 1 .. Len(s) /\ s[k] \in S  BY LenProperties, ElementOfSeq
<1>2. PICK t : t = [s EXCEPT ![k] = e]  OBVIOUS
<1>3. t \in Seq(S) /\ Len(t) = Len(s)  BY <1>1, <1>2, ExceptSeq
<1>4. s \in [1 .. Len(s) -> S] /\ t \in [1 .. Len(s) -> S]
  <2>1. s \in [1 .. Len(s) -> S]  BY LenProperties
  <2> QED  BY <1>1, <1>2, <2>1
<1>5. /\ DOMAIN t = DOMAIN s /\ t[k] = e
      /\ [t EXCEPT ![k] = s[k]] = s
      /\ \A x : [t EXCEPT ![k] = x] = [s EXCEPT ![k] = x]
      BY <1>1, <1>2, <1>4
<1> QED  BY <1>1, <1>2, <1>3, <1>5

LEMMA GroupPut ==
    ASSUME NEW Q, NEW g \in Group(Q), NEW ls \in Seq(Layer(Q))
    PROVE  LET h == [g EXCEPT !.layers = ls]
           IN  /\ h \in Group(Q) /\ h.layers = ls
               /\ [h EXCEPT !.layers = g.layers] = g
               /\ \A x : [h EXCEPT !.layers = x] = [g EXCEPT !.layers = x]
BY DEF Group

LEMMA PutLayersForm ==
    ASSUME NEW m, NEW at, NEW ls
    PROVE  PutLayers(m, at, ls) =
             PutGroups(m, at.side, [m.groups[at.side] EXCEPT ![at.group] =
                                       [m.groups[at.side][at.group] EXCEPT !.layers = ls]])
BY DEF PutLayers, PutGroups

LEMMA PutLayersLaws ==
    ASSUME NEW Q, NEW m \in Map(Q), NEW at \in Place, HasGroup(m, at), NEW ls \in Seq(Layer(Q))
    PROVE  LET n == PutLayers(m, at, ls)
           IN  /\ n \in Map(Q) /\ SameRest(m, n)
               /\ HasGroup(n, at) /\ Layers(n, at) = ls /\ Layers(m, at) \in Seq(Layer(Q))
               /\ PutLayers(n, at, Layers(m, at)) = m
               /\ \A ks : PutLayers(n, at, ks) = PutLayers(m, at, ks)
<1>1. PICK side, k : side \in Side /\ side = at.side /\ k = at.group  BY DEF Place
<1>2. PICK gs \in Seq(Group(Q)) : gs = m.groups[side]  BY <1>1 DEF Map
<1>3. k \in DOMAIN gs  BY <1>1, <1>2 DEF HasGroup
<1>4. PICK g \in Group(Q) : g = gs[k]  BY <1>2, <1>3, SeqPut
<1>5. PICK h : h = [g EXCEPT !.layers = ls]  OBVIOUS
<1>6. /\ h \in Group(Q) /\ h.layers = ls
      /\ [h EXCEPT !.layers = g.layers] = g
      /\ \A x : [h EXCEPT !.layers = x] = [g EXCEPT !.layers = x]
      BY <1>4, <1>5 DEF Group
<1>7. PICK hs : hs = [gs EXCEPT ![k] = h]  OBVIOUS
<1>8. /\ hs \in Seq(Group(Q)) /\ DOMAIN hs = DOMAIN gs /\ hs[k] = h
      /\ [hs EXCEPT ![k] = g] = gs
      /\ \A x : [hs EXCEPT ![k] = x] = [gs EXCEPT ![k] = x]
  <2>1. \A e \in Group(Q) :
           /\ [gs EXCEPT ![k] = e] \in Seq(Group(Q)) /\ DOMAIN [gs EXCEPT ![k] = e] = DOMAIN gs
           /\ [gs EXCEPT ![k] = e][k] = e
           /\ [[gs EXCEPT ![k] = e] EXCEPT ![k] = gs[k]] = gs
           /\ \A x : [[gs EXCEPT ![k] = e] EXCEPT ![k] = x] = [gs EXCEPT ![k] = x]
        BY <1>2, <1>3, SeqPut
  <2> QED  BY <1>4, <1>6, <1>7, <2>1
<1>9. PICK n : n = PutLayers(m, at, ls)  OBVIOUS
<1>10. n = PutGroups(m, side, hs)  BY <1>1, <1>2, <1>4, <1>5, <1>7, <1>9, PutLayersForm
<1>11. /\ n \in Map(Q) /\ SameRest(m, n) /\ n.groups[side] = hs
       /\ PutGroups(n, side, gs) = m
       /\ \A x : PutGroups(n, side, x) = PutGroups(m, side, x)
       BY <1>1, <1>2, <1>8, <1>10, PutGroupsLaws
<1>12. HasGroup(n, at)  BY <1>1, <1>3, <1>8, <1>11 DEF HasGroup
<1>13. Layers(n, at) = ls /\ Layers(m, at) = g.layers
       BY <1>1, <1>2, <1>4, <1>6, <1>8, <1>11 DEF Layers
<1>14. g.layers \in Seq(Layer(Q))  BY <1>4 DEF Group
<1>15. ASSUME NEW x
       PROVE  PutLayers(n, at, x) = PutGroups(n, side, [hs EXCEPT ![k] = [h EXCEPT !.layers = x]])
       BY <1>1, <1>8, <1>11, PutLayersForm
<1>16. PutLayers(n, at, g.layers) = m
  <2>1. PutLayers(n, at, g.layers) = PutGroups(n, side, [hs EXCEPT ![k] = [h EXCEPT !.layers = g.layers]])
        BY <1>15
  <2> QED  BY <1>6, <1>8, <1>11, <2>1
<1>17. ASSUME NEW x PROVE PutLayers(n, at, x) = PutLayers(m, at, x)
  <2>1. PutLayers(m, at, x) = PutGroups(m, side, [gs EXCEPT ![k] = [g EXCEPT !.layers = x]])
        BY <1>1, <1>2, <1>4, PutLayersForm
  <2>2. [hs EXCEPT ![k] = [h EXCEPT !.layers = x]] = [gs EXCEPT ![k] = [g EXCEPT !.layers = x]]
        BY <1>6, <1>8
  <2> QED  BY <1>11, <1>15, <2>1, <2>2
<1> QED  BY <1>9, <1>11, <1>12, <1>13, <1>14, <1>16, <1>17

\* m is rest with the layer l put in at a place.
LayerIn(Q, at, l, rest, m) ==
    /\ rest \in Map(Q) /\ at \in Place /\ HasGroup(rest, at) /\ l \in Layer(Q)
    /\ Fits(Layers(rest, at), at.layer, 0)
    /\ m = PutLayers(rest, at, InsertAt(Layers(rest, at), at.layer, l))

LEMMA LayerInOut ==
    ASSUME NEW Q, NEW at, NEW l, NEW rest, NEW m, LayerIn(Q, at, l, rest, m)
    PROVE  /\ m \in Map(Q) /\ SameRest(rest, m)
           /\ HasLayer(m, at) /\ LayerAt(m, at) = l
           /\ rest = PutLayers(m, at, RemoveAt(Layers(m, at), at.layer))
<1>1. /\ rest \in Map(Q) /\ at \in Place /\ HasGroup(rest, at) /\ l \in Layer(Q)
      /\ Fits(Layers(rest, at), at.layer, 0)
      BY DEF LayerIn
<1>2. Layers(rest, at) \in Seq(Layer(Q))
  <2>1. <<>> \in Seq(Layer(Q))  OBVIOUS
  <2> QED  BY <1>1, <2>1, PutLayersLaws
<1>3. PICK ls \in Seq(Layer(Q)) : ls = Layers(rest, at)  BY <1>2
<1>4. PICK ks : ks = InsertAt(ls, at.layer, l)  OBVIOUS
<1>5. /\ ks \in Seq(Layer(Q)) /\ at.layer \in DOMAIN ks /\ ks[at.layer] = l
      /\ RemoveAt(ks, at.layer) = ls
      BY <1>1, <1>3, <1>4, RemoveInserted
<1>6. m = PutLayers(rest, at, ks)  BY <1>3, <1>4 DEF LayerIn
<1>7. /\ m \in Map(Q) /\ SameRest(rest, m) /\ HasGroup(m, at) /\ Layers(m, at) = ks
      /\ PutLayers(m, at, ls) = rest
      BY <1>1, <1>3, <1>5, <1>6, PutLayersLaws
<1> QED  BY <1>5, <1>7 DEF HasLayer, LayerAt

LEMMA LayerOutIn ==
    ASSUME NEW Q, NEW m \in Map(Q), NEW at \in Place, HasLayer(m, at)
    PROVE  LET rest == PutLayers(m, at, RemoveAt(Layers(m, at), at.layer))
           IN  /\ LayerIn(Q, at, LayerAt(m, at), rest, m)
               /\ SameRest(m, rest)
<1>1. HasGroup(m, at) /\ at.layer \in DOMAIN Layers(m, at)  BY DEF HasLayer
<1>2. Layers(m, at) \in Seq(Layer(Q))
  <2>1. <<>> \in Seq(Layer(Q))  OBVIOUS
  <2> QED  BY <1>1, <2>1, PutLayersLaws
<1>3. PICK ls \in Seq(Layer(Q)) : ls = Layers(m, at)  BY <1>2
<1>4. PICK ks : ks = RemoveAt(ls, at.layer)  OBVIOUS
<1>5. /\ ls[at.layer] \in Layer(Q) /\ ks \in Seq(Layer(Q)) /\ Fits(ks, at.layer, 0)
      /\ InsertAt(ks, at.layer, ls[at.layer]) = ls
      BY <1>1, <1>3, <1>4, InsertRemoved
<1>6. PICK rest : rest = PutLayers(m, at, ks)  OBVIOUS
<1>7. /\ rest \in Map(Q) /\ SameRest(m, rest) /\ HasGroup(rest, at) /\ Layers(rest, at) = ks
      /\ PutLayers(rest, at, ls) = m
      BY <1>1, <1>3, <1>5, <1>6, PutLayersLaws
<1>8. LayerIn(Q, at, ls[at.layer], rest, m)  BY <1>5, <1>7 DEF LayerIn
<1> QED  BY <1>3, <1>4, <1>6, <1>7, <1>8 DEF LayerAt

(***************************************************************************)
(* One layer.                                                              *)
(***************************************************************************)
LEMMA PutLayerForm ==
    ASSUME NEW m, NEW at, NEW l
    PROVE  PutLayer(m, at, l) = PutLayers(m, at, [Layers(m, at) EXCEPT ![at.layer] = l])
BY DEF PutLayer, PutLayers, Layers

LEMMA PutLayerLaws ==
    ASSUME NEW Q, NEW m \in Map(Q), NEW at \in Place, HasLayer(m, at), NEW l \in Layer(Q)
    PROVE  LET n == PutLayer(m, at, l)
           IN  /\ n \in Map(Q) /\ SameRest(m, n)
               /\ HasLayer(n, at) /\ LayerAt(n, at) = l /\ LayerAt(m, at) \in Layer(Q)
               /\ PutLayer(n, at, LayerAt(m, at)) = m
               /\ \A k : PutLayer(n, at, k) = PutLayer(m, at, k)
<1>1. HasGroup(m, at) /\ at.layer \in DOMAIN Layers(m, at)  BY DEF HasLayer
<1>2. Layers(m, at) \in Seq(Layer(Q))
  <2>1. <<>> \in Seq(Layer(Q))  OBVIOUS
  <2> QED  BY <1>1, <2>1, PutLayersLaws
<1>3. PICK ls \in Seq(Layer(Q)) : ls = Layers(m, at)  BY <1>2
<1>4. PICK ks : ks = [ls EXCEPT ![at.layer] = l]  OBVIOUS
<1>5. /\ ks \in Seq(Layer(Q)) /\ DOMAIN ks = DOMAIN ls /\ ks[at.layer] = l
      /\ ls[at.layer] \in Layer(Q)
      /\ [ks EXCEPT ![at.layer] = ls[at.layer]] = ls
      /\ \A x : [ks EXCEPT ![at.layer] = x] = [ls EXCEPT ![at.layer] = x]
      BY <1>1, <1>3, <1>4, SeqPut
<1>6. PICK n : n = PutLayer(m, at, l)  OBVIOUS
<1>7. n = PutLayers(m, at, ks)  BY <1>3, <1>4, <1>6, PutLayerForm
<1>8. /\ n \in Map(Q) /\ SameRest(m, n) /\ HasGroup(n, at) /\ Layers(n, at) = ks
      /\ PutLayers(n, at, ls) = m
      /\ \A x : PutLayers(n, at, x) = PutLayers(m, at, x)
      BY <1>1, <1>3, <1>5, <1>7, PutLayersLaws
<1>9. HasLayer(n, at) /\ LayerAt(n, at) = l /\ LayerAt(m, at) = ls[at.layer]
      BY <1>1, <1>3, <1>5, <1>8 DEF HasLayer, LayerAt
<1>10. ASSUME NEW k PROVE PutLayer(n, at, k) = PutLayers(n, at, [ks EXCEPT ![at.layer] = k])
       BY <1>8, PutLayerForm
<1>11. PutLayer(n, at, ls[at.layer]) = m
  <2>1. PutLayer(n, at, ls[at.layer]) = PutLayers(n, at, [ks EXCEPT ![at.layer] = ls[at.layer]])
        BY <1>10
  <2> QED  BY <1>5, <1>8, <2>1
<1>12. ASSUME NEW k PROVE PutLayer(n, at, k) = PutLayer(m, at, k)
  <2>1. PutLayer(m, at, k) = PutLayers(m, at, [ls EXCEPT ![at.layer] = k])  BY <1>3, PutLayerForm
  <2>2. PutLayer(n, at, k) = PutLayers(n, at, [ks EXCEPT ![at.layer] = k])  BY <1>10
  <2> QED  BY <1>5, <1>8, <2>1, <2>2
<1> QED  BY <1>5, <1>6, <1>8, <1>9, <1>11, <1>12

(***************************************************************************)
(* Groups and layers: moved, added and removed.                            *)
(***************************************************************************)
LEMMA InsertableFits ==
    ASSUME NEW S, NEW s \in Seq(S), NEW i
    PROVE  InsertableAt(s, i) <=> Fits(s, i, 0)
BY LenProperties DEF InsertableAt, Fits

\* The types are monotonic in the references they allow.
LEMMA TypesGrow ==
    ASSUME NEW P, NEW Q, P \subseteq Q
    PROVE  Item(P) \subseteq Item(Q) /\ Layer(P) \subseteq Layer(Q) /\ Group(P) \subseteq Group(Q)
<1>0. ASSUME NEW A, NEW B, A \subseteq B PROVE Seq(A) \subseteq Seq(B)
  <2> SUFFICES ASSUME NEW s \in Seq(A) PROVE s \in Seq(B)  OBVIOUS
  <2>1. Len(s) \in Nat /\ s \in [1 .. Len(s) -> A]  BY LenProperties
  <2> QED  BY <1>0, <2>1
<1>1. Item(P) \subseteq Item(Q)  BY DEF Item
<1>2. Seq(Item(P)) \subseteq Seq(Item(Q))  BY <1>0, <1>1
<1>3. ItemLayer(P) \subseteq ItemLayer(Q)  BY <1>2 DEF ItemLayer
<1>4. TileLayer(P) \subseteq TileLayer(Q)  BY DEF TileLayer
<1>5. Layer(P) \subseteq Layer(Q)  BY <1>3, <1>4 DEF Layer
<1>6. Seq(Layer(P)) \subseteq Seq(Layer(Q))  BY <1>0, <1>5
<1>7. Group(P) \subseteq Group(Q)  BY <1>6 DEF Group
<1> QED  BY <1>1, <1>5, <1>7

\* What refers inside the lists is what has the type with the references inside.
LEMMA ItemsFit ==
    ASSUME NEW m, NEW kind \in {"quad", "sound"}, NEW items \in Seq(Item(Ref))
    PROVE  RefsInBounds(m, ItemRefs(kind, items)) <=> items \in Seq(Item(InBounds(m.lists)))
<1> DEFINE Q == InBounds(m.lists)
<1>1. Len(items) \in Nat /\ DOMAIN items = 1 .. Len(items) /\ items \in [1 .. Len(items) -> Item(Ref)]
      BY LenProperties
<1>2. ItemRefs(kind, items) = UNION {items[i].ref : i \in DOMAIN items}  BY DEF ItemRefs
<1>3. \A i \in DOMAIN items : items[i].ref \subseteq Ref  BY <1>1 DEF Item
<1>4. RefsInBounds(m, ItemRefs(kind, items)) <=> \A i \in DOMAIN items : items[i].ref \subseteq Q
      BY <1>2, <1>3 DEF RefsInBounds, InBounds
<1>5. ASSUME NEW i \in DOMAIN items PROVE items[i].ref \subseteq Q <=> items[i] \in Item(Q)
      BY <1>1 DEF Item
<1>6. (\A i \in DOMAIN items : items[i] \in Item(Q)) <=> items \in Seq(Item(Q))
  <2> HIDE DEF Q
  <2>1. ASSUME \A i \in DOMAIN items : items[i] \in Item(Q) PROVE items \in Seq(Item(Q))
        BY <1>1, <2>1
  <2>2. ASSUME items \in Seq(Item(Q)) PROVE \A i \in DOMAIN items : items[i] \in Item(Q)
        BY <1>1, <2>2, ElementOfSeq
  <2> QED  BY <2>1, <2>2
<1> QED  BY <1>4, <1>5, <1>6

LEMMA RefSetFits ==
    ASSUME NEW m, NEW refs \in SUBSET Ref
    PROVE  RefsInBounds(m, refs) <=> refs \subseteq InBounds(m.lists)
BY DEF RefsInBounds, InBounds

LEMMA LayerFits ==
    ASSUME NEW m, NEW l \in Layer(Ref)
    PROVE  RefsInBounds(m, LayerRefs(l)) <=> l \in Layer(InBounds(m.lists))
<1> DEFINE Q == InBounds(m.lists)
<1>0. Q \subseteq Ref  BY DEF InBounds
<1>1. RefsInBounds(m, LayerRefs(l)) <=>
        RefsInBounds(m, l.attr.ref) /\ RefsInBounds(m, ItemRefs(l.kind, l.items))
      BY DEF RefsInBounds, LayerRefs
<1>2. CASE l \in TileLayer(Ref)
  <2>1. l.kind = "tile" /\ l.attr.ref \in SUBSET Ref  BY <1>2 DEF TileLayer
  <2>2. RefsInBounds(m, ItemRefs(l.kind, l.items))  BY <2>1 DEF RefsInBounds, ItemRefs
  <2>3. RefsInBounds(m, LayerRefs(l)) <=> l.attr.ref \subseteq Q  BY <1>1, <2>1, <2>2, RefSetFits
  <2> HIDE DEF Q
  <2>4. l.attr.ref \subseteq Q <=> l \in TileLayer(Q)  BY <1>2 DEF TileLayer
  <2>5. l \notin ItemLayer(Q)  BY <2>1 DEF ItemLayer
  <2> QED  BY <2>3, <2>4, <2>5 DEF Layer, Q
<1>3. CASE l \in ItemLayer(Ref)
  <2>1. l.kind \in {"quad", "sound"} /\ l.attr.ref \in SUBSET Ref /\ l.items \in Seq(Item(Ref))
        BY <1>3 DEF ItemLayer
  <2>2. RefsInBounds(m, LayerRefs(l)) <=> l.attr.ref \subseteq Q /\ l.items \in Seq(Item(Q))
        BY <1>1, <2>1, RefSetFits, ItemsFit
  <2> HIDE DEF Q
  <2>3. l.attr.ref \subseteq Q /\ l.items \in Seq(Item(Q)) <=> l \in ItemLayer(Q)
        BY <1>3 DEF ItemLayer
  <2>4. l \notin TileLayer(Q)  BY <2>1 DEF TileLayer
  <2> QED  BY <2>2, <2>3, <2>4 DEF Layer, Q
<1> QED  BY <1>2, <1>3 DEF Layer

(***************************************************************************)
(* Moved groups.                                                           *)
(***************************************************************************)
GroupMoved(a, m, n) ==
    \E g, rest :
       /\ GroupIn(InBounds(m.lists), a.from.side, a.from.group, g, rest, m)
       /\ GroupIn(InBounds(m.lists), a.to.side, a.to.group, g, rest, n)

LEMMA MoveGroupForm ==
    ASSUME NEW a, NEW m, NEW Q, m \in Map(Q), a.from \in Place, a.to \in Place
    PROVE  LET g == m.groups[a.from.side][a.from.group]
               rest == PutGroups(m, a.from.side, RemoveAt(m.groups[a.from.side], a.from.group))
               gs == rest.groups[a.to.side]
               ok == HasGroup(m, a.from) /\ Fits(gs, a.to.group, 0)
           IN  /\ ok => DoMoveGroup(a, m) =
                          Done(PutGroups(rest, a.to.side, InsertAt(gs, a.to.group, g)), a)
               /\ ~ok => DoMoveGroup(a, m) = Refused(m, a)
<1> DEFINE g == m.groups[a.from.side][a.from.group]
           rest == PutGroups(m, a.from.side, RemoveAt(m.groups[a.from.side], a.from.group))
           gs == rest.groups[a.to.side]
<1>1. /\ HasGroup(m, a.from) /\ InsertableAt(gs, a.to.group) =>
           DoMoveGroup(a, m) = Done(PutGroups(rest, a.to.side, InsertAt(gs, a.to.group, g)), a)
      /\ ~(HasGroup(m, a.from) /\ InsertableAt(gs, a.to.group)) => DoMoveGroup(a, m) = Refused(m, a)
      BY DEF DoMoveGroup
<1>2. ASSUME HasGroup(m, a.from) PROVE InsertableAt(gs, a.to.group) <=> Fits(gs, a.to.group, 0)
  <2>1. a.from.side \in Side /\ a.to.side \in Side  BY DEF Place
  <2>2. a.from.group \in DOMAIN m.groups[a.from.side]  BY <1>2 DEF HasGroup
  <2>3. GroupIn(Q, a.from.side, a.from.group, g, rest, m)  BY <2>1, <2>2, GroupOutIn
  <2>4. rest \in Map(Q)  BY <2>3 DEF GroupIn
  <2> HIDE DEF rest
  <2>5. gs \in Seq(Group(Q))  BY <2>1, <2>4 DEF Map
  <2> HIDE DEF gs
  <2> QED  BY <2>5, InsertableFits
<1> QED  BY <1>1, <1>2

LEMMA DoneFields ==
    \A m, a : /\ Done(m, a).ok /\ Done(m, a).map = m /\ Done(m, a).act = a
              /\ ~Refused(m, a).ok
BY DEF Done, Refused

LEMMA DoneIs ==
    ASSUME NEW d, NEW n, NEW b, d = Done(n, b)
    PROVE  d.ok /\ d.map = n /\ d.act = b
BY DEF Done

LEMMA MoveGroupDone ==
    ASSUME NEW a, NEW m, WellFormed(m), a.from \in Place, a.to \in Place,
           DoMoveGroup(a, m).ok
    PROVE  LET d == DoMoveGroup(a, m)
           IN  d.act = a /\ WellFormed(d.map) /\ GroupMoved(a, m, d.map)
<1> DEFINE Q == InBounds(m.lists)
           g == m.groups[a.from.side][a.from.group]
           rest == PutGroups(m, a.from.side, RemoveAt(m.groups[a.from.side], a.from.group))
           gs == rest.groups[a.to.side]
           n == PutGroups(rest, a.to.side, InsertAt(gs, a.to.group, g))
<1>1. m \in Map(Q)  BY DEF WellFormed
<1> HIDE DEF Q
<1>2. /\ HasGroup(m, a.from) /\ Fits(gs, a.to.group, 0)
      /\ DoMoveGroup(a, m) = Done(n, a)
      BY <1>1, MoveGroupForm, DoneFields
<1>3. a.from.side \in Side /\ a.to.side \in Side  BY DEF Place
<1>4. GroupIn(Q, a.from.side, a.from.group, g, rest, m) /\ SameRest(m, rest)
      BY <1>1, <1>2, <1>3, GroupOutIn DEF HasGroup
<1>5. GroupIn(Q, a.to.side, a.to.group, g, rest, n)
      BY <1>2, <1>3, <1>4 DEF GroupIn
<1> HIDE DEF n, rest
<1>6. n \in Map(Q) /\ SameRest(rest, n)  BY <1>5, GroupInOut
<1>7. WellFormed(n)
  <2>1. SameRest(m, n)  BY <1>4, <1>6 DEF SameRest
  <2> QED  BY <1>6, <2>1, StaysWellFormed DEF Q
<1>8. GroupMoved(a, m, n)  BY <1>4, <1>5 DEF GroupMoved, Q
<1> QED  BY <1>2, <1>7, <1>8, DoneFields

LEMMA MoveGroupRedone ==
    ASSUME NEW a, NEW m, NEW n, a.from \in Place, a.to \in Place, GroupMoved(a, m, n)
    PROVE  DoMoveGroup(a, m).ok /\ DoMoveGroup(a, m).map = n
<1> DEFINE Q == InBounds(m.lists)
<1>1. PICK g, rest : /\ GroupIn(Q, a.from.side, a.from.group, g, rest, m)
                     /\ GroupIn(Q, a.to.side, a.to.group, g, rest, n)
      BY DEF GroupMoved
<1> HIDE DEF Q
<1>2. /\ m \in Map(Q) /\ a.from.group \in DOMAIN m.groups[a.from.side]
      /\ m.groups[a.from.side][a.from.group] = g
      /\ rest = PutGroups(m, a.from.side, RemoveAt(m.groups[a.from.side], a.from.group))
      BY <1>1, GroupInOut
<1>3. HasGroup(m, a.from)  BY <1>2 DEF HasGroup
<1>4. /\ Fits(rest.groups[a.to.side], a.to.group, 0)
      /\ n = PutGroups(rest, a.to.side, InsertAt(rest.groups[a.to.side], a.to.group, g))
      BY <1>1 DEF GroupIn
<1>5. DoMoveGroup(a, m) = Done(n, a)  BY <1>2, <1>3, <1>4, MoveGroupForm
<1> QED  BY <1>5, DoneFields

LEMMA MoveGroupBack ==
    ASSUME NEW a, NEW b, NEW m, NEW n, GroupMoved(a, m, n), b.from = a.to, b.to = a.from
    PROVE  GroupMoved(b, n, m)
<1>1. PICK g, rest : /\ GroupIn(InBounds(m.lists), a.from.side, a.from.group, g, rest, m)
                     /\ GroupIn(InBounds(m.lists), a.to.side, a.to.group, g, rest, n)
      BY DEF GroupMoved
<1>2. SameRest(rest, m) /\ SameRest(rest, n)  BY <1>1, GroupInOut
<1>3. n.lists = m.lists  BY <1>2 DEF SameRest
<1> QED  BY <1>1, <1>3 DEF GroupMoved

LEMMA MoveGroupMerged ==
    ASSUME NEW a, NEW b, NEW c, NEW m, NEW n, NEW p, GroupMoved(a, m, n), GroupMoved(b, n, p),
           a.to = b.from, c.from = a.from, c.to = b.to
    PROVE  GroupMoved(c, m, p)
<1>1. PICK g, r : /\ GroupIn(InBounds(m.lists), a.from.side, a.from.group, g, r, m)
                  /\ GroupIn(InBounds(m.lists), a.to.side, a.to.group, g, r, n)
      BY DEF GroupMoved
<1>2. PICK h, t : /\ GroupIn(InBounds(n.lists), b.from.side, b.from.group, h, t, n)
                  /\ GroupIn(InBounds(n.lists), b.to.side, b.to.group, h, t, p)
      BY DEF GroupMoved
<1>3. SameRest(r, m) /\ SameRest(r, n)  BY <1>1, GroupInOut
<1>4. n.lists = m.lists  BY <1>3 DEF SameRest
<1>5. n.groups[a.to.side][a.to.group] = g
      /\ r = PutGroups(n, a.to.side, RemoveAt(n.groups[a.to.side], a.to.group))
      BY <1>1, GroupInOut
<1>6. n.groups[b.from.side][b.from.group] = h
      /\ t = PutGroups(n, b.from.side, RemoveAt(n.groups[b.from.side], b.from.group))
      BY <1>2, GroupInOut
<1>7. g = h /\ r = t  BY <1>5, <1>6
<1> QED  BY <1>1, <1>2, <1>4, <1>7 DEF GroupMoved

(***************************************************************************)
(* Moved layers.                                                           *)
(***************************************************************************)
LayerMoved(a, m, n) ==
    \E l, rest :
       /\ LayerIn(InBounds(m.lists), a.from, l, rest, m)
       /\ LayerIn(InBounds(m.lists), a.to, l, rest, n)

LEMMA LayersTyped ==
    ASSUME NEW Q, NEW m \in Map(Q), NEW at \in Place, HasGroup(m, at)
    PROVE  Layers(m, at) \in Seq(Layer(Q))
<1>1. <<>> \in Seq(Layer(Q))  OBVIOUS
<1> QED  BY <1>1, PutLayersLaws

LEMMA MoveLayerForm ==
    ASSUME NEW a, NEW m, NEW Q, m \in Map(Q), a.from \in Place, a.to \in Place
    PROVE  LET l == LayerAt(m, a.from)
               rest == PutLayers(m, a.from, RemoveAt(Layers(m, a.from), a.from.layer))
               ls == Layers(rest, a.to)
               ok == HasLayer(m, a.from) /\ HasGroup(rest, a.to) /\ Fits(ls, a.to.layer, 0)
           IN  /\ ok => DoMoveLayer(a, m) =
                          Done(PutLayers(rest, a.to, InsertAt(ls, a.to.layer, l)), a)
               /\ ~ok => DoMoveLayer(a, m) = Refused(m, a)
<1> DEFINE l == LayerAt(m, a.from)
           rest == PutLayers(m, a.from, RemoveAt(Layers(m, a.from), a.from.layer))
           ls == Layers(rest, a.to)
           ok == HasLayer(m, a.from) /\ HasGroup(rest, a.to) /\ InsertableAt(ls, a.to.layer)
<1>1. /\ ok => DoMoveLayer(a, m) = Done(PutLayers(rest, a.to, InsertAt(ls, a.to.layer, l)), a)
      /\ ~ok => DoMoveLayer(a, m) = Refused(m, a)
      BY DEF DoMoveLayer
<1>2. ASSUME HasLayer(m, a.from), HasGroup(rest, a.to)
      PROVE  InsertableAt(ls, a.to.layer) <=> Fits(ls, a.to.layer, 0)
  <2>1. LayerIn(Q, a.from, l, rest, m)  BY <1>2, LayerOutIn
  <2>2. rest \in Map(Q)  BY <2>1 DEF LayerIn
  <2> HIDE DEF rest
  <2>3. ls \in Seq(Layer(Q))  BY <1>2, <2>2, LayersTyped
  <2> HIDE DEF ls
  <2> QED  BY <2>3, InsertableFits
<1> QED  BY <1>1, <1>2

LEMMA MoveLayerDone ==
    ASSUME NEW a, NEW m, WellFormed(m), a.from \in Place, a.to \in Place,
           DoMoveLayer(a, m).ok
    PROVE  LET d == DoMoveLayer(a, m)
           IN  d.act = a /\ WellFormed(d.map) /\ LayerMoved(a, m, d.map)
<1> DEFINE Q == InBounds(m.lists)
           l == LayerAt(m, a.from)
           rest == PutLayers(m, a.from, RemoveAt(Layers(m, a.from), a.from.layer))
           ls == Layers(rest, a.to)
           n == PutLayers(rest, a.to, InsertAt(ls, a.to.layer, l))
<1>1. m \in Map(Q)  BY DEF WellFormed
<1> HIDE DEF Q
<1>2. /\ HasLayer(m, a.from) /\ HasGroup(rest, a.to) /\ Fits(ls, a.to.layer, 0)
      /\ DoMoveLayer(a, m) = Done(n, a)
      BY <1>1, MoveLayerForm, DoneFields
<1>4. LayerIn(Q, a.from, l, rest, m) /\ SameRest(m, rest)
      BY <1>1, <1>2, LayerOutIn
<1>5. LayerIn(Q, a.to, l, rest, n)  BY <1>2, <1>4 DEF LayerIn
<1> HIDE DEF n, rest
<1>6. n \in Map(Q) /\ SameRest(rest, n)  BY <1>5, LayerInOut
<1>7. WellFormed(n)
  <2>1. SameRest(m, n)  BY <1>4, <1>6 DEF SameRest
  <2> QED  BY <1>6, <2>1, StaysWellFormed DEF Q
<1>8. LayerMoved(a, m, n)  BY <1>4, <1>5 DEF LayerMoved, Q
<1> QED  BY <1>2, <1>7, <1>8, DoneFields

LEMMA MoveLayerRedone ==
    ASSUME NEW a, NEW m, NEW n, a.from \in Place, a.to \in Place, LayerMoved(a, m, n)
    PROVE  DoMoveLayer(a, m).ok /\ DoMoveLayer(a, m).map = n
<1> DEFINE Q == InBounds(m.lists)
<1>1. PICK l, rest : LayerIn(Q, a.from, l, rest, m) /\ LayerIn(Q, a.to, l, rest, n)
      BY DEF LayerMoved
<1> HIDE DEF Q
<1>2. /\ m \in Map(Q) /\ HasLayer(m, a.from) /\ LayerAt(m, a.from) = l
      /\ rest = PutLayers(m, a.from, RemoveAt(Layers(m, a.from), a.from.layer))
      BY <1>1, LayerInOut
<1>3. /\ HasGroup(rest, a.to) /\ Fits(Layers(rest, a.to), a.to.layer, 0)
      /\ n = PutLayers(rest, a.to, InsertAt(Layers(rest, a.to), a.to.layer, l))
      BY <1>1 DEF LayerIn
<1>4. DoMoveLayer(a, m) = Done(n, a)  BY <1>2, <1>3, MoveLayerForm
<1> QED  BY <1>4, DoneFields

LEMMA MoveLayerBack ==
    ASSUME NEW a, NEW b, NEW m, NEW n, LayerMoved(a, m, n), b.from = a.to, b.to = a.from
    PROVE  LayerMoved(b, n, m)
<1>1. PICK l, rest : /\ LayerIn(InBounds(m.lists), a.from, l, rest, m)
                     /\ LayerIn(InBounds(m.lists), a.to, l, rest, n)
      BY DEF LayerMoved
<1>2. SameRest(rest, m) /\ SameRest(rest, n)  BY <1>1, LayerInOut
<1>3. n.lists = m.lists  BY <1>2 DEF SameRest
<1> QED  BY <1>1, <1>3 DEF LayerMoved

LEMMA MoveLayerMerged ==
    ASSUME NEW a, NEW b, NEW c, NEW m, NEW n, NEW p, LayerMoved(a, m, n), LayerMoved(b, n, p),
           a.to = b.from, c.from = a.from, c.to = b.to
    PROVE  LayerMoved(c, m, p)
<1>1. PICK l, r : /\ LayerIn(InBounds(m.lists), a.from, l, r, m)
                  /\ LayerIn(InBounds(m.lists), a.to, l, r, n)
      BY DEF LayerMoved
<1>2. PICK k, t : /\ LayerIn(InBounds(n.lists), b.from, k, t, n)
                  /\ LayerIn(InBounds(n.lists), b.to, k, t, p)
      BY DEF LayerMoved
<1>3. SameRest(r, m) /\ SameRest(r, n)  BY <1>1, LayerInOut
<1>4. n.lists = m.lists  BY <1>3 DEF SameRest
<1>5. /\ LayerAt(n, a.to) = l
      /\ r = PutLayers(n, a.to, RemoveAt(Layers(n, a.to), a.to.layer))
      BY <1>1, LayerInOut
<1>6. /\ LayerAt(n, b.from) = k
      /\ t = PutLayers(n, b.from, RemoveAt(Layers(n, b.from), b.from.layer))
      BY <1>2, LayerInOut
<1>7. l = k /\ r = t  BY <1>5, <1>6
<1> QED  BY <1>1, <1>2, <1>4, <1>7 DEF LayerMoved

(***************************************************************************)
(* Added and removed groups and layers.                                    *)
(***************************************************************************)
GroupAdded(a, m, n) == GroupIn(InBounds(m.lists), a.at.side, a.at.group, a.group, m, n)
LayerAdded(a, m, n) == LayerIn(InBounds(m.lists), a.at, a.layer, m, n)

LEMMA AddGroupDone ==
    ASSUME NEW a, NEW m, WellFormed(m), a.at \in Place, a.group \in Group({}),
           DoAddGroup(a, m).ok
    PROVE  LET d == DoAddGroup(a, m)
           IN  d.act = a /\ WellFormed(d.map) /\ GroupAdded(a, m, d.map)
<1> DEFINE Q == InBounds(m.lists)
           gs == m.groups[a.at.side]
           n == PutGroups(m, a.at.side, InsertAt(gs, a.at.group, a.group))
<1>1. m \in Map(Q)  BY DEF WellFormed
<1>2. a.group \in Group(Q)
  <2>1. {} \subseteq Q  OBVIOUS
  <2> QED  BY <2>1, TypesGrow
<1>3. a.at.side \in Side  BY DEF Place
<1>4. gs \in Seq(Group(Q))  BY <1>1, <1>3 DEF Map
<1>5. DoAddGroup(a, m) = Done(n, a) /\ InsertableAt(gs, a.at.group)
      BY DoneFields DEF DoAddGroup
<1> HIDE DEF gs
<1>6. Fits(gs, a.at.group, 0)  BY <1>4, <1>5, InsertableFits
<1>7. GroupAdded(a, m, n)  BY <1>1, <1>2, <1>3, <1>6 DEF GroupAdded, GroupIn, gs
<1> HIDE DEF n
<1>8. n \in Map(Q) /\ SameRest(m, n)  BY <1>7, GroupInOut DEF GroupAdded
<1>9. WellFormed(n)  BY <1>8, StaysWellFormed
<1> QED  BY <1>5, <1>7, <1>9, DoneFields

LEMMA AddGroupRedone ==
    ASSUME NEW a, NEW m, NEW n, GroupAdded(a, m, n)
    PROVE  DoAddGroup(a, m).ok /\ DoAddGroup(a, m).map = n
<1>1. /\ m \in Map(InBounds(m.lists)) /\ a.at.side \in Side
      /\ Fits(m.groups[a.at.side], a.at.group, 0)
      /\ n = PutGroups(m, a.at.side, InsertAt(m.groups[a.at.side], a.at.group, a.group))
      BY DEF GroupAdded, GroupIn
<1>2. m.groups[a.at.side] \in Seq(Group(InBounds(m.lists)))  BY <1>1 DEF Map
<1>3. InsertableAt(m.groups[a.at.side], a.at.group)  BY <1>1, <1>2, InsertableFits
<1>4. DoAddGroup(a, m) = Done(n, a)  BY <1>1, <1>3 DEF DoAddGroup
<1> QED  BY <1>4, DoneFields

LEMMA RemGroupDone ==
    ASSUME NEW a \in [op : {"RemGroup"}, at : Place, group : Group(Ref)],
           NEW m, WellFormed(m), NEW d, d = DoRemGroup(a, m, TRUE), d.ok
    PROVE  /\ d.act \in [op : {"RemGroup"}, at : Place, group : Group(Ref)]
           /\ WellFormed(d.map) /\ GroupAdded(d.act, d.map, m)
<1>0. PICK Q, g, n, b : /\ Q = InBounds(m.lists)
                        /\ g = m.groups[a.at.side][a.at.group]
                        /\ n = PutGroups(m, a.at.side, RemoveAt(m.groups[a.at.side], a.at.group))
                        /\ b = [a EXCEPT !.group = g]
      OBVIOUS
<1>1. m \in Map(Q)  BY <1>0 DEF WellFormed
<1>2. a.at.side \in Side  BY DEF Place
<1>3. d = Done(n, b) /\ HasGroup(m, a.at)
      BY <1>0, DoneFields DEF DoRemGroup
<1>4. GroupIn(Q, a.at.side, a.at.group, g, n, m) /\ SameRest(m, n)
      BY <1>0, <1>1, <1>2, <1>3, GroupOutIn DEF HasGroup
<1>5. n \in Map(Q) /\ g \in Group(Q)  BY <1>4 DEF GroupIn
<1>6. WellFormed(n) /\ n.lists = m.lists  BY <1>0, <1>4, <1>5, StaysWellFormed DEF SameRest
<1>7. g \in Group(Ref)
  <2>1. Q \subseteq Ref  BY <1>0 DEF InBounds
  <2> QED  BY <1>5, <2>1, TypesGrow
<1>8. /\ b \in [op : {"RemGroup"}, at : Place, group : Group(Ref)]
      /\ b.at = a.at /\ b.group = g
      BY <1>0, <1>7
<1>9. GroupAdded(b, n, m)  BY <1>0, <1>4, <1>6, <1>8 DEF GroupAdded
<1>10. d.act = b /\ d.map = n  BY <1>3, DoneIs
<1> QED  BY <1>6, <1>8, <1>9, <1>10

LEMMA RemGroupRedone ==
    ASSUME NEW a, NEW m, NEW n, GroupAdded(a, n, m)
    PROVE  DoRemGroup(a, m, FALSE).ok /\ DoRemGroup(a, m, FALSE).map = n
<1>1. /\ a.at.group \in DOMAIN m.groups[a.at.side]
      /\ m.groups[a.at.side][a.at.group] = a.group
      /\ n = PutGroups(m, a.at.side, RemoveAt(m.groups[a.at.side], a.at.group))
      BY GroupInOut DEF GroupAdded
<1>2. DoRemGroup(a, m, FALSE) = Done(n, [a EXCEPT !.group = a.group])
      BY <1>1 DEF DoRemGroup, HasGroup
<1>3. PICK b : DoRemGroup(a, m, FALSE) = Done(n, b)  BY <1>2
<1> QED  BY <1>3, DoneFields

LEMMA AddLayerDone ==
    ASSUME NEW a, NEW m, WellFormed(m), a.at \in Place, a.layer \in Layer(Ref),
           DoAddLayer(a, m).ok
    PROVE  LET d == DoAddLayer(a, m)
           IN  d.act = a /\ WellFormed(d.map) /\ LayerAdded(a, m, d.map)
<1> DEFINE Q == InBounds(m.lists)
           ls == Layers(m, a.at)
           n == PutLayers(m, a.at, InsertAt(ls, a.at.layer, a.layer))
<1>1. m \in Map(Q)  BY DEF WellFormed
<1>2. /\ DoAddLayer(a, m) = Done(n, a) /\ HasGroup(m, a.at) /\ InsertableAt(ls, a.at.layer)
      /\ RefsInBounds(m, LayerRefs(a.layer))
      BY DoneFields DEF DoAddLayer
<1>3. ls \in Seq(Layer(Q))  BY <1>1, <1>2, LayersTyped
<1>4. a.layer \in Layer(Q)  BY <1>2, LayerFits
<1> HIDE DEF ls
<1>5. Fits(ls, a.at.layer, 0)  BY <1>2, <1>3, InsertableFits
<1>6. LayerAdded(a, m, n)  BY <1>1, <1>2, <1>4, <1>5 DEF LayerAdded, LayerIn, ls
<1> HIDE DEF n
<1>7. n \in Map(Q) /\ SameRest(m, n)  BY <1>6, LayerInOut DEF LayerAdded
<1>8. WellFormed(n)  BY <1>7, StaysWellFormed
<1> QED  BY <1>2, <1>6, <1>8, DoneFields

LEMMA AddLayerRedone ==
    ASSUME NEW a, NEW m, NEW n, LayerAdded(a, m, n)
    PROVE  DoAddLayer(a, m).ok /\ DoAddLayer(a, m).map = n
<1> DEFINE Q == InBounds(m.lists)
<1>1. /\ m \in Map(Q) /\ a.at \in Place /\ HasGroup(m, a.at) /\ a.layer \in Layer(Q)
      /\ Fits(Layers(m, a.at), a.at.layer, 0)
      /\ n = PutLayers(m, a.at, InsertAt(Layers(m, a.at), a.at.layer, a.layer))
      BY DEF LayerAdded, LayerIn
<1>2. Layers(m, a.at) \in Seq(Layer(Q))  BY <1>1, LayersTyped
<1>3. InsertableAt(Layers(m, a.at), a.at.layer)  BY <1>1, <1>2, InsertableFits
<1>4. RefsInBounds(m, LayerRefs(a.layer))
  <2>1. Q \subseteq Ref  BY DEF InBounds
  <2>2. a.layer \in Layer(Ref)  BY <1>1, <2>1, TypesGrow
  <2> QED  BY <1>1, <2>2, LayerFits
<1>5. DoAddLayer(a, m) = Done(n, a)  BY <1>1, <1>3, <1>4 DEF DoAddLayer
<1> QED  BY <1>5, DoneFields

LEMMA RemLayerDone ==
    ASSUME NEW a \in [op : {"RemLayer"}, at : Place, layer : Layer(Ref)],
           NEW m, WellFormed(m), NEW d, d = DoRemLayer(a, m, TRUE), d.ok
    PROVE  /\ d.act \in [op : {"RemLayer"}, at : Place, layer : Layer(Ref)]
           /\ WellFormed(d.map) /\ LayerAdded(d.act, d.map, m)
<1>0. PICK Q, l, n, b : /\ Q = InBounds(m.lists)
                        /\ l = LayerAt(m, a.at)
                        /\ n = PutLayers(m, a.at, RemoveAt(Layers(m, a.at), a.at.layer))
                        /\ b = [a EXCEPT !.layer = l]
      OBVIOUS
<1>1. m \in Map(Q)  BY <1>0 DEF WellFormed
<1>2. a.at \in Place  OBVIOUS
<1>3. d = Done(n, b) /\ HasLayer(m, a.at)
      BY <1>0, DoneFields DEF DoRemLayer, IsLayer
<1>4. LayerIn(Q, a.at, l, n, m) /\ SameRest(m, n)  BY <1>0, <1>1, <1>2, <1>3, LayerOutIn
<1>5. n \in Map(Q) /\ l \in Layer(Q)  BY <1>4 DEF LayerIn
<1>6. WellFormed(n) /\ n.lists = m.lists  BY <1>0, <1>4, <1>5, StaysWellFormed DEF SameRest
<1>7. l \in Layer(Ref)
  <2>1. Q \subseteq Ref  BY <1>0 DEF InBounds
  <2> QED  BY <1>5, <2>1, TypesGrow
<1>8. /\ b \in [op : {"RemLayer"}, at : Place, layer : Layer(Ref)]
      /\ b.at = a.at /\ b.layer = l
      BY <1>0, <1>7
<1>9. LayerAdded(b, n, m)  BY <1>0, <1>4, <1>6, <1>8 DEF LayerAdded
<1>10. d.act = b /\ d.map = n  BY <1>3, DoneIs
<1> QED  BY <1>6, <1>8, <1>9, <1>10

LEMMA RemLayerRedone ==
    ASSUME NEW a, NEW m, NEW n, LayerAdded(a, n, m)
    PROVE  DoRemLayer(a, m, FALSE).ok /\ DoRemLayer(a, m, FALSE).map = n
<1>1. /\ HasLayer(m, a.at) /\ LayerAt(m, a.at) = a.layer
      /\ n = PutLayers(m, a.at, RemoveAt(Layers(m, a.at), a.at.layer))
      BY LayerInOut DEF LayerAdded
<1>2. DoRemLayer(a, m, FALSE) = Done(n, [a EXCEPT !.layer = a.layer])
      BY <1>1 DEF DoRemLayer, IsLayer
<1>3. PICK b : DoRemLayer(a, m, FALSE) = Done(n, b)  BY <1>2
<1> QED  BY <1>3, DoneFields

(***************************************************************************)
(* A layer exchanged for another: n is m with the layer l at a place.      *)
(***************************************************************************)
LayerPut(Q, at, k, l, m, n) ==
    /\ m \in Map(Q) /\ at \in Place /\ HasLayer(m, at) /\ k = LayerAt(m, at) /\ l \in Layer(Q)
    /\ n = PutLayer(m, at, l)

LEMMA LayerPutBack ==
    ASSUME NEW Q, NEW at, NEW k, NEW l, NEW m, NEW n, LayerPut(Q, at, k, l, m, n)
    PROVE  LayerPut(Q, at, l, k, n, m) /\ SameRest(m, n) /\ k \in Layer(Q)
<1>1. /\ m \in Map(Q) /\ at \in Place /\ HasLayer(m, at) /\ k = LayerAt(m, at) /\ l \in Layer(Q)
      /\ n = PutLayer(m, at, l)
      BY DEF LayerPut
<1>2. /\ n \in Map(Q) /\ SameRest(m, n) /\ HasLayer(n, at) /\ LayerAt(n, at) = l
      /\ LayerAt(m, at) \in Layer(Q) /\ PutLayer(n, at, LayerAt(m, at)) = m
      BY <1>1, PutLayerLaws
<1> QED  BY <1>1, <1>2 DEF LayerPut

LEMMA LayerPutTwice ==
    ASSUME NEW Q, NEW at, NEW j, NEW k, NEW h, NEW l, NEW m, NEW n, NEW p,
           LayerPut(Q, at, j, k, m, n), LayerPut(Q, at, h, l, n, p)
    PROVE  h = k /\ LayerPut(Q, at, j, l, m, p)
<1>1. /\ m \in Map(Q) /\ at \in Place /\ HasLayer(m, at) /\ j = LayerAt(m, at) /\ k \in Layer(Q)
      /\ n = PutLayer(m, at, k)
      BY DEF LayerPut
<1>2. h = LayerAt(n, at) /\ l \in Layer(Q) /\ p = PutLayer(n, at, l)
      BY DEF LayerPut
<1>3. LayerAt(n, at) = k /\ PutLayer(n, at, l) = PutLayer(m, at, l)
      BY <1>1, PutLayerLaws
<1> QED  BY <1>1, <1>2, <1>3 DEF LayerPut

LEMMA LayerPutWellFormed ==
    ASSUME NEW at, NEW k, NEW l, NEW m, NEW n, WellFormed(m),
           LayerPut(InBounds(m.lists), at, k, l, m, n)
    PROVE  WellFormed(n) /\ n.lists = m.lists
<1>1. LayerPut(InBounds(m.lists), at, l, k, n, m) /\ SameRest(m, n)  BY LayerPutBack
<1>2. n \in Map(InBounds(m.lists))  BY <1>1 DEF LayerPut
<1> QED  BY <1>1, <1>2, StaysWellFormed DEF SameRest

LEMMA LayerOfMap ==
    ASSUME NEW Q, NEW m \in Map(Q), NEW at \in Place, HasLayer(m, at)
    PROVE  LayerAt(m, at) \in Layer(Q)
<1>1. HasGroup(m, at) /\ at.layer \in DOMAIN Layers(m, at)  BY DEF HasLayer
<1>2. PICK ls \in Seq(Layer(Q)) : ls = Layers(m, at)  BY <1>1, LayersTyped
<1>3. ls[at.layer] \in Layer(Q)  BY <1>1, <1>2, LenProperties, ElementOfSeq
<1> QED  BY <1>2, <1>3 DEF LayerAt

(***************************************************************************)
(* Quads and sounds added.                                                 *)
(***************************************************************************)
SetItems(k, s) == [k EXCEPT !.items = s]
MoreItems(k, a) == SetItems(k, Splice(k.items, a.index, a.items))
FewerItems(l, a) == SetItems(l, Cut(l.items, a.index, Len(a.items)))

ItemsAdded(a, m, n) ==
    /\ HasLayer(m, a.at) /\ m \in Map(InBounds(m.lists)) /\ a.at \in Place
    /\ LayerAt(m, a.at).kind # a.kind => n = m
    /\ LayerAt(m, a.at).kind = a.kind =>
          /\ a.kind \in {"quad", "sound"} /\ a.items \in Seq(Item(InBounds(m.lists)))
          /\ Fits(LayerAt(m, a.at).items, a.index, 0)
          /\ LayerPut(InBounds(m.lists), a.at, LayerAt(m, a.at), MoreItems(LayerAt(m, a.at), a), m, n)

LEMMA ItemLayerOf ==
    ASSUME NEW Q, NEW k \in Layer(Q), k.kind \in {"quad", "sound"}
    PROVE  /\ k \in ItemLayer(Q) /\ k.items \in Seq(Item(Q))
           /\ \A s \in Seq(Item(Q)) : SetItems(k, s) \in Layer(Q)
           /\ \A s : /\ SetItems(k, s).items = s /\ SetItems(k, s).kind = k.kind
                     /\ SetItems(k, s).attr = k.attr /\ SetItems(SetItems(k, s), k.items) = k
                     /\ \A t : SetItems(SetItems(k, s), t) = SetItems(k, t)
<1>1. k \in ItemLayer(Q)  BY DEF Layer, TileLayer
<1>2. k.items \in Seq(Item(Q))  BY <1>1 DEF ItemLayer
<1>3. PICK A, B, C : k \in [kind : {"quad", "sound"}, name : A, attr : B, items : C]
      BY <1>1 DEF ItemLayer
<1>4. ASSUME NEW s \in Seq(Item(Q)) PROVE [k EXCEPT !.items = s] \in ItemLayer(Q)
      BY <1>1 DEF ItemLayer
<1>5. \A s, t : /\ [k EXCEPT !.items = s].items = s
                /\ [k EXCEPT !.items = s].kind = k.kind
                /\ [k EXCEPT !.items = s].attr = k.attr
                /\ [k EXCEPT !.items = k.items] = k
                /\ [[k EXCEPT !.items = s] EXCEPT !.items = t] = [k EXCEPT !.items = t]
      BY <1>3
<1> QED  BY <1>1, <1>2, <1>4, <1>5 DEF Layer, SetItems

\* The layer with the items taken out again is the one before.
LEMMA ItemsBack ==
    ASSUME NEW Q, NEW k \in Layer(Q), k.kind \in {"quad", "sound"}, NEW a, a.items \in Seq(Item(Q)),
           Fits(k.items, a.index, 0)
    PROVE  LET l == MoreItems(k, a)
           IN  /\ l \in Layer(Q) /\ l.kind = k.kind /\ l.items \in Seq(Item(Q))
               /\ Fits(l.items, a.index, Len(a.items))
               /\ Part(l.items, a.index, a.index + Len(a.items) - 1) = a.items
               /\ FewerItems(l, a) = k
<1>1. PICK s \in Seq(Item(Q)) : s = k.items  BY ItemLayerOf
<1>2. PICK i, t, n : i = a.index /\ t = a.items /\ t \in Seq(Item(Q)) /\ n = Len(t)  OBVIOUS
<1>3. Fits(s, i, 0) /\ Long(t, n)  BY <1>1, <1>2 DEF Long
<1>4. PICK u : u = Splice(s, i, t)  OBVIOUS
<1>5. /\ u \in Seq(Item(Q)) /\ Fits(u, i, n) /\ Part(u, i, i + n - 1) = t /\ Cut(u, i, n) = s
      BY <1>2, <1>3, <1>4, CutSpliced
<1>6. PICK l : l = SetItems(k, u)  OBVIOUS
<1>7. l = MoreItems(k, a)  BY <1>1, <1>2, <1>4, <1>6 DEF MoreItems
<1>8. l \in Layer(Q) /\ l.items = u /\ l.kind = k.kind /\ SetItems(l, s) = k
      BY <1>1, <1>5, <1>6, ItemLayerOf
<1>9. FewerItems(l, a) = k  BY <1>2, <1>5, <1>8 DEF FewerItems
<1> QED  BY <1>2, <1>5, <1>7, <1>8, <1>9

LEMMA ItemSeqsGrow ==
    ASSUME NEW P, NEW Q, P \subseteq Q
    PROVE  Seq(Item(P)) \subseteq Seq(Item(Q))
<1>1. Item(P) \subseteq Item(Q)  BY TypesGrow
<1>2. SUFFICES ASSUME NEW s \in Seq(Item(P)) PROVE s \in Seq(Item(Q))  OBVIOUS
<1>3. Len(s) \in Nat /\ s \in [1 .. Len(s) -> Item(P)]  BY LenProperties
<1> QED  BY <1>1, <1>3

LEMMA AddItemsDone ==
    ASSUME NEW a \in [op : {"AddItems"}, kind : {"quad", "sound"}, at : Place, index : Index,
                      items : Seq(Item(Ref))],
           NEW m, WellFormed(m), NEW d, d = DoAddItems(a, m), d.ok
    PROVE  d.act = a /\ WellFormed(d.map) /\ ItemsAdded(a, m, d.map)
<1>0. PICK Q, k : Q = InBounds(m.lists) /\ k = LayerAt(m, a.at)  OBVIOUS
<1>1. m \in Map(Q)  BY <1>0 DEF WellFormed
<1>2. a.at \in Place /\ HasLayer(m, a.at)
  <2>1. ~HasLayer(m, a.at) => DoAddItems(a, m) = Refused(m, a)  BY DEF DoAddItems, IsLayer
  <2> QED  BY <2>1, DoneFields
<1>3. CASE k.kind # a.kind
  <2>1. d = Done(m, a)  BY <1>0, <1>2, <1>3 DEF DoAddItems, IsLayer
  <2>2. d.act = a /\ d.map = m  BY <2>1, DoneIs
  <2> QED  BY <1>0, <1>1, <1>2, <1>3, <2>2 DEF ItemsAdded
<1>4. CASE k.kind = a.kind
  <2>1. PICK l, n : l = MoreItems(k, a) /\ n = PutLayer(m, a.at, l)  OBVIOUS
  <2>2. /\ d = Done(n, a)
        /\ RefsInBounds(m, ItemRefs(a.kind, a.items)) /\ InsertableAt(k.items, a.index)
        BY <1>0, <1>2, <1>4, <2>1, DoneFields DEF DoAddItems, MoreItems, SetItems, IsLayer
  <2>3. a.items \in Seq(Item(Q))  BY <1>0, <2>2, ItemsFit
  <2>4. k \in Layer(Q)  BY <1>0, <1>1, <1>2, LayerOfMap
  <2>5. k.kind \in {"quad", "sound"}  BY <1>4
  <2>6. k.items \in Seq(Item(Q))  BY <2>4, <2>5, ItemLayerOf
  <2>7. Fits(k.items, a.index, 0)  BY <2>2, <2>6, InsertableFits
  <2>8. l \in Layer(Q)  BY <2>1, <2>3, <2>4, <2>5, <2>7, ItemsBack
  <2>9. LayerPut(Q, a.at, k, l, m, n)  BY <1>0, <1>1, <1>2, <2>1, <2>8 DEF LayerPut
  <2>10. WellFormed(n)  BY <1>0, <2>9, LayerPutWellFormed
  <2>11. ItemsAdded(a, m, n)
         BY <1>0, <1>1, <1>2, <1>4, <2>1, <2>3, <2>7, <2>9 DEF ItemsAdded
  <2> QED  BY <2>2, <2>10, <2>11, DoneIs
<1> QED  BY <1>3, <1>4

LEMMA AddItemsRedone ==
    ASSUME NEW a, NEW m, NEW n, ItemsAdded(a, m, n)
    PROVE  DoAddItems(a, m).ok /\ DoAddItems(a, m).map = n
<1>0. PICK Q, k : Q = InBounds(m.lists) /\ k = LayerAt(m, a.at)  OBVIOUS
<1>1. HasLayer(m, a.at) /\ m \in Map(Q) /\ a.at \in Place  BY <1>0 DEF ItemsAdded
<1>2. DoAddItems(a, m) = Done(n, a)
  <2>1. CASE k.kind # a.kind  BY <1>0, <1>1, <2>1 DEF ItemsAdded, DoAddItems, IsLayer
  <2>2. CASE k.kind = a.kind
    <3>1. /\ a.kind \in {"quad", "sound"} /\ a.items \in Seq(Item(Q)) /\ Fits(k.items, a.index, 0)
          /\ n = PutLayer(m, a.at, MoreItems(k, a))
          BY <1>0, <2>2 DEF ItemsAdded, LayerPut
    <3>2. k \in Layer(Q)  BY <1>0, <1>1, LayerOfMap
    <3>3. k.items \in Seq(Item(Q))  BY <2>2, <3>1, <3>2, ItemLayerOf
    <3>4. InsertableAt(k.items, a.index)  BY <3>1, <3>3, InsertableFits
    <3>5. RefsInBounds(m, ItemRefs(a.kind, a.items))
      <4>1. Q \subseteq Ref  BY <1>0 DEF InBounds
      <4>2. Seq(Item(Q)) \subseteq Seq(Item(Ref))  BY <4>1, ItemSeqsGrow
      <4> QED  BY <1>0, <3>1, <4>2, ItemsFit
    <3> QED  BY <1>0, <1>1, <2>2, <3>1, <3>4, <3>5 DEF DoAddItems, MoreItems, SetItems, IsLayer
  <2> QED  BY <2>1, <2>2
<1> QED  BY <1>2, DoneFields

(***************************************************************************)
(* Quads and sounds, added and removed.                                    *)
(***************************************************************************)
\* The effect of an AddItems or RemItems on the layers.
LEMMA ItemsAddedLayers ==
    ASSUME NEW a, NEW m, NEW n, NEW k, ItemsAdded(a, m, n), k = LayerAt(m, a.at), k.kind = a.kind
    PROVE  LET l == MoreItems(k, a)
               Q == InBounds(m.lists)
           IN  /\ a.kind \in {"quad", "sound"} /\ a.items \in Seq(Item(Q)) /\ k \in Layer(Q)
               /\ Fits(k.items, a.index, 0)
               /\ LayerPut(Q, a.at, k, l, m, n) /\ LayerPut(Q, a.at, l, k, n, m)
               /\ l.kind = a.kind /\ n.lists = m.lists
               /\ Fits(l.items, a.index, Len(a.items))
               /\ Part(l.items, a.index, a.index + Len(a.items) - 1) = a.items
               /\ FewerItems(l, a) = k
<1>1. PICK Q : Q = InBounds(m.lists)  OBVIOUS
<1>2. /\ a.kind \in {"quad", "sound"} /\ a.items \in Seq(Item(Q)) /\ Fits(k.items, a.index, 0)
      /\ LayerPut(Q, a.at, k, MoreItems(k, a), m, n)
      BY <1>1 DEF ItemsAdded
<1>3. LayerPut(Q, a.at, MoreItems(k, a), k, n, m) /\ SameRest(m, n) /\ k \in Layer(Q)
      BY <1>2, LayerPutBack
<1>4. LET l == MoreItems(k, a)
      IN  /\ l.kind = k.kind
          /\ Fits(l.items, a.index, Len(a.items))
          /\ Part(l.items, a.index, a.index + Len(a.items) - 1) = a.items
          /\ FewerItems(l, a) = k
      BY <1>2, <1>3, ItemsBack
<1> QED  BY <1>1, <1>2, <1>3, <1>4 DEF SameRest

RemItemsAction ==
    [op : {"RemItems"}, kind : {"quad", "sound"}, at : Place, index : Index, items : Seq(Item(Ref))]

LEMMA ItemsOut ==
    ASSUME NEW Q, NEW k \in Layer(Q), k.kind \in {"quad", "sound"}, NEW b, NEW i, NEW n,
           Fits(k.items, i, n), b.index = i, b.items = Part(k.items, i, i + n - 1),
           NEW l, l = SetItems(k, Cut(k.items, i, n))
    PROVE  /\ b.items \in Seq(Item(Q)) /\ Fits(l.items, b.index, 0) /\ MoreItems(l, b) = k
           /\ l \in Layer(Q) /\ l.kind = k.kind
<1>1. PICK s \in Seq(Item(Q)) : s = k.items  BY ItemLayerOf
<1>2. PICK u : u = Cut(s, i, n)  OBVIOUS
<1>3. /\ Part(s, i, i + n - 1) \in Seq(Item(Q)) /\ u \in Seq(Item(Q)) /\ Fits(u, i, 0)
      /\ Splice(u, i, Part(s, i, i + n - 1)) = s
      BY <1>1, <1>2, SpliceCut
<1>4. l = SetItems(k, u)  BY <1>1, <1>2
<1>5. l \in Layer(Q) /\ l.items = u /\ l.kind = k.kind /\ SetItems(l, s) = k
      BY <1>1, <1>3, <1>4, ItemLayerOf
<1>6. MoreItems(l, b) = k  BY <1>1, <1>3, <1>5 DEF MoreItems
<1> QED  BY <1>1, <1>3, <1>5, <1>6

LEMMA RemItemsOther ==
    ASSUME NEW a, NEW m, HasLayer(m, a.at), LayerAt(m, a.at).kind # a.kind
    PROVE  DoRemItems(a, m, TRUE) = Done(m, a) /\ DoRemItems(a, m, FALSE) = Done(m, a)
BY DEF DoRemItems, IsLayer

LEMMA RemItemsExact ==
    ASSUME NEW a, NEW m, HasLayer(m, a.at), NEW k, k = LayerAt(m, a.at), k.kind = a.kind,
           NEW n, n = Len(a.items), a.items = Part(k.items, a.index, a.index + n - 1),
           a.index + n - 1 <= Len(k.items)
    PROVE  \E b : DoRemItems(a, m, FALSE) = Done(PutLayer(m, a.at, FewerItems(k, a)), b)
<1>1. PICK t : t = Part(k.items, a.index, a.index + n - 1)  OBVIOUS
<1>2. a.items = t  BY <1>1
<1> QED  BY <1>1, <1>2 DEF DoRemItems, IsLayer, FewerItems, SetItems, Part

LEMMA RemItemsDone ==
    ASSUME NEW a \in RemItemsAction, NEW m, WellFormed(m), NEW d, d = DoRemItems(a, m, TRUE), d.ok
    PROVE  d.act \in RemItemsAction /\ WellFormed(d.map) /\ ItemsAdded(d.act, d.map, m)
<1>0. PICK Q, k, len : Q = InBounds(m.lists) /\ k = LayerAt(m, a.at) /\ len = Len(a.items)
      OBVIOUS
<1>1. m \in Map(Q)  BY <1>0 DEF WellFormed
<1>2. /\ a.at \in Place /\ a.kind \in {"quad", "sound"} /\ a.index \in Index /\ len \in Nat
      BY <1>0, LenProperties DEF RemItemsAction
<1>3. HasLayer(m, a.at)
  <2>1. ~HasLayer(m, a.at) => DoRemItems(a, m, TRUE) = Refused(m, a)  BY DEF DoRemItems, IsLayer
  <2> QED  BY <2>1, DoneFields
<1>4. CASE k.kind # a.kind
  <2>1. d = Done(m, a)  BY <1>0, <1>3, <1>4, RemItemsOther
  <2>2. d.act = a /\ d.map = m  BY <2>1, DoneIs
  <2> QED  BY <1>0, <1>1, <1>2, <1>3, <1>4, <2>2 DEF ItemsAdded
<1>5. CASE k.kind = a.kind
  <2>1. PICK here, b, l, n :
           /\ here = Part(k.items, a.index, a.index + len - 1) /\ b = [a EXCEPT !.items = here]
           /\ l = FewerItems(k, a) /\ n = PutLayer(m, a.at, l)
        OBVIOUS
  <2>2. d = Done(n, b) /\ a.index + len - 1 <= Len(k.items)
    <3>1. a.index + len - 1 <= Len(k.items)
      <4>1. ~(a.index + len - 1 <= Len(k.items)) => d = Refused(m, a)
            BY <1>0, <1>3, <1>5 DEF DoRemItems, IsLayer
      <4> QED  BY <4>1, DoneFields
    <3>2. d = Done(n, b)
          BY <1>0, <1>3, <1>5, <2>1, <3>1 DEF DoRemItems, IsLayer, FewerItems, SetItems, Part
    <3> QED  BY <3>1, <3>2
  <2>3. k \in Layer(Q)  BY <1>0, <1>1, <1>2, <1>3, LayerOfMap
  <2>4. k.kind \in {"quad", "sound"}  BY <1>2, <1>5
  <2>5. k.items \in Seq(Item(Q))  BY <2>3, <2>4, ItemLayerOf
  <2>6. Fits(k.items, b.index, len)
    <3>0. b.index = a.index  BY <2>1 DEF RemItemsAction
    <3>1. Len(k.items) \in Nat  BY <2>5, LenProperties
    <3> QED  BY <1>2, <2>2, <3>0, <3>1 DEF Fits, Index
  <2>7. b.at = a.at /\ b.kind = a.kind /\ b.index = a.index /\ b.items = here
        BY <2>1 DEF RemItemsAction
  <2>8. /\ l = SetItems(k, Cut(k.items, b.index, len))
        /\ b.items = Part(k.items, b.index, b.index + len - 1)
        BY <1>0, <2>1, <2>7 DEF FewerItems
  <2>9. /\ here \in Seq(Item(Q)) /\ Fits(l.items, b.index, 0) /\ MoreItems(l, b) = k
        /\ l \in Layer(Q) /\ l.kind = k.kind
        BY <2>3, <2>4, <2>6, <2>7, <2>8, ItemsOut
  <2>10. LayerPut(Q, a.at, k, l, m, n)
         BY <1>0, <1>1, <1>2, <1>3, <2>1, <2>9 DEF LayerPut
  <2>11. LayerPut(Q, a.at, l, k, n, m)  BY <2>10, LayerPutBack
  <2>12. WellFormed(n) /\ n.lists = m.lists  BY <1>0, <2>10, LayerPutWellFormed
  <2>13. HasLayer(n, a.at) /\ n \in Map(Q) /\ LayerAt(n, a.at) = l  BY <2>11 DEF LayerPut
  <2>14. ItemsAdded(b, n, m)
         BY <1>0, <1>2, <1>5, <2>7, <2>9, <2>11, <2>12, <2>13 DEF ItemsAdded
  <2>15. b \in RemItemsAction
    <3>1. here \in Seq(Item(Ref))
      <4>1. Q \subseteq Ref  BY <1>0 DEF InBounds
      <4> QED  BY <2>9, <4>1, ItemSeqsGrow
    <3> QED  BY <2>1, <3>1 DEF RemItemsAction
  <2>16. d.act = b /\ d.map = n  BY <2>2, DoneIs
  <2> QED  BY <2>12, <2>14, <2>15, <2>16
<1> QED  BY <1>4, <1>5

LEMMA RemItemsRedone ==
    ASSUME NEW a, NEW m, NEW n, ItemsAdded(a, n, m)
    PROVE  DoRemItems(a, m, FALSE).ok /\ DoRemItems(a, m, FALSE).map = n
<1>1. PICK k, l : k = LayerAt(n, a.at) /\ l = LayerAt(m, a.at)  OBVIOUS
<1>2. \E b : DoRemItems(a, m, FALSE) = Done(n, b)
  <2>1. CASE k.kind # a.kind
    <3>1. m = n /\ HasLayer(m, a.at)  BY <1>1, <2>1 DEF ItemsAdded
    <3> QED  BY <1>1, <2>1, <3>1, RemItemsOther
  <2>2. CASE k.kind = a.kind
    <3>1. /\ LayerPut(InBounds(n.lists), a.at, MoreItems(k, a), k, m, n)
          /\ MoreItems(k, a).kind = a.kind
          /\ Fits(MoreItems(k, a).items, a.index, Len(a.items))
          /\ Part(MoreItems(k, a).items, a.index, a.index + Len(a.items) - 1) = a.items
          /\ FewerItems(MoreItems(k, a), a) = k
          BY <1>1, <2>2, ItemsAddedLayers
    <3>2. l = MoreItems(k, a) /\ HasLayer(m, a.at) /\ n = PutLayer(m, a.at, k)
          BY <1>1, <3>1 DEF LayerPut
    <3>3. a.index + Len(a.items) - 1 <= Len(l.items)  BY <3>1, <3>2 DEF Fits
    <3>4. \E b : DoRemItems(a, m, FALSE) = Done(PutLayer(m, a.at, FewerItems(l, a)), b)
          BY <1>1, <3>1, <3>2, <3>3, RemItemsExact
    <3> QED  BY <3>1, <3>2, <3>4
  <2> QED  BY <2>1, <2>2
<1>3. PICK b : DoRemItems(a, m, FALSE) = Done(n, b)  BY <1>2
<1> QED  BY <1>3, DoneFields

\* Adding items and then more among or next to them is adding all at once.
LEMMA ItemsMerged ==
    ASSUME NEW a, NEW b, NEW c, NEW m, NEW n, NEW p,
           ItemsAdded(a, m, n), ItemsAdded(b, n, p), Adjoins(a, b),
           c.at = a.at, c.kind = a.kind, c.index = a.index,
           c.items = Splice(a.items, b.index - a.index + 1, b.items)
    PROVE  ItemsAdded(c, m, p)
<1>1. a.at = b.at /\ a.kind = b.kind /\ b.index \in a.index .. a.index + Len(a.items)
      BY DEF Adjoins
<1>2. PICK Q, k : Q = InBounds(m.lists) /\ k = LayerAt(m, a.at)  OBVIOUS
<1>3. HasLayer(m, a.at) /\ m \in Map(Q) /\ a.at \in Place  BY <1>2 DEF ItemsAdded
<1>4. CASE k.kind # a.kind
  <2>1. n = m  BY <1>2, <1>4 DEF ItemsAdded
  <2>2. p = n  BY <1>1, <1>2, <1>4, <2>1 DEF ItemsAdded
  <2> QED  BY <1>2, <1>3, <1>4, <2>1, <2>2 DEF ItemsAdded
<1>5. CASE k.kind = a.kind
  <2>0. PICK l, h : l = MoreItems(k, a) /\ h = MoreItems(l, b)  OBVIOUS
  <2>1. /\ a.kind \in {"quad", "sound"} /\ a.items \in Seq(Item(Q)) /\ k \in Layer(Q)
        /\ Fits(k.items, a.index, 0)
        /\ LayerPut(Q, a.at, k, l, m, n) /\ LayerPut(Q, a.at, l, k, n, m)
        /\ l.kind = a.kind /\ n.lists = m.lists
        BY <1>2, <1>5, <2>0, ItemsAddedLayers
  <2>2. LayerAt(n, b.at) = l  BY <1>1, <2>1 DEF LayerPut
  <2>3. /\ b.items \in Seq(Item(Q)) /\ LayerPut(Q, a.at, l, h, n, p)
        BY <1>1, <1>2, <2>0, <2>1, <2>2, ItemsAddedLayers
  <2>4. LayerPut(Q, a.at, k, h, m, p)  BY <2>1, <2>3, LayerPutTwice
  <2>5. PICK s, t, v, i, j : /\ s = k.items /\ t = a.items /\ v = b.items
                             /\ i = a.index /\ j = b.index
        OBVIOUS
  <2>6. s \in Seq(Item(Q)) /\ t \in Seq(Item(Q)) /\ v \in Seq(Item(Q))
    <3>1. k.kind \in {"quad", "sound"}  BY <1>5, <2>1
    <3> QED  BY <2>1, <2>3, <2>5, <3>1, ItemLayerOf
  <2>7. /\ Splice(t, j - i + 1, v) \in Seq(Item(Q))
        /\ Splice(Splice(s, i, t), j, v) = Splice(s, i, Splice(t, j - i + 1, v))
        BY <1>1, <2>1, <2>5, <2>6, SpliceSpliced
  <2>8. l.items = Splice(s, i, t) /\ h = SetItems(k, Splice(Splice(s, i, t), j, v))
    <3>1. k.kind \in {"quad", "sound"}  BY <1>5, <2>1
    <3>2. \A x : /\ SetItems(k, x).items = x
                 /\ \A y : SetItems(SetItems(k, x), y) = SetItems(k, y)
          BY <2>1, <3>1, ItemLayerOf
    <3> QED  BY <2>0, <2>5, <3>2 DEF MoreItems
  <2>9. MoreItems(k, c) = h  BY <2>5, <2>7, <2>8 DEF MoreItems
  <2> QED  BY <1>2, <1>3, <1>5, <2>1, <2>4, <2>5, <2>7, <2>9 DEF ItemsAdded
<1> QED  BY <1>4, <1>5

(***************************************************************************)
(* The image of a layer.                                                   *)
(***************************************************************************)
ImageChanged(a, m, n) ==
    LET k == LayerAt(m, a.at)
    IN  /\ k.kind \in {"tile", "quad"} /\ Resource(k) = a.old
        /\ a.new \subseteq InBounds(m.lists) /\ \A r \in a.new : r.list = ResourceList(k)
        /\ LayerPut(InBounds(m.lists), a.at, k, WithResource(k, a.new), m, n)

\* A layer with other references in its attributes.
SetRefs(k, refs) == [k EXCEPT !.attr.ref = refs]

LEMMA OtherRefs ==
    ASSUME NEW Q, NEW k \in Layer(Q), NEW refs \in SUBSET Q, NEW l, l = SetRefs(k, refs)
    PROVE  /\ l \in Layer(Q) /\ l.kind = k.kind /\ l.attr.ref = refs
           /\ \A x : SetRefs(l, x) = SetRefs(k, x)
           /\ SetRefs(l, k.attr.ref) = k
<1> USE DEF SetRefs
<1>1. CASE k \in TileLayer(Q)
  <2>1. PICK A, B : k \in [kind : {"tile"}, name : A, attr : [width : Nat, ref : SUBSET Q], items : B]
        BY <1>1 DEF TileLayer
  <2>2. /\ l.kind = k.kind /\ l.attr.ref = refs
        /\ \A x : SetRefs(l, x) = SetRefs(k, x)
        /\ SetRefs(l, k.attr.ref) = k
        BY <2>1
  <2>3. l \in TileLayer(Q)  BY <1>1 DEF TileLayer
  <2> QED  BY <2>2, <2>3 DEF Layer
<1>2. CASE k \in ItemLayer(Q)
  <2>1. PICK A, B : k \in [kind : {"quad", "sound"}, name : A, attr : [ref : SUBSET Q], items : B]
        BY <1>2 DEF ItemLayer
  <2>2. /\ l.kind = k.kind /\ l.attr.ref = refs
        /\ \A x : SetRefs(l, x) = SetRefs(k, x)
        /\ SetRefs(l, k.attr.ref) = k
        BY <2>1
  <2>3. l \in ItemLayer(Q)  BY <1>2 DEF ItemLayer
  <2> QED  BY <2>2, <2>3 DEF Layer
<1> QED  BY <1>1, <1>2 DEF Layer

LEMMA ResourceChanged ==
    ASSUME NEW Q, NEW k \in Layer(Q), NEW new \in SUBSET Q, \A r \in new : r.list = ResourceList(k),
           NEW l, l = WithResource(k, new)
    PROVE  /\ l \in Layer(Q) /\ l.kind = k.kind /\ Resource(l) = new
           /\ ResourceList(l) = ResourceList(k)
           /\ WithResource(l, Resource(k)) = k
           /\ \A x : WithResource(l, x) = WithResource(k, x)
           /\ Resource(k) \subseteq Q
<1>1. PICK refs, list : refs = k.attr.ref /\ list = ResourceList(k)  OBVIOUS
<1>2. refs \in SUBSET Q
  <2>1. k \in TileLayer(Q) => k.attr.ref \in SUBSET Q  BY DEF TileLayer
  <2>2. k \in ItemLayer(Q) => k.attr.ref \in SUBSET Q  BY DEF ItemLayer
  <2> QED  BY <1>1, <2>1, <2>2 DEF Layer
<1>3. PICK rest : rest = {r \in refs : r.list # list}  OBVIOUS
<1>4. Resource(k) = {r \in refs : r.list = list} /\ refs \ Resource(k) = rest
      BY <1>1, <1>3 DEF Resource
<1>5. ASSUME NEW x PROVE WithResource(k, x) = SetRefs(k, rest \cup x)
      BY <1>1, <1>4 DEF WithResource, SetRefs
<1>6. PICK all : all = rest \cup new  OBVIOUS
<1>7. l = SetRefs(k, all) /\ all \in SUBSET Q  BY <1>2, <1>3, <1>5, <1>6
<1>8. /\ l \in Layer(Q) /\ l.kind = k.kind /\ l.attr.ref = all
      /\ \A x : SetRefs(l, x) = SetRefs(k, x)
      /\ SetRefs(l, k.attr.ref) = k
      BY <1>7, OtherRefs
<1>9. ResourceList(l) = list  BY <1>1, <1>8 DEF ResourceList
<1>10. Resource(l) = new /\ all \ Resource(l) = rest
  <2>1. Resource(l) = {r \in all : r.list = list}  BY <1>8, <1>9 DEF Resource
  <2> QED  BY <1>1, <1>3, <1>6, <2>1
<1>11. ASSUME NEW x PROVE WithResource(l, x) = SetRefs(l, rest \cup x)
       BY <1>8, <1>10 DEF WithResource, SetRefs
<1>12. \A x : WithResource(l, x) = WithResource(k, x)  BY <1>5, <1>8, <1>11
<1>13. WithResource(l, Resource(k)) = k
  <2>1. rest \cup Resource(k) = k.attr.ref  BY <1>1, <1>3, <1>4
  <2>2. WithResource(l, Resource(k)) = SetRefs(l, rest \cup Resource(k))  BY <1>11
  <2> QED  BY <1>8, <2>1, <2>2
<1> QED  BY <1>1, <1>2, <1>4, <1>8, <1>9, <1>10, <1>12, <1>13

LEMMA ImageDone ==
    ASSUME NEW a \in ImageAction, NEW m, WellFormed(m), NEW d, d = DoLayerChangeImage(a, m), d.ok
    PROVE  d.act = a /\ WellFormed(d.map) /\ ImageChanged(a, m, d.map)
<1>1. PICK Q, k, n : Q = InBounds(m.lists) /\ k = LayerAt(m, a.at)
                     /\ n = PutLayer(m, a.at, WithResource(k, a.new))
      OBVIOUS
<1>2. m \in Map(Q)  BY <1>1 DEF WellFormed
<1>3. a.at \in Place /\ a.new \in SUBSET Ref  BY DEF ImageAction
<1>4. /\ d = Done(n, a) /\ IsLayer(m, a.at, {"tile", "quad"}) /\ Resource(k) = a.old
      /\ (\A r \in a.new : r.list = ResourceList(k)) /\ RefsInBounds(m, a.new)
      BY <1>1, DoneFields DEF DoLayerChangeImage
<1>5. HasLayer(m, a.at) /\ k.kind \in {"tile", "quad"}  BY <1>1, <1>4 DEF IsLayer
<1>6. a.new \in SUBSET Q  BY <1>1, <1>3, <1>4, RefSetFits
<1>7. k \in Layer(Q)  BY <1>1, <1>2, <1>3, <1>5, LayerOfMap
<1>8. WithResource(k, a.new) \in Layer(Q)  BY <1>4, <1>6, <1>7, ResourceChanged
<1>9. LayerPut(Q, a.at, k, WithResource(k, a.new), m, n)
      BY <1>1, <1>2, <1>3, <1>5, <1>8 DEF LayerPut
<1>10. WellFormed(n)  BY <1>1, <1>9, LayerPutWellFormed
<1>11. ImageChanged(a, m, n)  BY <1>1, <1>4, <1>5, <1>6, <1>9 DEF ImageChanged
<1>12. d.act = a /\ d.map = n  BY <1>4, DoneIs
<1> QED  BY <1>10, <1>11, <1>12

LEMMA ImageRedone ==
    ASSUME NEW a, NEW m, NEW n, ImageChanged(a, m, n)
    PROVE  DoLayerChangeImage(a, m).ok /\ DoLayerChangeImage(a, m).map = n
<1>1. PICK k : k = LayerAt(m, a.at)  OBVIOUS
<1>2. /\ k.kind \in {"tile", "quad"} /\ Resource(k) = a.old
      /\ a.new \subseteq InBounds(m.lists) /\ \A r \in a.new : r.list = ResourceList(k)
      /\ HasLayer(m, a.at) /\ n = PutLayer(m, a.at, WithResource(k, a.new))
      BY <1>1 DEF ImageChanged, LayerPut
<1>3. RefsInBounds(m, a.new)  BY <1>2 DEF RefsInBounds, InBounds
<1>4. DoLayerChangeImage(a, m) = Done(n, a)
      BY <1>1, <1>2, <1>3 DEF DoLayerChangeImage, IsLayer
<1> QED  BY <1>4, DoneFields

LEMMA ImageBack ==
    ASSUME NEW a, NEW b, NEW m, NEW n, ImageChanged(a, m, n),
           b.at = a.at, b.old = a.new, b.new = a.old
    PROVE  ImageChanged(b, n, m)
<1>1. PICK Q, k, l : Q = InBounds(m.lists) /\ k = LayerAt(m, a.at) /\ l = WithResource(k, a.new)
      OBVIOUS
<1>2. /\ k.kind \in {"tile", "quad"} /\ Resource(k) = a.old
      /\ a.new \subseteq Q /\ \A r \in a.new : r.list = ResourceList(k)
      /\ LayerPut(Q, a.at, k, l, m, n)
      BY <1>1 DEF ImageChanged
<1>3. LayerPut(Q, a.at, l, k, n, m) /\ SameRest(m, n) /\ k \in Layer(Q)  BY <1>2, LayerPutBack
<1>4. /\ l.kind = k.kind /\ Resource(l) = a.new /\ ResourceList(l) = ResourceList(k)
      /\ WithResource(l, Resource(k)) = k /\ Resource(k) \subseteq Q
      BY <1>1, <1>2, <1>3, ResourceChanged
<1>5. \A r \in Resource(k) : r.list = ResourceList(k)  BY DEF Resource
<1>6. LayerAt(n, b.at) = l /\ InBounds(n.lists) = Q  BY <1>1, <1>3 DEF LayerPut, SameRest
<1> QED  BY <1>2, <1>3, <1>4, <1>5, <1>6 DEF ImageChanged

LEMMA ImageMerged ==
    ASSUME NEW a, NEW b, NEW c, NEW m, NEW n, NEW p, ImageChanged(a, m, n), ImageChanged(b, n, p),
           b.at = a.at, c.at = a.at, c.old = a.old, c.new = b.new
    PROVE  ImageChanged(c, m, p)
<1>1. PICK Q, k, l, h : /\ Q = InBounds(m.lists) /\ k = LayerAt(m, a.at)
                        /\ l = WithResource(k, a.new) /\ h = WithResource(l, b.new)
      OBVIOUS
<1>2. /\ k.kind \in {"tile", "quad"} /\ Resource(k) = a.old
      /\ a.new \subseteq Q /\ \A r \in a.new : r.list = ResourceList(k)
      /\ LayerPut(Q, a.at, k, l, m, n)
      BY <1>1 DEF ImageChanged
<1>3. LayerPut(Q, a.at, l, k, n, m) /\ SameRest(m, n) /\ k \in Layer(Q)  BY <1>2, LayerPutBack
<1>4. ResourceList(l) = ResourceList(k) /\ \A x : WithResource(l, x) = WithResource(k, x)
      BY <1>1, <1>2, <1>3, ResourceChanged
<1>5. LayerAt(n, b.at) = l /\ InBounds(n.lists) = Q  BY <1>1, <1>3 DEF LayerPut, SameRest
<1>6. /\ b.new \subseteq Q /\ \A r \in b.new : r.list = ResourceList(k)
      /\ LayerPut(Q, a.at, l, h, n, p)
      BY <1>1, <1>4, <1>5 DEF ImageChanged
<1>7. LayerPut(Q, a.at, k, h, m, p) /\ h = WithResource(k, c.new)
      BY <1>1, <1>2, <1>4, <1>6, LayerPutTwice
<1> QED  BY <1>1, <1>2, <1>6, <1>7 DEF ImageChanged

(***************************************************************************)
(* An inserted element, element by element.                                *)
(***************************************************************************)
LEMMA InsertProperties ==
    ASSUME NEW S, NEW s \in Seq(S), NEW i \in 1 .. Len(s) + 1, NEW e \in S
    PROVE  /\ InsertAt(s, i, e) \in Seq(S)
           /\ Len(InsertAt(s, i, e)) = Len(s) + 1
           /\ \A j \in 1 .. Len(s) + 1 :
                InsertAt(s, i, e)[j] = IF j < i THEN s[j] ELSE IF j = i THEN e ELSE s[j - 1]
<1> DEFINE a == SubSeq(s, 1, i - 1)
           c == SubSeq(s, i, Len(s))
<1>0. Len(s) \in Nat /\ \A j \in 1 .. Len(s) : s[j] \in S  BY LenProperties, ElementOfSeq
<1>1. /\ a \in Seq(S) /\ Len(a) = i - 1
      /\ \A j \in 1 .. i - 1 : a[j] = s[j]
  <2>1. \A j \in 1 .. i - 1 : s[j] \in S  BY <1>0
  <2> QED  BY <1>0, <2>1, SubSeqProperties
<1>2. /\ c \in Seq(S) /\ Len(c) = Len(s) - i + 1
      /\ \A j \in 1 .. Len(s) - i + 1 : c[j] = s[i + j - 1]
  <2>1. \A j \in i .. Len(s) : s[j] \in S  BY <1>0
  <2> QED  BY <1>0, <2>1, SubSeqProperties
<1>3. <<e>> \in Seq(S) /\ Len(<<e>>) = 1 /\ <<e>>[1] = e  OBVIOUS
<1>4. InsertAt(s, i, e) = a \o <<e>> \o c  BY DEF InsertAt
<1> HIDE DEF a, c
<1> DEFINE b == a \o <<e>>
<1>5. /\ b \in Seq(S) /\ Len(b) = i
      /\ \A j \in 1 .. i : b[j] = IF j < i THEN s[j] ELSE e
      BY <1>0, <1>1, <1>3, ConcatProperties
<1> HIDE DEF b
<1>6. b \o c \in Seq(S) /\ Len(b \o c) = Len(s) + 1
      /\ \A j \in 1 .. Len(s) + 1 : (b \o c)[j] = IF j <= i THEN b[j] ELSE c[j - i]
  <2>1. /\ b \o c \in Seq(S) /\ Len(b \o c) = Len(b) + Len(c)
        /\ \A j \in 1 .. Len(b) + Len(c) : (b \o c)[j] = IF j <= Len(b) THEN b[j] ELSE c[j - Len(b)]
        BY <1>2, <1>5, ConcatProperties
  <2>2. Len(b) = i /\ Len(b) + Len(c) = Len(s) + 1  BY <1>0, <1>2, <1>5
  <2> QED  BY <2>1, <2>2
<1>7. \A j \in 1 .. Len(s) + 1 :
        (b \o c)[j] = IF j < i THEN s[j] ELSE IF j = i THEN e ELSE s[j - 1]
  <2> TAKE j \in 1 .. Len(s) + 1
  <2>1. CASE j <= i  BY <1>0, <1>5, <1>6, <2>1
  <2>2. CASE j > i
    <3>1. j - i \in 1 .. Len(s) - i + 1  BY <1>0, <2>2
    <3>2. c[j - i] = s[i + (j - i) - 1]  BY <1>2, <3>1
    <3> QED  BY <1>0, <1>6, <2>2, <3>2
  <2>3. j <= i \/ j > i  BY <1>0
  <2> QED  BY <2>1, <2>2, <2>3
<1> QED  BY <1>4, <1>6, <1>7 DEF b

\* Where the element at h is when one was inserted at i.
Shift(i, h) == IF h < i THEN h ELSE h + 1

LEMMA InsertShifts ==
    ASSUME NEW S, NEW s \in Seq(S), NEW i, Fits(s, i, 0), NEW e \in S, NEW t, t = InsertAt(s, i, e)
    PROVE  /\ t \in Seq(S) /\ i \in DOMAIN t /\ t[i] = e
           /\ \A h \in DOMAIN s : Shift(i, h) \in DOMAIN t /\ Shift(i, h) # i /\ t[Shift(i, h)] = s[h]
           /\ \A j \in DOMAIN t : j = i \/ \E h \in DOMAIN s : j = Shift(i, h)
           /\ \A g, h \in DOMAIN s : Shift(i, g) = Shift(i, h) => g = h
<1>0. i \in 1 .. Len(s) + 1 /\ Len(s) \in Nat /\ DOMAIN s = 1 .. Len(s)  BY LenProperties DEF Fits
<1>1. /\ t \in Seq(S) /\ Len(t) = Len(s) + 1
      /\ \A j \in 1 .. Len(s) + 1 : t[j] = IF j < i THEN s[j] ELSE IF j = i THEN e ELSE s[j - 1]
  <2>1. \A f \in S :
           /\ InsertAt(s, i, f) \in Seq(S) /\ Len(InsertAt(s, i, f)) = Len(s) + 1
           /\ \A j \in 1 .. Len(s) + 1 : InsertAt(s, i, f)[j] =
                IF j < i THEN s[j] ELSE IF j = i THEN f ELSE s[j - 1]
        BY <1>0, InsertProperties
  <2> QED  BY <2>1
<1>2. DOMAIN t = 1 .. Len(s) + 1  BY <1>1, LenProperties
<1>3. i \in DOMAIN t /\ t[i] = e  BY <1>0, <1>1, <1>2
<1>4. ASSUME NEW h \in DOMAIN s
      PROVE  Shift(i, h) \in DOMAIN t /\ Shift(i, h) # i /\ t[Shift(i, h)] = s[h]
  <2>1. CASE h < i  BY <1>0, <1>1, <1>2, <2>1 DEF Shift
  <2>2. CASE ~(h < i)
    <3>1. Shift(i, h) = h + 1 /\ h + 1 \in 1 .. Len(s) + 1 /\ ~(h + 1 < i) /\ h + 1 # i
          BY <1>0, <2>2 DEF Shift
    <3>2. t[h + 1] = s[(h + 1) - 1]  BY <1>1, <3>1
    <3>3. (h + 1) - 1 = h  BY <1>0
    <3> QED  BY <1>2, <3>1, <3>2, <3>3
  <2> QED  BY <2>1, <2>2
<1>5. ASSUME NEW j \in DOMAIN t, j # i PROVE \E h \in DOMAIN s : j = Shift(i, h)
  <2>1. CASE j < i  BY <1>0, <1>2, <2>1 DEF Shift
  <2>2. CASE ~(j < i)
    <3>1. j - 1 \in DOMAIN s /\ ~(j - 1 < i) /\ (j - 1) + 1 = j  BY <1>0, <1>2, <1>5, <2>2
    <3> QED  BY <3>1 DEF Shift
  <2> QED  BY <2>1, <2>2
<1>6. \A g, h \in DOMAIN s : Shift(i, g) = Shift(i, h) => g = h  BY <1>0 DEF Shift
<1> QED  BY <1>1, <1>3, <1>4, <1>5, <1>6

Once(s) == \A i, j \in DOMAIN s : s[i] = s[j] => i = j

LEMMA InsertOnce ==
    ASSUME NEW S, NEW s \in Seq(S), NEW i, Fits(s, i, 0), NEW e \in S
    PROVE  Once(InsertAt(s, i, e)) <=> Once(s) /\ e \notin Range(s)
<1>0. PICK t : t = InsertAt(s, i, e)  OBVIOUS
<1>1. /\ t \in Seq(S) /\ i \in DOMAIN t /\ t[i] = e
      /\ \A h \in DOMAIN s : Shift(i, h) \in DOMAIN t /\ Shift(i, h) # i /\ t[Shift(i, h)] = s[h]
      /\ \A j \in DOMAIN t : j = i \/ \E h \in DOMAIN s : j = Shift(i, h)
      /\ \A g, h \in DOMAIN s : Shift(i, g) = Shift(i, h) => g = h
      BY <1>0, InsertShifts
<1>2. ASSUME Once(t) PROVE Once(s) /\ e \notin Range(s)
  <2>1. Once(s)  BY <1>1, <1>2 DEF Once
  <2>2. \A h \in DOMAIN s : s[h] # e  BY <1>1, <1>2 DEF Once
  <2> QED  BY <2>1, <2>2 DEF Range
<1>3. ASSUME Once(s), e \notin Range(s) PROVE Once(t)
  <2>1. \A h \in DOMAIN s : s[h] # e  BY <1>3 DEF Range
  <2>2. SUFFICES ASSUME NEW j \in DOMAIN t, NEW k \in DOMAIN t, t[j] = t[k] PROVE j = k
        BY DEF Once
  <2>3. CASE j = i \/ k = i  BY <1>1, <2>1, <2>2, <2>3
  <2>4. CASE j # i /\ k # i
    <3>1. PICK g \in DOMAIN s, h \in DOMAIN s : j = Shift(i, g) /\ k = Shift(i, h)
          BY <1>1, <2>4
    <3>2. s[g] = s[h]  BY <1>1, <2>2, <3>1
    <3>3. g = h  BY <1>3, <3>2 DEF Once
    <3> QED  BY <3>1, <3>3
  <2> QED  BY <2>3, <2>4
<1> QED  BY <1>0, <1>2, <1>3

(***************************************************************************)
(* All references of a map.                                                *)
(***************************************************************************)
LEMMA ItemRefsFit ==
    ASSUME NEW Q \in SUBSET Ref, NEW kind \in {"quad", "sound"}, NEW items \in Seq(Item(Ref))
    PROVE  ItemRefs(kind, items) \subseteq Q <=> items \in Seq(Item(Q))
<1>1. Len(items) \in Nat /\ DOMAIN items = 1 .. Len(items) /\ items \in [1 .. Len(items) -> Item(Ref)]
      BY LenProperties
<1>2. ItemRefs(kind, items) = UNION {items[i].ref : i \in DOMAIN items}  BY DEF ItemRefs
<1>3. ItemRefs(kind, items) \subseteq Q <=> \A i \in DOMAIN items : items[i].ref \subseteq Q
      BY <1>2
<1>4. ASSUME NEW i \in DOMAIN items PROVE items[i].ref \subseteq Q <=> items[i] \in Item(Q)
      BY <1>1 DEF Item
<1>5. (\A i \in DOMAIN items : items[i] \in Item(Q)) <=> items \in Seq(Item(Q))
  <2>1. ASSUME \A i \in DOMAIN items : items[i] \in Item(Q) PROVE items \in Seq(Item(Q))
        BY <1>1, <2>1
  <2>2. ASSUME items \in Seq(Item(Q)) PROVE \A i \in DOMAIN items : items[i] \in Item(Q)
        BY <1>1, <2>2, ElementOfSeq
  <2> QED  BY <2>1, <2>2
<1> QED  BY <1>3, <1>4, <1>5

LEMMA LayerRefsFit ==
    ASSUME NEW Q \in SUBSET Ref, NEW l \in Layer(Ref)
    PROVE  LayerRefs(l) \subseteq Q <=> l \in Layer(Q)
<1>1. LayerRefs(l) \subseteq Q <=> l.attr.ref \subseteq Q /\ ItemRefs(l.kind, l.items) \subseteq Q
      BY DEF LayerRefs
<1>2. CASE l \in TileLayer(Ref)
  <2>1. l.kind = "tile" /\ l.attr.ref \in SUBSET Ref  BY <1>2 DEF TileLayer
  <2>2. ItemRefs(l.kind, l.items) = {}  BY <2>1 DEF ItemRefs
  <2>3. l.attr.ref \subseteq Q <=> l \in TileLayer(Q)  BY <1>2 DEF TileLayer
  <2>4. l \notin ItemLayer(Q)  BY <2>1 DEF ItemLayer
  <2> QED  BY <1>1, <2>2, <2>3, <2>4 DEF Layer
<1>3. CASE l \in ItemLayer(Ref)
  <2>1. l.kind \in {"quad", "sound"} /\ l.attr.ref \in SUBSET Ref /\ l.items \in Seq(Item(Ref))
        BY <1>3 DEF ItemLayer
  <2>2. LayerRefs(l) \subseteq Q <=> l.attr.ref \subseteq Q /\ l.items \in Seq(Item(Q))
        BY <1>1, <2>1, ItemRefsFit
  <2>3. l.attr.ref \subseteq Q /\ l.items \in Seq(Item(Q)) <=> l \in ItemLayer(Q)
        BY <1>3 DEF ItemLayer
  <2>4. l \notin TileLayer(Q)  BY <2>1 DEF TileLayer
  <2> QED  BY <2>2, <2>3, <2>4 DEF Layer
<1> QED  BY <1>2, <1>3 DEF Layer

LEMMA GroupRefsFit ==
    ASSUME NEW Q \in SUBSET Ref, NEW g \in Group(Ref)
    PROVE  (\A l \in Range(g.layers) : LayerRefs(l) \subseteq Q) <=> g \in Group(Q)
<1>1. g.layers \in Seq(Layer(Ref))  BY DEF Group
<1>2. PICK ls \in Seq(Layer(Ref)) : ls = g.layers  BY <1>1
<1>3. Len(ls) \in Nat /\ DOMAIN ls = 1 .. Len(ls) /\ ls \in [1 .. Len(ls) -> Layer(Ref)]
      BY <1>2, LenProperties
<1>4. ASSUME NEW i \in DOMAIN ls PROVE LayerRefs(ls[i]) \subseteq Q <=> ls[i] \in Layer(Q)
      BY <1>3, LayerRefsFit
<1>5. (\A i \in DOMAIN ls : ls[i] \in Layer(Q)) <=> ls \in Seq(Layer(Q))
  <2>1. ASSUME \A i \in DOMAIN ls : ls[i] \in Layer(Q) PROVE ls \in Seq(Layer(Q))
        BY <1>3, <2>1
  <2>2. ASSUME ls \in Seq(Layer(Q)) PROVE \A i \in DOMAIN ls : ls[i] \in Layer(Q)
        BY <1>3, <2>2, ElementOfSeq
  <2> QED  BY <2>1, <2>2
<1>6. (\A l \in Range(ls) : LayerRefs(l) \subseteq Q) <=> ls \in Seq(Layer(Q))
      BY <1>4, <1>5 DEF Range
<1>7. ls \in Seq(Layer(Q)) <=> g \in Group(Q)  BY <1>2 DEF Group
<1> QED  BY <1>2, <1>6, <1>7

LEMMA SideRefsFit ==
    ASSUME NEW Q \in SUBSET Ref, NEW gs \in Seq(Group(Ref))
    PROVE  (\A i \in DOMAIN gs : \A l \in Range(gs[i].layers) : LayerRefs(l) \subseteq Q)
             <=> gs \in Seq(Group(Q))
<1>1. Len(gs) \in Nat /\ DOMAIN gs = 1 .. Len(gs) /\ gs \in [1 .. Len(gs) -> Group(Ref)]
      BY LenProperties
<1>2. ASSUME NEW i \in DOMAIN gs
      PROVE  (\A l \in Range(gs[i].layers) : LayerRefs(l) \subseteq Q) <=> gs[i] \in Group(Q)
      BY <1>1, GroupRefsFit
<1>3. (\A i \in DOMAIN gs : gs[i] \in Group(Q)) <=> gs \in Seq(Group(Q))
  <2>1. ASSUME \A i \in DOMAIN gs : gs[i] \in Group(Q) PROVE gs \in Seq(Group(Q))
        BY <1>1, <2>1
  <2>2. ASSUME gs \in Seq(Group(Q)) PROVE \A i \in DOMAIN gs : gs[i] \in Group(Q)
        BY <1>1, <2>2, ElementOfSeq
  <2> QED  BY <2>1, <2>2
<1> QED  BY <1>2, <1>3

LEMMA RangeOfTwo ==
    ASSUME NEW S, NEW s \in Seq(S), NEW t \in Seq(S)
    PROVE  Range(s \o t) = Range(s) \cup Range(t)
<1>1. Len(s) \in Nat /\ Len(t) \in Nat /\ DOMAIN s = 1 .. Len(s) /\ DOMAIN t = 1 .. Len(t)
      BY LenProperties
<1>2. PICK u : u = s \o t  OBVIOUS
<1>3. u \in Seq(S) /\ Len(u) = Len(s) + Len(t)
      /\ \A i \in 1 .. Len(s) + Len(t) : u[i] = IF i <= Len(s) THEN s[i] ELSE t[i - Len(s)]
      BY <1>2, ConcatProperties
<1>4. DOMAIN u = 1 .. Len(s) + Len(t)  BY <1>3, LenProperties
<1>5. \A i \in DOMAIN s : i \in DOMAIN u /\ u[i] = s[i]  BY <1>1, <1>3, <1>4
<1>6. ASSUME NEW i \in DOMAIN t PROVE \E k \in DOMAIN u : u[k] = t[i]
  <2>1. /\ Len(s) + i \in 1 .. Len(s) + Len(t) /\ ~(Len(s) + i <= Len(s))
        /\ (Len(s) + i) - Len(s) = i
        BY <1>1
  <2>2. u[Len(s) + i] = t[(Len(s) + i) - Len(s)]  BY <1>3, <2>1
  <2> QED  BY <1>4, <2>1, <2>2
<1>7. ASSUME NEW k \in DOMAIN u
      PROVE  (\E i \in DOMAIN s : u[k] = s[i]) \/ (\E i \in DOMAIN t : u[k] = t[i])
  <2>1. CASE k <= Len(s)  BY <1>1, <1>3, <1>4, <2>1
  <2>2. CASE ~(k <= Len(s))
    <3>1. k - Len(s) \in DOMAIN t  BY <1>1, <1>4, <2>2
    <3>2. u[k] = t[k - Len(s)]  BY <1>3, <1>4, <2>2
    <3> QED  BY <3>1, <3>2
  <2> QED  BY <2>1, <2>2
<1>8. Range(u) = Range(s) \cup Range(t)  BY <1>5, <1>6, <1>7 DEF Range
<1> QED  BY <1>2, <1>8

\* A map refers to no more than Q allows when it has the type with Q.
LEMMA MapFits ==
    ASSUME NEW Q \in SUBSET Ref, NEW m \in Map(Ref)
    PROVE  MapRefs(m) \subseteq Q <=> m \in Map(Q)
<1>1. PICK b, f : b = m.groups["background"] /\ f = m.groups["foreground"]  OBVIOUS
<1>2. b \in Seq(Group(Ref)) /\ f \in Seq(Group(Ref))  BY <1>1 DEF Map, Side
<1>3. Range(b \o f) = Range(b) \cup Range(f)  BY <1>2, RangeOfTwo
<1>4. MapRefs(m) = UNION {UNION {LayerRefs(l) : l \in Range(g.layers)} : g \in Range(b) \cup Range(f)}
      BY <1>1, <1>3 DEF MapRefs
<1>5. MapRefs(m) \subseteq Q <=>
        \A g \in Range(b) \cup Range(f) : \A l \in Range(g.layers) : LayerRefs(l) \subseteq Q
  <2>1. PICK G : G = Range(b) \cup Range(f)  OBVIOUS
  <2>2. MapRefs(m) = UNION {UNION {LayerRefs(l) : l \in Range(g.layers)} : g \in G}
        BY <1>4, <2>1
  <2>3. (\A g \in G : \A l \in Range(g.layers) : LayerRefs(l) \subseteq Q) => MapRefs(m) \subseteq Q
        BY <2>2
  <2>4. ASSUME MapRefs(m) \subseteq Q, NEW g \in G, NEW l \in Range(g.layers)
        PROVE  LayerRefs(l) \subseteq Q
    <3>1. LayerRefs(l) \subseteq UNION {LayerRefs(k) : k \in Range(g.layers)}  OBVIOUS
    <3> QED  BY <2>2, <2>4, <3>1
  <2> QED  BY <2>1, <2>3, <2>4
<1>6. (\A g \in Range(b) \cup Range(f) : \A l \in Range(g.layers) : LayerRefs(l) \subseteq Q) <=>
        /\ \A i \in DOMAIN b : \A l \in Range(b[i].layers) : LayerRefs(l) \subseteq Q
        /\ \A i \in DOMAIN f : \A l \in Range(f[i].layers) : LayerRefs(l) \subseteq Q
      BY DEF Range
<1>7. MapRefs(m) \subseteq Q <=> b \in Seq(Group(Q)) /\ f \in Seq(Group(Q))
      BY <1>2, <1>5, <1>6, SideRefsFit
<1>8. m \in Map(Q) <=> b \in Seq(Group(Q)) /\ f \in Seq(Group(Q))
  <2>1. m.groups \in [Side -> Seq(Group(Q))] <=> b \in Seq(Group(Q)) /\ f \in Seq(Group(Q))
    <3>1. m.groups \in [Side -> Seq(Group(Ref))]  BY DEF Map
    <3> QED  BY <1>1, <3>1 DEF Side
  <2>2. m \in Map(Q) <=> m.groups \in [Side -> Seq(Group(Q))]  BY DEF Map
  <2> QED  BY <2>1, <2>2
<1> QED  BY <1>7, <1>8

(***************************************************************************)
(* The lists of files and animations.                                      *)
(***************************************************************************)
ListName == File \cup Animation
SetList(m, list, s) == [m EXCEPT !.lists[list] = s]

LEMMA SetListLaws ==
    ASSUME NEW Q, NEW m \in Map(Q), NEW list \in ListName, NEW s \in Seq(Value)
    PROVE  LET n == SetList(m, list, s)
           IN  /\ n \in Map(Q) /\ n.physics = m.physics
               /\ n.lists[list] = s /\ \A f \in ListName : f # list => n.lists[f] = m.lists[f]
               /\ m.lists[list] \in Seq(Value)
               /\ SetList(n, list, m.lists[list]) = m
               /\ MapRefs(n) = MapRefs(m)
<1>1. PICK ll : ll = [m.lists EXCEPT ![list] = s]  OBVIOUS
<1>2. PICK A, B, D, C : /\ m \in [groups : A, physics : B, lists : [ListName -> C], config : D]
                        /\ C = Seq(Value)
      BY DEF Map, ListName
<1>3. PICK n : n = [groups |-> m.groups, physics |-> m.physics, lists |-> ll, config |-> m.config]
      OBVIOUS
<1>4. n = SetList(m, list, s)
  <2>1. SetList(m, list, s) = [m EXCEPT !.lists = ll]  BY <1>1 DEF SetList
  <2>2. [m EXCEPT !.lists = ll] = n
    <3>1. PICK E : m \in [groups : A, physics : B, lists : E, config : D]  BY <1>2
    <3> QED  BY <1>3, <3>1
  <2> QED  BY <2>1, <2>2
<1>5. m.lists \in [ListName -> C] /\ ll \in [ListName -> C]  BY <1>1, <1>2
<1>6. n \in Map(Q)  BY <1>2, <1>3, <1>5, MapParts DEF Map, ListName
<1>7. ll[list] = s /\ \A f \in ListName : f # list => ll[f] = m.lists[f]  BY <1>1, <1>5
<1>8. [ll EXCEPT ![list] = m.lists[list]] = m.lists  BY <1>1, <1>5
<1>9. SetList(n, list, m.lists[list]) =
         [groups |-> m.groups, physics |-> m.physics, lists |-> m.lists, config |-> m.config]
      BY <1>3, <1>8 DEF SetList
<1>10. SetList(n, list, m.lists[list]) = m  BY <1>9, MapParts
<1>11. MapRefs(n) = MapRefs(m)  BY <1>3 DEF MapRefs
<1> QED  BY <1>2, <1>3, <1>4, <1>5, <1>6, <1>7, <1>10, <1>11

ListAdded(a, m, n) ==
    /\ m \in Map(InBounds(m.lists)) /\ a.list \in ListName /\ a.value \in Value
    /\ Fits(m.lists[a.list], a.index, 0)
    /\ a.list \in File => a.value \notin Range(m.lists[a.list])
    /\ n = SetList(m, a.list, InsertAt(m.lists[a.list], a.index, a.value))

LEMMA InBoundsOf ==
    ASSUME NEW m \in Map(Ref)
    PROVE  /\ m \in Map(InBounds(m.lists)) <=> MapRefs(m) \subseteq InBounds(m.lists)
           /\ MapRefs(m) \subseteq Ref
<1>1. InBounds(m.lists) \in SUBSET Ref /\ Ref \in SUBSET Ref  BY DEF InBounds
<1> QED  BY <1>1, MapFits

LEMMA MapsGrow ==
    ASSUME NEW P, NEW Q, P \subseteq Q
    PROVE  Map(P) \subseteq Map(Q)
<1>1. Group(P) \subseteq Group(Q)  BY TypesGrow
<1>2. PICK G, H : G = Group(P) /\ H = Group(Q)  OBVIOUS
<1>3. Seq(G) \subseteq Seq(H)
  <2> SUFFICES ASSUME NEW s \in Seq(G) PROVE s \in Seq(H)  OBVIOUS
  <2>1. Len(s) \in Nat /\ s \in [1 .. Len(s) -> G]  BY LenProperties
  <2> QED  BY <1>1, <1>2, <2>1
<1> QED  BY <1>2, <1>3 DEF Map

LEMMA ListAddedOut ==
    ASSUME NEW a, NEW m, NEW n, ListAdded(a, m, n)
    PROVE  /\ n \in Map(InBounds(n.lists)) /\ n.physics = m.physics
           /\ a.index \in DOMAIN n.lists[a.list] /\ n.lists[a.list][a.index] = a.value
           /\ m = SetList(n, a.list, RemoveAt(n.lists[a.list], a.index))
           /\ Spare(n, a.list)
           /\ FilesOnce(m.lists) => FilesOnce(n.lists)
<1>1. PICK Q, list, i, e : Q = InBounds(m.lists) /\ list = a.list /\ i = a.index /\ e = a.value
      OBVIOUS
<1>2. /\ m \in Map(Q) /\ list \in ListName /\ e \in Value
      /\ list \in File => e \notin Range(m.lists[list])
      BY <1>1 DEF ListAdded
<1>3. PICK s \in Seq(Value) : s = m.lists[list]  BY <1>2 DEF Map, ListName
<1>4. PICK t : t = InsertAt(s, i, e)  OBVIOUS
<1>5. Fits(s, i, 0) /\ n = SetList(m, list, t)  BY <1>1, <1>3, <1>4 DEF ListAdded
<1>6. /\ t \in Seq(Value) /\ Len(t) = Len(s) + 1 /\ i \in DOMAIN t /\ t[i] = e
      /\ RemoveAt(t, i) = s
      BY <1>2, <1>4, <1>5, RemoveInserted
<1>7. /\ n \in Map(Q) /\ n.physics = m.physics
      /\ n.lists[list] = t /\ \A f \in ListName : f # list => n.lists[f] = m.lists[f]
      /\ SetList(n, list, s) = m
      /\ MapRefs(n) = MapRefs(m)
      BY <1>2, <1>3, <1>5, <1>6, SetListLaws
<1>8. Len(s) \in Nat /\ Len(t) \in Nat  BY <1>6, LenProperties
<1>9. \A f \in ListName : m.lists[f] \in Seq(Value) /\ n.lists[f] \in Seq(Value)
      BY <1>2, <1>7 DEF Map, ListName
<1>10. \A r \in Q : r \in Ref /\ r.index \in Nat /\ r.list \in ListName /\ r.index <= Len(m.lists[r.list])
       BY <1>1 DEF InBounds, Ref, Index, ListName
<1>11. Q \subseteq InBounds(n.lists)
  <2> SUFFICES ASSUME NEW r \in Q PROVE r \in Ref /\ r.index <= Len(n.lists[r.list])
      BY DEF InBounds
  <2>1. CASE r.list = list  BY <1>3, <1>6, <1>7, <1>8, <1>10, <2>1
  <2>2. CASE r.list # list  BY <1>7, <1>10, <2>2
  <2> QED  BY <1>10, <2>1, <2>2
<1>12. n \in Map(InBounds(n.lists))  BY <1>7, <1>11, MapsGrow
<1>13. Spare(n, list)
  <2>1. m \in Map(Ref)
    <3>1. Q \subseteq Ref  BY <1>10
    <3> QED  BY <1>2, <3>1, MapsGrow
  <2>2. MapRefs(n) \subseteq Q  BY <1>1, <1>2, <1>7, <2>1, InBoundsOf
  <2>3. ASSUME NEW r \in Q, r.list = list PROVE r.index <= Len(n.lists[list]) - 1
        BY <1>3, <1>6, <1>7, <1>8, <1>10, <2>3
  <2> QED  BY <2>2, <2>3 DEF Spare
<1>14. ASSUME FilesOnce(m.lists) PROVE FilesOnce(n.lists)
  <2> SUFFICES ASSUME NEW f \in File PROVE Once(n.lists[f])
      BY DEF FilesOnce, Once
  <2>1. Once(m.lists[f]) /\ f \in ListName  BY <1>14 DEF FilesOnce, Once, ListName
  <2>2. CASE f = list
    <3>1. Once(s) /\ e \notin Range(s)  BY <1>2, <1>3, <2>1, <2>2
    <3>2. Once(InsertAt(s, i, e))  BY <1>2, <1>5, <3>1, InsertOnce
    <3> QED  BY <1>4, <1>7, <2>2, <3>2
  <2>3. CASE f # list  BY <1>7, <2>1, <2>3
  <2> QED  BY <2>2, <2>3
<1> QED  BY <1>1, <1>6, <1>7, <1>12, <1>13, <1>14

LEMMA ListOut ==
    ASSUME NEW b, NEW m, WellFormed(m), NEW list \in ListName, NEW i \in DOMAIN m.lists[list],
           Spare(m, list), b.list = list, b.index = i, b.value = m.lists[list][i],
           NEW n, n = SetList(m, list, RemoveAt(m.lists[list], i))
    PROVE  ListAdded(b, n, m) /\ WellFormed(n) /\ b.value \in Value
<1>1. PICK Q : Q = InBounds(m.lists)  OBVIOUS
<1>2. m \in Map(Q) /\ FilesOnce(m.lists) /\ PhysicsFits(m.physics)  BY <1>1 DEF WellFormed
<1>3. PICK s \in Seq(Value) : s = m.lists[list]  BY <1>2 DEF Map, ListName
<1>4. PICK t : t = RemoveAt(s, i)  OBVIOUS
<1>5. PICK e : e = s[i]  OBVIOUS
<1>6. e \in Value /\ t \in Seq(Value) /\ Len(t) = Len(s) - 1 /\ Fits(t, i, 0) /\ InsertAt(t, i, e) = s
      BY <1>3, <1>4, <1>5, InsertRemoved
<1>7. /\ n \in Map(Q) /\ n.physics = m.physics
      /\ n.lists[list] = t /\ \A f \in ListName : f # list => n.lists[f] = m.lists[f]
      /\ SetList(n, list, s) = m
      /\ MapRefs(n) = MapRefs(m)
      BY <1>2, <1>3, <1>4, <1>6, SetListLaws
<1>8. \A r \in Q : r \in Ref /\ r.index \in Nat /\ r.list \in ListName /\ r.index <= Len(m.lists[r.list])
       BY <1>1 DEF InBounds, Ref, Index, ListName
<1>9. m \in Map(Ref) /\ n \in Map(Ref)
  <2>1. Q \subseteq Ref  BY <1>8
  <2> QED  BY <1>2, <1>7, <2>1, MapsGrow
<1>10. MapRefs(m) \subseteq Q  BY <1>1, <1>2, <1>9, InBoundsOf
<1>11. MapRefs(n) \subseteq InBounds(n.lists)
  <2> SUFFICES ASSUME NEW r \in MapRefs(m) PROVE r \in Ref /\ r.index <= Len(n.lists[r.list])
      BY <1>7 DEF InBounds
  <2>1. CASE r.list = list  BY <1>3, <1>6, <1>7, <1>8, <1>10, <2>1 DEF Spare
  <2>2. CASE r.list # list  BY <1>7, <1>8, <1>10, <2>2
  <2> QED  BY <1>8, <1>10, <2>1, <2>2
<1>12. n \in Map(InBounds(n.lists))  BY <1>9, <1>11, InBoundsOf
<1>13. ASSUME list \in File PROVE Once(t) /\ e \notin Range(t)
  <2>1. Once(s)  BY <1>2, <1>3, <1>13 DEF FilesOnce, Once
  <2>2. Once(InsertAt(t, i, e))  BY <1>6, <2>1
  <2> QED  BY <1>6, <2>2, InsertOnce
<1>14. FilesOnce(n.lists)
  <2> SUFFICES ASSUME NEW f \in File PROVE Once(n.lists[f])
      BY DEF FilesOnce, Once
  <2>1. Once(m.lists[f]) /\ f \in ListName  BY <1>2 DEF FilesOnce, Once, ListName
  <2>2. CASE f = list  BY <1>7, <1>13, <2>2
  <2>3. CASE f # list  BY <1>7, <2>1, <2>3
  <2> QED  BY <2>2, <2>3
<1>15. WellFormed(n)  BY <1>2, <1>7, <1>12, <1>14 DEF WellFormed
<1>16. ListAdded(b, n, m)
       BY <1>3, <1>5, <1>6, <1>7, <1>12, <1>13 DEF ListAdded
<1> QED  BY <1>3, <1>5, <1>6, <1>15, <1>16

(***************************************************************************)
(* Files and animations added and removed.                                 *)
(***************************************************************************)
LEMMA ListAddedWellFormed ==
    ASSUME NEW a, NEW m, NEW n, WellFormed(m), ListAdded(a, m, n)
    PROVE  WellFormed(n)
BY ListAddedOut DEF WellFormed

LEMMA ListTyped ==
    ASSUME NEW Q, NEW m \in Map(Q), NEW list \in ListName
    PROVE  m.lists[list] \in Seq(Value)
BY DEF Map, ListName

LEMMA AddFileDone ==
    ASSUME NEW a, a.list \in File, a.value \in Value, NEW m, WellFormed(m),
           NEW d, d = DoAddResource(a, m), d.ok
    PROVE  d.act = a /\ WellFormed(d.map) /\ ListAdded(a, m, d.map)
<1>1. m \in Map(InBounds(m.lists)) /\ a.list \in ListName  BY DEF WellFormed, ListName
<1>2. PICK n : n = SetList(m, a.list, InsertAt(m.lists[a.list], a.index, a.value))  OBVIOUS
<1>3. /\ d = Done(n, a) /\ InsertableAt(m.lists[a.list], a.index)
      /\ a.value \notin Range(m.lists[a.list])
      BY <1>2, DoneFields DEF DoAddResource, SetList
<1>4. Fits(m.lists[a.list], a.index, 0)
  <2>1. PICK s \in Seq(Value) : s = m.lists[a.list]  BY <1>1, ListTyped
  <2> QED  BY <1>3, <2>1, InsertableFits
<1>5. ListAdded(a, m, n)  BY <1>1, <1>2, <1>3, <1>4 DEF ListAdded
<1>6. d.act = a /\ d.map = n  BY <1>3, DoneIs
<1> QED  BY <1>5, <1>6, ListAddedWellFormed

LEMMA AddFileRedone ==
    ASSUME NEW a, a.list \in File, NEW m, NEW n, ListAdded(a, m, n)
    PROVE  DoAddResource(a, m).ok /\ DoAddResource(a, m).map = n
<1>1. /\ m \in Map(InBounds(m.lists)) /\ a.list \in ListName /\ Fits(m.lists[a.list], a.index, 0)
      /\ a.value \notin Range(m.lists[a.list])
      /\ n = SetList(m, a.list, InsertAt(m.lists[a.list], a.index, a.value))
      BY DEF ListAdded
<1>2. InsertableAt(m.lists[a.list], a.index)
  <2>1. PICK s \in Seq(Value) : s = m.lists[a.list]  BY <1>1, ListTyped
  <2> QED  BY <1>1, <2>1, InsertableFits
<1>3. DoAddResource(a, m) = Done(n, a)  BY <1>1, <1>2 DEF DoAddResource, SetList
<1> QED  BY <1>3, DoneFields

LEMMA RemFileDone ==
    ASSUME NEW a, a.list \in File, NEW m, WellFormed(m), NEW d, d = DoRemResource(a, m), d.ok
    PROVE  d.act = a /\ WellFormed(d.map) /\ ListAdded(a, d.map, m)
<1>1. a.list \in ListName  BY DEF ListName
<1>2. PICK n : n = SetList(m, a.list, RemoveAt(m.lists[a.list], a.index))  OBVIOUS
<1>3. /\ d = Done(n, a) /\ a.index \in DOMAIN m.lists[a.list]
      /\ m.lists[a.list][a.index] = a.value /\ Spare(m, a.list)
      BY <1>2, DoneFields DEF DoRemResource, SetList
<1>4. ListAdded(a, n, m) /\ WellFormed(n)
  <2>1. PICK list, i : list = a.list /\ i = a.index /\ list \in ListName /\ i \in DOMAIN m.lists[list]
        BY <1>1, <1>3
  <2> QED  BY <1>2, <1>3, <2>1, ListOut
<1>5. d.act = a /\ d.map = n  BY <1>3, DoneIs
<1> QED  BY <1>4, <1>5

LEMMA RemFileRedone ==
    ASSUME NEW a, a.list \in File, NEW m, NEW n, ListAdded(a, n, m)
    PROVE  DoRemResource(a, m).ok /\ DoRemResource(a, m).map = n
<1>1. /\ a.index \in DOMAIN m.lists[a.list] /\ m.lists[a.list][a.index] = a.value
      /\ n = SetList(m, a.list, RemoveAt(m.lists[a.list], a.index))
      /\ Spare(m, a.list)
      BY ListAddedOut
<1>2. DoRemResource(a, m) = Done(n, a)  BY <1>1 DEF DoRemResource, SetList
<1> QED  BY <1>2, DoneFields

LEMMA AddAnimDone ==
    ASSUME NEW a, a.op = "AddAnim", a.list \in Animation, a.value \in Value, NEW m, WellFormed(m),
           NEW d, d = DoAnim(a, m, TRUE), d.ok
    PROVE  d.act = a /\ WellFormed(d.map) /\ ListAdded(a, m, d.map)
<1>1. m \in Map(InBounds(m.lists)) /\ a.list \in ListName  BY DEF WellFormed, ListName
<1>2. PICK n : n = SetList(m, a.list, InsertAt(m.lists[a.list], a.index, a.value))  OBVIOUS
<1>3. d = Done(n, a) /\ InsertableAt(m.lists[a.list], a.index)
      BY <1>2, DoneFields DEF DoAnim, SetList
<1>4. Fits(m.lists[a.list], a.index, 0)
  <2>1. PICK s \in Seq(Value) : s = m.lists[a.list]  BY <1>1, ListTyped
  <2> QED  BY <1>3, <2>1, InsertableFits
<1>5. a.list \notin File  BY DEF File, Animation
<1>6. ListAdded(a, m, n)  BY <1>1, <1>2, <1>4, <1>5 DEF ListAdded
<1>7. d.act = a /\ d.map = n  BY <1>3, DoneIs
<1> QED  BY <1>6, <1>7, ListAddedWellFormed

LEMMA AddAnimRedone ==
    ASSUME NEW a, a.op = "AddAnim", NEW m, NEW n, ListAdded(a, m, n)
    PROVE  DoAnim(a, m, FALSE).ok /\ DoAnim(a, m, FALSE).map = n
<1>1. /\ m \in Map(InBounds(m.lists)) /\ a.list \in ListName /\ Fits(m.lists[a.list], a.index, 0)
      /\ n = SetList(m, a.list, InsertAt(m.lists[a.list], a.index, a.value))
      BY DEF ListAdded
<1>2. InsertableAt(m.lists[a.list], a.index)
  <2>1. PICK s \in Seq(Value) : s = m.lists[a.list]  BY <1>1, ListTyped
  <2> QED  BY <1>1, <2>1, InsertableFits
<1>3. DoAnim(a, m, FALSE) = Done(n, a)  BY <1>1, <1>2 DEF DoAnim, SetList
<1> QED  BY <1>3, DoneFields

RemAnimAction == [op : {"RemAnim"}, list : Animation, index : Index, value : Value]

LEMMA RemAnimDone ==
    ASSUME NEW a \in RemAnimAction, NEW m, WellFormed(m), NEW d, d = DoAnim(a, m, TRUE), d.ok
    PROVE  d.act \in RemAnimAction /\ WellFormed(d.map) /\ ListAdded(d.act, d.map, m)
<1>1. a.list \in ListName /\ a.op = "RemAnim"  BY DEF ListName, RemAnimAction
<1>2. PICK n, e, b : /\ n = SetList(m, a.list, RemoveAt(m.lists[a.list], a.index))
                     /\ e = m.lists[a.list][a.index] /\ b = [a EXCEPT !.value = e]
      OBVIOUS
<1>3. /\ d = Done(n, b) /\ a.index \in DOMAIN m.lists[a.list] /\ Spare(m, a.list)
      BY <1>1, <1>2, DoneFields DEF DoAnim, SetList
<1>4. b.list = a.list /\ b.index = a.index /\ b.value = e  BY <1>2 DEF RemAnimAction
<1>5. ListAdded(b, n, m) /\ WellFormed(n) /\ b.value \in Value
  <2>1. PICK list, i : list = a.list /\ i = a.index /\ list \in ListName /\ i \in DOMAIN m.lists[list]
        BY <1>1, <1>3
  <2> QED  BY <1>2, <1>3, <1>4, <2>1, ListOut
<1>6. b \in RemAnimAction  BY <1>2, <1>4, <1>5 DEF RemAnimAction
<1>7. d.act = b /\ d.map = n  BY <1>3, DoneIs
<1> QED  BY <1>5, <1>6, <1>7

LEMMA RemAnimRedone ==
    ASSUME NEW a, a.op = "RemAnim", NEW m, NEW n, ListAdded(a, n, m)
    PROVE  DoAnim(a, m, FALSE).ok /\ DoAnim(a, m, FALSE).map = n
<1>1. /\ a.index \in DOMAIN m.lists[a.list] /\ m.lists[a.list][a.index] = a.value
      /\ n = SetList(m, a.list, RemoveAt(m.lists[a.list], a.index))
      /\ Spare(m, a.list)
      BY ListAddedOut
<1>2. DoAnim(a, m, FALSE) = Done(n, [a EXCEPT !.value = a.value])
      BY <1>1 DEF DoAnim, SetList
<1>3. PICK b : DoAnim(a, m, FALSE) = Done(n, b)  BY <1>2
<1> QED  BY <1>3, DoneFields

(***************************************************************************)
(* Tiles written over others.                                              *)
(***************************************************************************)
Overwritten(s, i, new, n) == Cat(Cat(Part(s, 1, i - 1), new), Part(s, i + n, Len(s)))

TilesPut(x, new, old, s, t) ==
    \E n : /\ Long(new, n) /\ Long(old, n) /\ Fits(s, x, n) /\ new \in Seq(Value) /\ old \in Seq(Value)
           /\ s \in Seq(Value) /\ t \in Seq(Value) /\ Len(t) = Len(s)
           /\ Part(s, x, x + n - 1) = old /\ t = Overwritten(s, x, new, n)

LEMMA TilesPutBack ==
    ASSUME NEW x, NEW new, NEW old, NEW s, NEW t, TilesPut(x, new, old, s, t)
    PROVE  TilesPut(x, old, new, t, s)
<1>1. PICK n : /\ Long(new, n) /\ Long(old, n) /\ Fits(s, x, n)
               /\ new \in Seq(Value) /\ old \in Seq(Value) /\ s \in Seq(Value) /\ t \in Seq(Value)
               /\ Len(t) = Len(s)
               /\ Part(s, x, x + n - 1) = old /\ t = Overwritten(s, x, new, n)
      BY DEF TilesPut
<1>2. /\ Part(Overwritten(s, x, new, n), x, x + n - 1) = new
      /\ Overwritten(Overwritten(s, x, new, n), x, Part(s, x, x + n - 1), n) = s
      BY <1>1, OverwrittenBack DEF Overwritten
<1>3. Fits(t, x, n)  BY <1>1 DEF Fits
<1> QED  BY <1>1, <1>2, <1>3 DEF TilesPut

LEMMA CopyDone ==
    ASSUME NEW a, a.x \in Index, a.new \in Seq(Value), NEW s \in Seq(Value),
           NEW width, width = Len(s), NEW copy, copy = CheckAndCopy(s, width, a, TRUE), copy.ok
    PROVE  TilesPut(a.x, a.new, copy.old, s, copy.tiles)
<1>1. PICK n, x, new : n = Len(a.new) /\ x = a.x /\ new = a.new  OBVIOUS
<1>2. PICK here, t : here = Part(s, x, x + n - 1) /\ t = Overwritten(s, x, new, n)  OBVIOUS
<1>3. x + n - 1 <= width /\ Len(a.old) = n  BY <1>1 DEF CheckAndCopy
<1>5. copy.old = here /\ copy.tiles = t
      BY <1>1, <1>2, <1>3 DEF CheckAndCopy, Part, Overwritten, Cat
<1>6. n \in Nat /\ Len(s) \in Nat  BY <1>1, LenProperties
<1>7. Fits(s, x, n) /\ Long(new, n)  BY <1>1, <1>3, <1>6 DEF Fits, Index, Long
<1>8. here \in Seq(Value) /\ Len(here) = n /\ t \in Seq(Value) /\ Len(t) = Len(s)
      BY <1>1, <1>2, <1>7, OverwrittenBack DEF Overwritten
<1>9. Long(here, n)  BY <1>8 DEF Long
<1>10. TilesPut(x, new, here, s, t)  BY <1>1, <1>2, <1>7, <1>8, <1>9 DEF TilesPut
<1> QED  BY <1>1, <1>5, <1>10

Copied(a, s, t) == TilesPut(a.x, a.new, a.old, s, t)

LEMMA CopyRedone ==
    ASSUME NEW a, NEW s, NEW t, Copied(a, s, t)
    PROVE  LET copy == CheckAndCopy(s, Len(s), a, FALSE) IN copy.ok /\ copy.tiles = t
<1>0. PICK width, copy : width = Len(s) /\ copy = CheckAndCopy(s, width, a, FALSE)  OBVIOUS
<1>1. PICK n : /\ Long(a.new, n) /\ Long(a.old, n) /\ Fits(s, a.x, n)
               /\ Part(s, a.x, a.x + n - 1) = a.old /\ t = Overwritten(s, a.x, a.new, n)
      BY DEF TilesPut, Copied
<1>2. n = Len(a.new) /\ Len(a.old) = n /\ a.x + n - 1 <= width  BY <1>0, <1>1 DEF Long, Fits
<1>3. PICK here, u : here = Part(s, a.x, a.x + n - 1) /\ u = Overwritten(s, a.x, a.new, n)
      OBVIOUS
<1>4. copy.tiles = u /\ (copy.ok <=> a.old = here)
      BY <1>0, <1>2, <1>3 DEF CheckAndCopy, Part, Overwritten, Cat
<1>5. here = a.old /\ u = t  BY <1>1, <1>3
<1> QED  BY <1>0, <1>4, <1>5

(***************************************************************************)
(* The tiles of a design layer.                                            *)
(***************************************************************************)
TilesReplaced(a, m, n) ==
    LET k == LayerAt(m, a.at)
    IN  /\ k.kind = "tile"
        /\ \E t : /\ TilesPut(a.x, a.new, a.old, k.items, t)
                  /\ LayerPut(InBounds(m.lists), a.at, k, SetItems(k, t), m, n)

LEMMA TileLayerOf ==
    ASSUME NEW Q, NEW k \in Layer(Q), k.kind = "tile"
    PROVE  /\ k.items \in Seq(Value) /\ k.attr.width = Len(k.items)
           /\ \A s \in Seq(Value) : Len(s) = Len(k.items) => SetItems(k, s) \in Layer(Q)
           /\ \A s : /\ SetItems(k, s).items = s /\ SetItems(k, s).kind = k.kind
                     /\ SetItems(k, s).attr = k.attr /\ SetItems(SetItems(k, s), k.items) = k
<1>1. k \in TileLayer(Q)  BY DEF Layer, ItemLayer
<1>2. PICK A, B, C : k \in [kind : {"tile"}, name : A, attr : B, items : C]
      BY <1>1 DEF TileLayer
<1>3. k.items \in Seq(Value) /\ k.attr.width = Len(k.items)  BY <1>1 DEF TileLayer
<1>4. \A s : /\ SetItems(k, s).items = s /\ SetItems(k, s).kind = k.kind
             /\ SetItems(k, s).attr = k.attr /\ SetItems(SetItems(k, s), k.items) = k
      BY <1>2 DEF SetItems
<1>5. ASSUME NEW s \in Seq(Value), Len(s) = Len(k.items) PROVE SetItems(k, s) \in TileLayer(Q)
      BY <1>1, <1>5 DEF TileLayer, SetItems
<1> QED  BY <1>3, <1>4, <1>5 DEF Layer

LEMMA TilesDone ==
    ASSUME NEW a \in TileAction, NEW m, WellFormed(m), NEW d, d = DoReplaceTiles(a, m, TRUE), d.ok
    PROVE  d.act \in TileAction /\ WellFormed(d.map) /\ TilesReplaced(d.act, m, d.map)
<1>1. PICK Q, k : Q = InBounds(m.lists) /\ k = LayerAt(m, a.at)  OBVIOUS
<1>2. PICK copy : copy = CheckAndCopy(k.items, k.attr.width, a, TRUE)  OBVIOUS
<1>3. PICK n, b : n = PutLayer(m, a.at, SetItems(k, copy.tiles)) /\ b = [a EXCEPT !.old = copy.old]
      OBVIOUS
<1>4. m \in Map(Q)  BY <1>1 DEF WellFormed
<1>5. a.at \in Place /\ a.x \in Index /\ a.new \in Seq(Value)  BY DEF TileAction
<1>6. d = Done(n, b) /\ IsLayer(m, a.at, {"tile"}) /\ copy.ok
      BY <1>1, <1>2, <1>3, DoneFields DEF DoReplaceTiles, SetItems
<1>7. HasLayer(m, a.at) /\ k.kind = "tile"  BY <1>1, <1>6 DEF IsLayer
<1>8. k \in Layer(Q)  BY <1>1, <1>4, <1>5, <1>7, LayerOfMap
<1>9. k.items \in Seq(Value) /\ k.attr.width = Len(k.items)  BY <1>7, <1>8, TileLayerOf
<1>10. TilesPut(a.x, a.new, copy.old, k.items, copy.tiles)  BY <1>2, <1>5, <1>6, <1>9, CopyDone
<1>11. copy.tiles \in Seq(Value) /\ Len(copy.tiles) = Len(k.items) /\ copy.old \in Seq(Value)
       BY <1>10 DEF TilesPut
<1>12. SetItems(k, copy.tiles) \in Layer(Q)  BY <1>7, <1>8, <1>11, TileLayerOf
<1>13. LayerPut(Q, a.at, k, SetItems(k, copy.tiles), m, n)
       BY <1>1, <1>3, <1>4, <1>5, <1>7, <1>12 DEF LayerPut
<1>14. WellFormed(n)  BY <1>1, <1>13, LayerPutWellFormed
<1>15. b \in TileAction /\ b.at = a.at /\ b.x = a.x /\ b.new = a.new /\ b.old = copy.old
       BY <1>3, <1>11 DEF TileAction
<1>16. TilesReplaced(b, m, n)  BY <1>1, <1>7, <1>10, <1>13, <1>15 DEF TilesReplaced
<1>17. d.act = b /\ d.map = n  BY <1>6, DoneIs
<1> QED  BY <1>14, <1>15, <1>16, <1>17

LEMMA TilesRedone ==
    ASSUME NEW a, NEW m, NEW n, TilesReplaced(a, m, n)
    PROVE  DoReplaceTiles(a, m, FALSE).ok /\ DoReplaceTiles(a, m, FALSE).map = n
<1>1. PICK k : k = LayerAt(m, a.at)  OBVIOUS
<1>2. PICK t : /\ TilesPut(a.x, a.new, a.old, k.items, t)
               /\ LayerPut(InBounds(m.lists), a.at, k, SetItems(k, t), m, n)
      BY <1>1 DEF TilesReplaced
<1>3. k.kind = "tile" /\ HasLayer(m, a.at) /\ n = PutLayer(m, a.at, SetItems(k, t))
      BY <1>1, <1>2 DEF TilesReplaced, LayerPut
<1>4. k \in Layer(InBounds(m.lists))  BY <1>2, LayerPutBack
<1>5. k.attr.width = Len(k.items)  BY <1>3, <1>4, TileLayerOf
<1>7. PICK copy : copy = CheckAndCopy(k.items, k.attr.width, a, FALSE)  OBVIOUS
<1>8. copy.ok /\ copy.tiles = t
  <2>1. Copied(a, k.items, t)  BY <1>2 DEF Copied
  <2>2. CheckAndCopy(k.items, Len(k.items), a, FALSE).ok
        /\ CheckAndCopy(k.items, Len(k.items), a, FALSE).tiles = t
        BY <2>1, CopyRedone
  <2> QED  BY <1>5, <1>7, <2>2
<1>9. DoReplaceTiles(a, m, FALSE) = Done(n, [a EXCEPT !.old = copy.old])
      BY <1>1, <1>3, <1>7, <1>8 DEF DoReplaceTiles, IsLayer, SetItems
<1>10. PICK b : DoReplaceTiles(a, m, FALSE) = Done(n, b)  BY <1>9
<1> QED  BY <1>10, DoneFields

LEMMA TilesBack ==
    ASSUME NEW a, NEW b, NEW m, NEW n, TilesReplaced(a, m, n),
           b.at = a.at, b.x = a.x, b.old = a.new, b.new = a.old
    PROVE  TilesReplaced(b, n, m)
<1>1. PICK Q, k : Q = InBounds(m.lists) /\ k = LayerAt(m, a.at)  OBVIOUS
<1>2. PICK t : /\ TilesPut(a.x, a.new, a.old, k.items, t)
               /\ LayerPut(Q, a.at, k, SetItems(k, t), m, n)
      BY <1>1 DEF TilesReplaced
<1>3. PICK l : l = SetItems(k, t)  OBVIOUS
<1>4. LayerPut(Q, a.at, l, k, n, m) /\ SameRest(m, n) /\ k \in Layer(Q)
      BY <1>2, <1>3, LayerPutBack
<1>5. k.kind = "tile"  BY <1>1 DEF TilesReplaced
<1>6. l.kind = "tile" /\ l.items = t /\ SetItems(l, k.items) = k
      BY <1>3, <1>4, <1>5, TileLayerOf
<1>7. TilesPut(a.x, a.old, a.new, t, k.items)  BY <1>2, TilesPutBack
<1>8. LayerAt(n, b.at) = l /\ InBounds(n.lists) = Q  BY <1>1, <1>4 DEF LayerPut, SameRest
<1> QED  BY <1>4, <1>6, <1>7, <1>8 DEF TilesReplaced

(***************************************************************************)
(* Physics layers.                                                         *)
(***************************************************************************)
PutPlanes(m, ls) == [m EXCEPT !.physics.layers = ls]

LEMMA PutPlanesLaws ==
    ASSUME NEW Q, NEW m \in Map(Q), NEW ls \in Seq(PhysicsLayer)
    PROVE  LET n == PutPlanes(m, ls)
           IN  /\ n \in Map(Q) /\ n.lists = m.lists
               /\ n.physics.layers = ls /\ n.physics.attr = m.physics.attr
               /\ m.physics.layers \in Seq(PhysicsLayer)
               /\ PutPlanes(n, m.physics.layers) = m
               /\ \A x : PutPlanes(n, x) = PutPlanes(m, x)
<1>1. PICK p \in Physics : p = m.physics  BY MapParts
<1>2. p = [attr |-> p.attr, layers |-> p.layers] /\ p.layers \in Seq(PhysicsLayer)
      /\ p.attr \in [width : Nat]
      BY DEF Physics
<1>3. ASSUME NEW x
      PROVE  PutPlanes(m, x) = [groups |-> m.groups, physics |-> [attr |-> p.attr, layers |-> x],
                                lists |-> m.lists, config |-> m.config]
  <2>1. PICK q : q = [attr |-> p.attr, layers |-> x]  OBVIOUS
  <2>2. q = [p EXCEPT !.layers = x]  BY <2>1 DEF Physics
  <2>3. PutPlanes(m, x) = [m EXCEPT !.physics = q]  BY <1>1, <2>2 DEF PutPlanes
  <2>4. PICK A, B, C, D : m \in [groups : A, physics : B, lists : C, config : D]  BY DEF Map
  <2>5. [m EXCEPT !.physics = q] =
          [groups |-> m.groups, physics |-> q, lists |-> m.lists, config |-> m.config]
        BY <2>4
  <2> QED  BY <2>1, <2>3, <2>5
<1>4. PICK n : n = PutPlanes(m, ls)  OBVIOUS
<1>5. n = [groups |-> m.groups, physics |-> [attr |-> p.attr, layers |-> ls],
           lists |-> m.lists, config |-> m.config]
      BY <1>3, <1>4
<1>6. n.physics = [attr |-> p.attr, layers |-> ls] /\ n.groups = m.groups /\ n.lists = m.lists
      /\ n.config = m.config
      BY <1>5
<1>7. n.physics \in Physics  BY <1>2, <1>6 DEF Physics
<1>8. n \in Map(Q)  BY <1>5, <1>6, <1>7, MapParts DEF Map
<1>9. n.physics.layers = ls /\ n.physics.attr = m.physics.attr  BY <1>1, <1>6
<1>10. ASSUME NEW x PROVE PutPlanes(n, x) = PutPlanes(m, x)
  <2>1. PutPlanes(n, x) = [groups |-> m.groups, physics |-> [attr |-> p.attr, layers |-> x],
                           lists |-> m.lists, config |-> m.config]
        BY <1>5 DEF PutPlanes
  <2> QED  BY <1>3, <2>1
<1>11. PutPlanes(m, p.layers) = m  BY <1>1, <1>2, <1>3, MapParts
<1> QED  BY <1>1, <1>2, <1>4, <1>6, <1>8, <1>9, <1>10, <1>11

LEMMA PutPlanesWellFormed ==
    ASSUME NEW m, WellFormed(m), NEW ls \in Seq(PhysicsLayer),
           NEW n, n = PutPlanes(m, ls), PhysicsFits(n.physics)
    PROVE  WellFormed(n)
<1>1. n \in Map(InBounds(m.lists)) /\ n.lists = m.lists  BY PutPlanesLaws DEF WellFormed
<1> QED  BY <1>1 DEF WellFormed

PhysicsAdded(a, m, n) ==
    /\ WellFormed(m) /\ WellFormed(n) /\ a.layer \in PhysicsLayer
    /\ Fits(m.physics.layers, a.index, 0)
    /\ n = PutPlanes(m, InsertAt(m.physics.layers, a.index, a.layer))

LEMMA PlanesOf ==
    ASSUME NEW m, WellFormed(m)
    PROVE  m.physics.layers \in Seq(PhysicsLayer)
BY MapParts DEF WellFormed, Physics

PlanesFit(ls, width) ==
    /\ \E i \in DOMAIN ls : ls[i].kind = "game"
    /\ \A i, j \in DOMAIN ls : ls[i].kind = ls[j].kind => i = j
    /\ \A i \in DOMAIN ls : Len(ls[i].tiles) = width

LEMMA FitsIsPlanesFit ==
    ASSUME NEW p
    PROVE  PhysicsFits(p) <=> PlanesFit(p.layers, p.attr.width)
BY DEF PhysicsFits, PlanesFit

\* What adding a layer does to the conditions on the physics group.
LEMMA PlaneAddedFits ==
    ASSUME NEW w, NEW s \in Seq(PhysicsLayer), NEW i, Fits(s, i, 0),
           NEW l \in PhysicsLayer, NEW t, t = InsertAt(s, i, l)
    PROVE  /\ PlanesFit(s, w) /\ Len(l.tiles) = w
              /\ (\A k \in Range(s) : k.kind # l.kind) => PlanesFit(t, w)
           /\ PlanesFit(t, w) /\ l.kind # "game" => PlanesFit(s, w)
           /\ PlanesFit(t, w) => /\ Len(l.tiles) = w
                                 /\ \A k \in Range(s) : k.kind # l.kind
<1>3. /\ t \in Seq(PhysicsLayer) /\ i \in DOMAIN t /\ t[i] = l
      /\ \A h \in DOMAIN s : Shift(i, h) \in DOMAIN t /\ Shift(i, h) # i /\ t[Shift(i, h)] = s[h]
      /\ \A j \in DOMAIN t : j = i \/ \E h \in DOMAIN s : j = Shift(i, h)
      /\ \A g, h \in DOMAIN s : Shift(i, g) = Shift(i, h) => g = h
      BY InsertShifts
<1>4. PlanesFit(s, w) <=>
        /\ \E h \in DOMAIN s : s[h].kind = "game"
        /\ \A g, h \in DOMAIN s : s[g].kind = s[h].kind => g = h
        /\ \A h \in DOMAIN s : Len(s[h].tiles) = w
      BY DEF PlanesFit
<1>5. PlanesFit(t, w) <=>
        /\ \E j \in DOMAIN t : t[j].kind = "game"
        /\ \A j, k \in DOMAIN t : t[j].kind = t[k].kind => j = k
        /\ \A j \in DOMAIN t : Len(t[j].tiles) = w
      BY DEF PlanesFit
<1>6. (\A k \in Range(s) : k.kind # l.kind) <=> \A h \in DOMAIN s : s[h].kind # l.kind
      BY DEF Range
<1>7. ASSUME PlanesFit(s, w), Len(l.tiles) = w, \A h \in DOMAIN s : s[h].kind # l.kind
      PROVE  PlanesFit(t, w)
  <2>1. \E j \in DOMAIN t : t[j].kind = "game"  BY <1>3, <1>4, <1>7
  <2>2. \A j \in DOMAIN t : Len(t[j].tiles) = w  BY <1>3, <1>4, <1>7
  <2>3. ASSUME NEW j \in DOMAIN t, NEW k \in DOMAIN t, t[j].kind = t[k].kind PROVE j = k
    <3>1. CASE j = i \/ k = i  BY <1>3, <1>7, <2>3, <3>1
    <3>2. CASE j # i /\ k # i
      <4>1. PICK g \in DOMAIN s, h \in DOMAIN s : j = Shift(i, g) /\ k = Shift(i, h)
            BY <1>3, <3>2
      <4>2. s[g].kind = s[h].kind  BY <1>3, <2>3, <4>1
      <4> QED  BY <1>4, <1>7, <4>1, <4>2
    <3> QED  BY <3>1, <3>2
  <2> QED  BY <1>5, <2>1, <2>2, <2>3
<1>8. ASSUME PlanesFit(t, w), l.kind # "game" PROVE PlanesFit(s, w)
  <2>1. \E h \in DOMAIN s : s[h].kind = "game"
    <3>1. PICK j \in DOMAIN t : t[j].kind = "game"  BY <1>5, <1>8
    <3>2. j # i  BY <1>3, <1>8, <3>1
    <3>3. PICK h \in DOMAIN s : j = Shift(i, h)  BY <1>3, <3>2
    <3> QED  BY <1>3, <3>1, <3>3
  <2>2. \A g, h \in DOMAIN s : s[g].kind = s[h].kind => g = h
    <3> SUFFICES ASSUME NEW g \in DOMAIN s, NEW h \in DOMAIN s, s[g].kind = s[h].kind PROVE g = h
        OBVIOUS
    <3>1. t[Shift(i, g)].kind = t[Shift(i, h)].kind  BY <1>3
    <3>2. Shift(i, g) = Shift(i, h)  BY <1>3, <1>5, <1>8, <3>1
    <3> QED  BY <1>3, <3>2
  <2>3. \A h \in DOMAIN s : Len(s[h].tiles) = w
    <3> SUFFICES ASSUME NEW h \in DOMAIN s PROVE Len(s[h].tiles) = w  OBVIOUS
    <3>1. Len(t[Shift(i, h)].tiles) = w  BY <1>3, <1>5, <1>8
    <3> QED  BY <1>3, <3>1
  <2> QED  BY <1>4, <2>1, <2>2, <2>3
<1>9. ASSUME PlanesFit(t, w)
      PROVE  Len(l.tiles) = w /\ \A h \in DOMAIN s : s[h].kind # l.kind
  <2>1. Len(l.tiles) = w  BY <1>3, <1>5, <1>9
  <2>2. ASSUME NEW h \in DOMAIN s PROVE s[h].kind # l.kind
    <3>1. t[Shift(i, h)].kind = s[h].kind /\ t[i].kind = l.kind  BY <1>3
    <3> QED  BY <1>3, <1>5, <1>9, <3>1
  <2> QED  BY <2>1, <2>2
<1> QED  BY <1>6, <1>7, <1>8, <1>9

LEMMA PhysicsAddedOut ==
    ASSUME NEW a, NEW m, NEW n, PhysicsAdded(a, m, n)
    PROVE  /\ InsertableAt(m.physics.layers, a.index)
           /\ Len(a.layer.tiles) = m.physics.attr.width
           /\ \A l \in Range(m.physics.layers) : l.kind # a.layer.kind
           /\ a.index \in DOMAIN n.physics.layers
           /\ n.physics.layers[a.index] = a.layer /\ a.layer.kind # "game"
           /\ m = PutPlanes(n, RemoveAt(n.physics.layers, a.index))
<1>1. PICK i, l, s : /\ i = a.index /\ l = a.layer /\ s = m.physics.layers
                     /\ l \in PhysicsLayer /\ s \in Seq(PhysicsLayer)
      BY PlanesOf DEF PhysicsAdded
<1>2. PICK t : t = InsertAt(s, i, l)  OBVIOUS
<1>3. WellFormed(m) /\ WellFormed(n) /\ Fits(s, i, 0) /\ n = PutPlanes(m, t)
      BY <1>1, <1>2 DEF PhysicsAdded
<1>4. t \in Seq(PhysicsLayer) /\ i \in DOMAIN t /\ t[i] = l /\ RemoveAt(t, i) = s
      BY <1>1, <1>2, <1>3, RemoveInserted
<1>5. /\ n.physics.layers = t /\ n.physics.attr = m.physics.attr /\ PutPlanes(n, s) = m
      BY <1>1, <1>3, <1>4, PutPlanesLaws DEF WellFormed
<1>6. Len(l.tiles) = m.physics.attr.width /\ \A k \in Range(s) : k.kind # l.kind
  <2>0. PICK w : w = m.physics.attr.width  OBVIOUS
  <2>1. PlanesFit(t, w)  BY <1>3, <1>5, <2>0, FitsIsPlanesFit DEF WellFormed
  <2>2. l \in PhysicsLayer /\ s \in Seq(PhysicsLayer) /\ Fits(s, i, 0)  BY <1>1, <1>3
  <2>3. Len(l.tiles) = w /\ \A k \in Range(s) : k.kind # l.kind
        BY <1>2, <2>1, <2>2, PlaneAddedFits
  <2> QED  BY <2>0, <2>3
<1>7. l.kind # "game"
  <2>1. \E h \in DOMAIN s : s[h].kind = "game"  BY <1>1, <1>3 DEF WellFormed, PhysicsFits
  <2> QED  BY <1>6, <2>1 DEF Range
<1>8. InsertableAt(s, i)  BY <1>1, <1>3, InsertableFits
<1> QED  BY <1>1, <1>4, <1>5, <1>6, <1>7, <1>8

LEMMA AddPlaneDone ==
    ASSUME NEW a, a.layer \in PhysicsLayer, NEW m, WellFormed(m),
           NEW d, d = DoAddPhysicsLayer(a, m), d.ok
    PROVE  d.act = a /\ WellFormed(d.map) /\ PhysicsAdded(a, m, d.map)
<1>1. PICK i, l, s : /\ i = a.index /\ l = a.layer /\ s = m.physics.layers
                     /\ l \in PhysicsLayer /\ s \in Seq(PhysicsLayer)
      BY PlanesOf
<1>2. PICK t, n : t = InsertAt(s, i, l) /\ n = PutPlanes(m, t)  OBVIOUS
<1>3. /\ d = Done(n, a) /\ InsertableAt(s, i) /\ Len(l.tiles) = m.physics.attr.width
      /\ \A k \in Range(s) : k.kind # l.kind
      BY <1>1, <1>2, DoneFields DEF DoAddPhysicsLayer, PutPlanes
<1>4. Fits(s, i, 0)  BY <1>1, <1>3, InsertableFits
<1>5. t \in Seq(PhysicsLayer)  BY <1>1, <1>2, <1>4, RemoveInserted
<1>6. n.physics.layers = t /\ n.physics.attr = m.physics.attr
      BY <1>2, <1>5, PutPlanesLaws DEF WellFormed
<1>7. PhysicsFits(n.physics)
  <2>1. PlanesFit(s, m.physics.attr.width)
        BY <1>1, FitsIsPlanesFit DEF WellFormed
  <2>2. PlanesFit(t, m.physics.attr.width)
        BY <1>1, <1>2, <1>3, <1>4, <2>1, PlaneAddedFits
  <2> QED  BY <1>6, <2>2, FitsIsPlanesFit
<1>8. WellFormed(n)  BY <1>2, <1>5, <1>7, PutPlanesWellFormed
<1>9. PhysicsAdded(a, m, n)  BY <1>1, <1>2, <1>4, <1>8 DEF PhysicsAdded
<1>10. d.act = a /\ d.map = n  BY <1>3, DoneIs
<1> QED  BY <1>8, <1>9, <1>10

LEMMA AddPlaneRedone ==
    ASSUME NEW a, NEW m, NEW n, PhysicsAdded(a, m, n)
    PROVE  DoAddPhysicsLayer(a, m).ok /\ DoAddPhysicsLayer(a, m).map = n
<1>1. n = PutPlanes(m, InsertAt(m.physics.layers, a.index, a.layer))  BY DEF PhysicsAdded
<1>2. DoAddPhysicsLayer(a, m) = Done(n, a)
      BY <1>1, PhysicsAddedOut DEF DoAddPhysicsLayer, PutPlanes
<1> QED  BY <1>2, DoneFields

RemPlaneAction == [op : {"RemPhysicsLayer"}, index : Index, layer : PhysicsLayer]

LEMMA RemPlaneDone ==
    ASSUME NEW a \in RemPlaneAction, NEW m, WellFormed(m),
           NEW d, d = DoRemPhysicsLayer(a, m, TRUE), d.ok
    PROVE  d.act \in RemPlaneAction /\ WellFormed(d.map) /\ PhysicsAdded(d.act, d.map, m)
<1>1. PICK i, s : i = a.index /\ s = m.physics.layers /\ s \in Seq(PhysicsLayer)  BY PlanesOf
<1>2. PICK l, t : l = s[i] /\ t = RemoveAt(s, i)  OBVIOUS
<1>3. PICK n, b : n = PutPlanes(m, t) /\ b = [a EXCEPT !.layer = l]  OBVIOUS
<1>4. d = Done(n, b) /\ i \in DOMAIN s /\ l.kind # "game"
      BY <1>1, <1>2, <1>3, DoneFields DEF DoRemPhysicsLayer, PutPlanes
<1>5. l \in PhysicsLayer /\ t \in Seq(PhysicsLayer) /\ Fits(t, i, 0) /\ InsertAt(t, i, l) = s
      BY <1>1, <1>2, <1>4, InsertRemoved
<1>6. n.physics.layers = t /\ n.physics.attr = m.physics.attr /\ PutPlanes(n, s) = m
      BY <1>1, <1>3, <1>5, PutPlanesLaws DEF WellFormed
<1>7. PhysicsFits(n.physics)
  <2>1. PlanesFit(s, m.physics.attr.width)
        BY <1>1, FitsIsPlanesFit DEF WellFormed
  <2>2. PlanesFit(t, m.physics.attr.width)  BY <1>4, <1>5, <2>1, PlaneAddedFits
  <2> QED  BY <1>6, <2>2, FitsIsPlanesFit
<1>8. WellFormed(n)  BY <1>3, <1>5, <1>7, PutPlanesWellFormed
<1>9. b.index = i /\ b.layer = l /\ b \in RemPlaneAction
      BY <1>1, <1>3, <1>5 DEF RemPlaneAction
<1>10. PhysicsAdded(b, n, m)  BY <1>5, <1>6, <1>8, <1>9 DEF PhysicsAdded
<1>11. d.act = b /\ d.map = n  BY <1>4, DoneIs
<1> QED  BY <1>8, <1>9, <1>10, <1>11

LEMMA RemPlaneRedone ==
    ASSUME NEW a, NEW m, NEW n, PhysicsAdded(a, n, m)
    PROVE  DoRemPhysicsLayer(a, m, FALSE).ok /\ DoRemPhysicsLayer(a, m, FALSE).map = n
<1>1. /\ a.index \in DOMAIN m.physics.layers
      /\ m.physics.layers[a.index] = a.layer /\ a.layer.kind # "game"
      /\ n = PutPlanes(m, RemoveAt(m.physics.layers, a.index))
      BY PhysicsAddedOut
<1>2. DoRemPhysicsLayer(a, m, FALSE) = Done(n, [a EXCEPT !.layer = a.layer])
      BY <1>1 DEF DoRemPhysicsLayer, PutPlanes
<1>3. PICK b : DoRemPhysicsLayer(a, m, FALSE) = Done(n, b)  BY <1>2
<1> QED  BY <1>3, DoneFields

(***************************************************************************)
(* The tiles of a physics layer.                                           *)
(***************************************************************************)
SetTiles(l, t) == [l EXCEPT !.tiles = t]
PutPlane(s, i, l) == [s EXCEPT ![i] = l]

PhysicsTilesReplaced(a, m, n) ==
    /\ WellFormed(m) /\ WellFormed(n)
    /\ a.index \in DOMAIN m.physics.layers /\ m.physics.layers[a.index].kind = a.kind
    /\ \E t : /\ TilesPut(a.x, a.new, a.old, m.physics.layers[a.index].tiles, t)
              /\ n = PutPlanes(m, PutPlane(m.physics.layers, a.index,
                                           SetTiles(m.physics.layers[a.index], t)))

LEMMA SetTilesLaws ==
    ASSUME NEW l \in PhysicsLayer, NEW t \in Seq(Value), NEW k, k = SetTiles(l, t)
    PROVE  /\ k \in PhysicsLayer /\ k.tiles = t /\ k.kind = l.kind /\ l.tiles \in Seq(Value)
           /\ SetTiles(k, l.tiles) = l
BY DEF SetTiles, PhysicsLayer

LEMMA PutPlaneLaws ==
    ASSUME NEW s \in Seq(PhysicsLayer), NEW i \in DOMAIN s, NEW l \in PhysicsLayer,
           NEW t, t = PutPlane(s, i, l)
    PROVE  /\ t \in Seq(PhysicsLayer) /\ DOMAIN t = DOMAIN s /\ t[i] = l /\ s[i] \in PhysicsLayer
           /\ \A j \in DOMAIN s : j # i => t[j] = s[j]
           /\ PutPlane(t, i, s[i]) = s
<1>1. /\ t \in Seq(PhysicsLayer) /\ DOMAIN t = DOMAIN s /\ t[i] = l /\ s[i] \in PhysicsLayer
      /\ PutPlane(t, i, s[i]) = s
      BY SeqPut DEF PutPlane
<1>2. \A j \in DOMAIN s : j # i => t[j] = s[j]
  <2>1. s \in [1 .. Len(s) -> PhysicsLayer] /\ DOMAIN s = 1 .. Len(s)  BY LenProperties
  <2> QED  BY <2>1 DEF PutPlane
<1> QED  BY <1>1, <1>2

LEMMA RetiledFits ==
    ASSUME NEW s \in Seq(PhysicsLayer), NEW i \in DOMAIN s, NEW t \in Seq(Value),
           Len(t) = Len(s[i].tiles), NEW w, PlanesFit(s, w)
    PROVE  PlanesFit(PutPlane(s, i, SetTiles(s[i], t)), w)
<1>1. PICK l, k, u : l = s[i] /\ k = SetTiles(l, t) /\ u = PutPlane(s, i, k)  OBVIOUS
<1>2. l \in PhysicsLayer  BY <1>1, LenProperties, ElementOfSeq
<1>3. k \in PhysicsLayer /\ k.tiles = t /\ k.kind = l.kind  BY <1>1, <1>2, SetTilesLaws
<1>4. DOMAIN u = DOMAIN s /\ u[i] = k /\ \A j \in DOMAIN s : j # i => u[j] = s[j]
      BY <1>1, <1>3, PutPlaneLaws
<1>5. \A j \in DOMAIN s : u[j].kind = s[j].kind /\ Len(u[j].tiles) = Len(s[j].tiles)
      BY <1>1, <1>3, <1>4
<1>6. PlanesFit(u, w)  BY <1>4, <1>5 DEF PlanesFit
<1> QED  BY <1>1, <1>6

LEMMA PlaneTilesDone ==
    ASSUME NEW a \in PhysicsTileAction, NEW m, WellFormed(m),
           NEW d, d = DoReplacePhysicsTiles(a, m, TRUE), d.ok
    PROVE  d.act \in PhysicsTileAction /\ WellFormed(d.map) /\ PhysicsTilesReplaced(d.act, m, d.map)
<1>1. PICK i, s, w : /\ i = a.index /\ s = m.physics.layers /\ s \in Seq(PhysicsLayer)
                     /\ w = m.physics.attr.width
      BY PlanesOf
<1>2. PICK l : l = s[i]  OBVIOUS
<1>3. PICK copy : copy = CheckAndCopy(l.tiles, w, a, TRUE)  OBVIOUS
<1>4. PICK u : u = PutPlane(s, i, SetTiles(l, copy.tiles))  OBVIOUS
<1>5. PICK n, b : n = PutPlanes(m, u) /\ b = [a EXCEPT !.old = copy.old]  OBVIOUS
<1>6. d = Done(n, b) /\ i \in DOMAIN s /\ l.kind = a.kind /\ copy.ok
  <2>1. /\ i \in DOMAIN s /\ l.kind = a.kind /\ copy.ok
        BY <1>1, <1>2, <1>3, DoneFields DEF DoReplacePhysicsTiles
  <2>2. d = Done([m EXCEPT !.physics.layers[i].tiles = copy.tiles], b)
        BY <1>1, <1>2, <1>3, <1>5, <2>1 DEF DoReplacePhysicsTiles
  <2>3. [m EXCEPT !.physics.layers[i].tiles = copy.tiles] = n
        BY <1>1, <1>2, <1>4, <1>5 DEF PutPlanes, PutPlane, SetTiles
  <2> QED  BY <2>1, <2>2, <2>3
<1>7. l \in PhysicsLayer  BY <1>1, <1>2, <1>6, LenProperties, ElementOfSeq
<1>8. PlanesFit(s, w)  BY <1>1, FitsIsPlanesFit DEF WellFormed
<1>9. l.tiles \in Seq(Value) /\ w = Len(l.tiles)
      BY <1>2, <1>6, <1>7, <1>8 DEF PlanesFit, PhysicsLayer
<1>10. a.x \in Index /\ a.new \in Seq(Value)  BY DEF PhysicsTileAction
<1>11. TilesPut(a.x, a.new, copy.old, l.tiles, copy.tiles)  BY <1>3, <1>6, <1>9, <1>10, CopyDone
<1>12. copy.tiles \in Seq(Value) /\ Len(copy.tiles) = Len(l.tiles) /\ copy.old \in Seq(Value)
       BY <1>11 DEF TilesPut
<1>13. PICK t : t = copy.tiles  OBVIOUS
<1>14. t \in Seq(Value) /\ u = PutPlane(s, i, SetTiles(s[i], t)) /\ Len(t) = Len(s[i].tiles)
       BY <1>2, <1>4, <1>12, <1>13
<1>15. u \in Seq(PhysicsLayer) /\ PlanesFit(u, w)
  <2>1. PICK k : k = SetTiles(s[i], t)  OBVIOUS
  <2>2. k \in PhysicsLayer  BY <1>2, <1>7, <1>14, <2>1, SetTilesLaws
  <2>3. u = PutPlane(s, i, k)  BY <1>14, <2>1
  <2>4. u \in Seq(PhysicsLayer)  BY <1>1, <1>6, <2>2, <2>3, PutPlaneLaws
  <2>5. PlanesFit(PutPlane(s, i, SetTiles(s[i], t)), w)
        BY <1>1, <1>6, <1>8, <1>14, RetiledFits
  <2> QED  BY <1>14, <2>4, <2>5
<1>16. n.physics.layers = u /\ n.physics.attr = m.physics.attr
       BY <1>5, <1>15, PutPlanesLaws DEF WellFormed
<1>17. WellFormed(n)
  <2>1. PhysicsFits(n.physics)  BY <1>1, <1>15, <1>16, FitsIsPlanesFit
  <2> QED  BY <1>5, <1>15, <2>1, PutPlanesWellFormed
<1>18. /\ b \in PhysicsTileAction /\ b.index = i /\ b.kind = a.kind /\ b.x = a.x /\ b.new = a.new
       /\ b.old = copy.old
       BY <1>1, <1>5, <1>12 DEF PhysicsTileAction
<1>19. PhysicsTilesReplaced(b, m, n)
       BY <1>1, <1>2, <1>5, <1>6, <1>11, <1>13, <1>14, <1>17, <1>18 DEF PhysicsTilesReplaced
<1>20. d.act = b /\ d.map = n  BY <1>6, DoneIs
<1> QED  BY <1>17, <1>18, <1>19, <1>20

LEMMA PlaneTilesRedone ==
    ASSUME NEW a, NEW m, NEW n, PhysicsTilesReplaced(a, m, n)
    PROVE  DoReplacePhysicsTiles(a, m, FALSE).ok /\ DoReplacePhysicsTiles(a, m, FALSE).map = n
<1>1. PICK i, s, w : i = a.index /\ s = m.physics.layers /\ w = m.physics.attr.width  OBVIOUS
<1>2. PICK l : l = s[i]  OBVIOUS
<1>3. PICK t : TilesPut(a.x, a.new, a.old, l.tiles, t) /\ n = PutPlanes(m, PutPlane(s, i, SetTiles(l, t)))
      BY <1>1, <1>2 DEF PhysicsTilesReplaced
<1>4. i \in DOMAIN s /\ l.kind = a.kind  BY <1>1, <1>2 DEF PhysicsTilesReplaced
<1>5. w = Len(l.tiles)
      BY <1>1, <1>2, <1>4 DEF PhysicsTilesReplaced, WellFormed, PhysicsFits
<1>6. PICK copy : copy = CheckAndCopy(l.tiles, w, a, FALSE)  OBVIOUS
<1>7. copy.ok /\ copy.tiles = t
  <2>1. Copied(a, l.tiles, t)  BY <1>3 DEF Copied
  <2>2. CheckAndCopy(l.tiles, Len(l.tiles), a, FALSE).ok
        /\ CheckAndCopy(l.tiles, Len(l.tiles), a, FALSE).tiles = t
        BY <2>1, CopyRedone
  <2> QED  BY <1>5, <1>6, <2>2
<1>8. DoReplacePhysicsTiles(a, m, FALSE) = Done(n, [a EXCEPT !.old = copy.old])
  <2>1. [m EXCEPT !.physics.layers[i].tiles = t] = n
        BY <1>1, <1>2, <1>3 DEF PutPlanes, PutPlane, SetTiles
  <2> QED  BY <1>1, <1>2, <1>4, <1>6, <1>7, <2>1 DEF DoReplacePhysicsTiles
<1>9. PICK b : DoReplacePhysicsTiles(a, m, FALSE) = Done(n, b)  BY <1>8
<1> QED  BY <1>9, DoneFields

LEMMA PlaneTilesBack ==
    ASSUME NEW a, NEW b, NEW m, NEW n, PhysicsTilesReplaced(a, m, n),
           b.index = a.index, b.kind = a.kind, b.x = a.x, b.old = a.new, b.new = a.old
    PROVE  PhysicsTilesReplaced(b, n, m)
<1>1. PICK i, s : i = a.index /\ s = m.physics.layers /\ s \in Seq(PhysicsLayer)
      BY PlanesOf DEF PhysicsTilesReplaced
<1>2. PICK l : l = s[i]  OBVIOUS
<1>3. PICK t : TilesPut(a.x, a.new, a.old, l.tiles, t) /\ n = PutPlanes(m, PutPlane(s, i, SetTiles(l, t)))
      BY <1>1, <1>2 DEF PhysicsTilesReplaced
<1>4. i \in DOMAIN s /\ l.kind = a.kind /\ WellFormed(m) /\ WellFormed(n)
      BY <1>1, <1>2 DEF PhysicsTilesReplaced
<1>5. PICK k, u : k = SetTiles(l, t) /\ u = PutPlane(s, i, k)  OBVIOUS
<1>6. l \in PhysicsLayer  BY <1>1, <1>2, <1>4, LenProperties, ElementOfSeq
<1>7. t \in Seq(Value)  BY <1>3 DEF TilesPut
<1>8. k \in PhysicsLayer /\ k.tiles = t /\ k.kind = l.kind /\ SetTiles(k, l.tiles) = l
      BY <1>5, <1>6, <1>7, SetTilesLaws
<1>9. u \in Seq(PhysicsLayer) /\ DOMAIN u = DOMAIN s /\ u[i] = k /\ PutPlane(u, i, l) = s
  <2>1. s \in Seq(PhysicsLayer) /\ i \in DOMAIN s /\ k \in PhysicsLayer /\ u = PutPlane(s, i, k)
        BY <1>1, <1>4, <1>5, <1>8
  <2>2. u \in Seq(PhysicsLayer) /\ DOMAIN u = DOMAIN s /\ u[i] = k /\ PutPlane(u, i, s[i]) = s
        BY <2>1, PutPlaneLaws
  <2> QED  BY <1>2, <2>2
<1>10. n.physics.layers = u /\ PutPlanes(n, s) = m
       BY <1>1, <1>3, <1>4, <1>5, <1>9, PutPlanesLaws DEF WellFormed
<1>11. TilesPut(a.x, a.old, a.new, t, l.tiles)  BY <1>3, TilesPutBack
<1>12. m = PutPlanes(n, PutPlane(u, i, SetTiles(k, l.tiles)))  BY <1>8, <1>9, <1>10
<1> QED  BY <1>1, <1>4, <1>8, <1>9, <1>10, <1>11, <1>12 DEF PhysicsTilesReplaced

(***************************************************************************)
(* The values of a map: parts of the configuration, attributes and names   *)
(* of a group, the name and the attributes of a layer, one quad or sound.  *)
(***************************************************************************)
PutConfig(m, c, v) == [m EXCEPT !.config[c] = v]

LEMMA PutConfigLaws ==
    ASSUME NEW Q, NEW m \in Map(Q), NEW c \in ConfigParts, NEW v \in Value,
           NEW n, n = PutConfig(m, c, v)
    PROVE  /\ n \in Map(Q) /\ SameRest(m, n)
           /\ n.config[c] = v /\ m.config[c] \in Value
           /\ PutConfig(n, c, m.config[c]) = m
           /\ \A x : PutConfig(n, c, x) = PutConfig(m, c, x)
<1>1. PICK A, B, C : m \in [groups : A, physics : B, lists : C, config : [ConfigParts -> Value]]
                     /\ Map(Q) = [groups : A, physics : B, lists : C, config : [ConfigParts -> Value]]
      BY DEF Map
<1>2. PICK f : f = m.config /\ f \in [ConfigParts -> Value]  BY <1>1
<1>3. PICK h : h = [f EXCEPT ![c] = v]  OBVIOUS
<1>4. /\ h \in [ConfigParts -> Value] /\ h[c] = v /\ f[c] \in Value
      /\ [h EXCEPT ![c] = f[c]] = f
      /\ \A x : [h EXCEPT ![c] = x] = [f EXCEPT ![c] = x]
      BY <1>2, <1>3
<1>5. ASSUME NEW x PROVE PutConfig(m, c, x) = [m EXCEPT !.config = [f EXCEPT ![c] = x]]
      BY <1>2 DEF PutConfig
<1>6. n = [m EXCEPT !.config = h]  BY <1>3, <1>5
<1>7. /\ n \in Map(Q) /\ SameRest(m, n) /\ n.config = h
      /\ \A x : [n EXCEPT !.config = x] = [m EXCEPT !.config = x]
      /\ [n EXCEPT !.config = f] = m
      BY <1>1, <1>2, <1>4, <1>6 DEF SameRest
<1>8. ASSUME NEW x PROVE PutConfig(n, c, x) = [n EXCEPT !.config = [h EXCEPT ![c] = x]]
      BY <1>7 DEF PutConfig
<1>9. PutConfig(n, c, f[c]) = m
  <2>1. PutConfig(n, c, f[c]) = [n EXCEPT !.config = [h EXCEPT ![c] = f[c]]]  BY <1>8
  <2> QED  BY <1>4, <1>7, <2>1
<1>10. ASSUME NEW x PROVE PutConfig(n, c, x) = PutConfig(m, c, x)
  <2>1. PutConfig(n, c, x) = [n EXCEPT !.config = [f EXCEPT ![c] = x]]  BY <1>4, <1>8
  <2> QED  BY <1>5, <1>7, <2>1
<1> QED  BY <1>2, <1>4, <1>7, <1>9, <1>10

GroupAt(m, at) == m.groups[at.side][at.group]
PutGroup(m, at, g) == PutGroups(m, at.side, [m.groups[at.side] EXCEPT ![at.group] = g])

LEMMA PutGroupLaws ==
    ASSUME NEW Q, NEW m \in Map(Q), NEW at \in Place, HasGroup(m, at), NEW g \in Group(Q),
           NEW n, n = PutGroup(m, at, g)
    PROVE  /\ n \in Map(Q) /\ SameRest(m, n)
           /\ HasGroup(n, at) /\ GroupAt(n, at) = g /\ GroupAt(m, at) \in Group(Q)
           /\ PutGroup(n, at, GroupAt(m, at)) = m
           /\ \A h : PutGroup(n, at, h) = PutGroup(m, at, h)
<1>1. PICK side, i : side = at.side /\ i = at.group /\ side \in Side  BY DEF Place
<1>2. PICK gs : gs = m.groups[side] /\ gs \in Seq(Group(Q))  BY <1>1 DEF Map
<1>3. PICK hs : hs = [gs EXCEPT ![i] = g]  OBVIOUS
<1>4. i \in DOMAIN gs  BY <1>1, <1>2 DEF HasGroup
<1>5. /\ hs \in Seq(Group(Q)) /\ DOMAIN hs = DOMAIN gs /\ hs[i] = g /\ gs[i] \in Group(Q)
      /\ [hs EXCEPT ![i] = gs[i]] = gs
      /\ \A x : [hs EXCEPT ![i] = x] = [gs EXCEPT ![i] = x]
      BY <1>2, <1>3, <1>4, SeqPut
<1>6. n = PutGroups(m, side, hs)  BY <1>1, <1>2, <1>3 DEF PutGroup
<1>7. /\ n \in Map(Q) /\ SameRest(m, n) /\ n.groups[side] = hs /\ PutGroups(n, side, gs) = m
      /\ \A x : PutGroups(n, side, x) = PutGroups(m, side, x)
      BY <1>1, <1>2, <1>5, <1>6, PutGroupsLaws
<1>8. HasGroup(n, at) /\ GroupAt(n, at) = g /\ GroupAt(m, at) = gs[i]
      BY <1>1, <1>2, <1>4, <1>5, <1>7 DEF HasGroup, GroupAt
<1>9. ASSUME NEW x PROVE PutGroup(n, at, x) = PutGroups(n, side, [hs EXCEPT ![i] = x])
      BY <1>1, <1>7 DEF PutGroup
<1>10. PutGroup(n, at, gs[i]) = m
  <2>1. PutGroup(n, at, gs[i]) = PutGroups(n, side, [hs EXCEPT ![i] = gs[i]])  BY <1>9
  <2> QED  BY <1>5, <1>7, <2>1
<1>11. ASSUME NEW x PROVE PutGroup(n, at, x) = PutGroup(m, at, x)
  <2>1. PutGroup(n, at, x) = PutGroups(n, side, [gs EXCEPT ![i] = x])  BY <1>5, <1>9
  <2>2. PutGroup(m, at, x) = PutGroups(m, side, [gs EXCEPT ![i] = x])  BY <1>1, <1>2 DEF PutGroup
  <2> QED  BY <1>7, <2>1, <2>2
<1> QED  BY <1>5, <1>7, <1>8, <1>10, <1>11

\* What the nine changes put where: the value in a group, in a layer, in an item list.
SetAttr(k, v) == [k EXCEPT !.attr = v]
SetName(k, v) == [k EXCEPT !.name = v]
SetItem(k, i, v) == SetItems(k, [k.items EXCEPT ![i] = v])

LEMMA GroupValues ==
    ASSUME NEW Q, NEW g \in Group(Q), NEW v \in Value
    PROVE  /\ SetAttr(g, v) \in Group(Q) /\ SetAttr(g, v).attr = v /\ g.attr \in Value
           /\ SetAttr(SetAttr(g, v), g.attr) = g
           /\ \A x : SetAttr(SetAttr(g, v), x) = SetAttr(g, x)
           /\ SetName(g, v) \in Group(Q) /\ SetName(g, v).name = v /\ g.name \in Value
           /\ SetName(SetName(g, v), g.name) = g
           /\ \A x : SetName(SetName(g, v), x) = SetName(g, x)
BY DEF Group, SetAttr, SetName

LEMMA LayerNames ==
    ASSUME NEW Q, NEW l \in Layer(Q), NEW v \in Value
    PROVE  /\ SetName(l, v) \in Layer(Q) /\ SetName(l, v).name = v /\ l.name \in Value
           /\ SetName(SetName(l, v), l.name) = l
           /\ \A x : SetName(SetName(l, v), x) = SetName(l, x)
           /\ SetName(l, v).kind = l.kind
<1> USE DEF SetName
<1>1. CASE l \in TileLayer(Q)
  <2>1. PICK A, B : l \in [kind : {"tile"}, name : Value, attr : A, items : B]
        BY <1>1 DEF TileLayer
  <2>2. /\ SetName(l, v).name = v /\ l.name \in Value
        /\ SetName(SetName(l, v), l.name) = l
        /\ \A x : SetName(SetName(l, v), x) = SetName(l, x)
        /\ SetName(l, v).kind = l.kind
        BY <2>1
  <2>3. SetName(l, v) \in TileLayer(Q)  BY <1>1 DEF TileLayer
  <2> QED  BY <2>2, <2>3 DEF Layer
<1>2. CASE l \in ItemLayer(Q)
  <2>1. PICK A, B : l \in [kind : {"quad", "sound"}, name : Value, attr : A, items : B]
        BY <1>2 DEF ItemLayer
  <2>2. /\ SetName(l, v).name = v /\ l.name \in Value
        /\ SetName(SetName(l, v), l.name) = l
        /\ \A x : SetName(SetName(l, v), x) = SetName(l, x)
        /\ SetName(l, v).kind = l.kind
        BY <2>1
  <2>3. SetName(l, v) \in ItemLayer(Q)  BY <1>2 DEF ItemLayer
  <2> QED  BY <2>2, <2>3 DEF Layer
<1> QED  BY <1>1, <1>2 DEF Layer

LEMMA LayerAttrs ==
    ASSUME NEW Q, NEW l \in Layer(Q), l.kind \in {"quad", "sound"}, NEW v \in [ref : SUBSET Q]
    PROVE  /\ SetAttr(l, v) \in Layer(Q) /\ SetAttr(l, v).attr = v /\ l.attr \in [ref : SUBSET Q]
           /\ SetAttr(SetAttr(l, v), l.attr) = l
           /\ \A x : SetAttr(SetAttr(l, v), x) = SetAttr(l, x)
           /\ SetAttr(l, v).kind = l.kind
<1>1. l \in ItemLayer(Q)  BY ItemLayerOf
<1>2. SetAttr(l, v) \in ItemLayer(Q)  BY <1>1 DEF ItemLayer, SetAttr
<1>3. PICK A, B : l \in [kind : {"quad", "sound"}, name : A, attr : [ref : SUBSET Q], items : B]
      BY <1>1 DEF ItemLayer
<1>4. /\ SetAttr(l, v).attr = v /\ l.attr \in [ref : SUBSET Q]
      /\ SetAttr(SetAttr(l, v), l.attr) = l
      /\ \A x : SetAttr(SetAttr(l, v), x) = SetAttr(l, x)
      /\ SetAttr(l, v).kind = l.kind
      BY <1>3 DEF SetAttr
<1> QED  BY <1>2, <1>4 DEF Layer

LEMMA LayerItems ==
    ASSUME NEW Q, NEW l \in Layer(Q), l.kind \in {"quad", "sound"}, NEW i \in DOMAIN l.items,
           NEW v \in Item(Q), NEW k, k = SetItem(l, i, v)
    PROVE  /\ k \in Layer(Q) /\ k.kind = l.kind /\ DOMAIN k.items = DOMAIN l.items
           /\ k.items[i] = v /\ l.items[i] \in Item(Q)
           /\ SetItem(k, i, l.items[i]) = l
           /\ \A x : SetItem(k, i, x) = SetItem(l, i, x)
<1>1. PICK s : s = l.items /\ s \in Seq(Item(Q))  BY ItemLayerOf
<1>2. PICK t : t = [s EXCEPT ![i] = v]  OBVIOUS
<1>3. /\ t \in Seq(Item(Q)) /\ DOMAIN t = DOMAIN s /\ t[i] = v /\ s[i] \in Item(Q)
      /\ [t EXCEPT ![i] = s[i]] = s
      /\ \A x : [t EXCEPT ![i] = x] = [s EXCEPT ![i] = x]
      BY <1>1, <1>2, SeqPut
<1>4. k = SetItems(l, t)  BY <1>1, <1>2 DEF SetItem
<1>5. k \in Layer(Q) /\ k.items = t /\ k.kind = l.kind
      BY <1>3, <1>4, ItemLayerOf
<1>6. \A x : SetItems(k, x) = SetItems(l, x)  BY <1>4, ItemLayerOf
<1>7. SetItems(k, s) = l  BY <1>1, <1>4, ItemLayerOf
<1>8. ASSUME NEW x PROVE SetItem(k, i, x) = SetItems(k, [t EXCEPT ![i] = x])
      BY <1>5 DEF SetItem
<1>9. SetItem(k, i, s[i]) = l
  <2>1. SetItem(k, i, s[i]) = SetItems(k, [t EXCEPT ![i] = s[i]])  BY <1>8
  <2> QED  BY <1>3, <1>7, <2>1
<1>10. ASSUME NEW x PROVE SetItem(k, i, x) = SetItem(l, i, x)
  <2>1. SetItem(k, i, x) = SetItems(k, [s EXCEPT ![i] = x])  BY <1>3, <1>8
  <2>2. SetItem(l, i, x) = SetItems(l, [s EXCEPT ![i] = x])  BY <1>1 DEF SetItem
  <2> QED  BY <1>6, <2>1, <2>2
<1> QED  BY <1>1, <1>3, <1>5, <1>9, <1>10

(***************************************************************************)
(* A value changed.                                                        *)
(***************************************************************************)
GroupValue == {"group_attr", "group_name"}
LayerValue == {"quad_layer_attr", "sound_layer_attr"}
ItemValue == {"quad_attr", "sound_attr"}
KindOf(what) == IF what \in {"quad_attr", "quad_layer_attr"} THEN "quad" ELSE "sound"

\* There is a value where the action changes one.
Spot(a, m) ==
    /\ a.what \in ConfigParts \cup GroupValue \cup {"layer_name"} \cup LayerValue \cup ItemValue
    /\ a.what \notin ConfigParts => a.at \in Place
    /\ a.what \in GroupValue => HasGroup(m, a.at)
    /\ a.what = "layer_name" => HasLayer(m, a.at)
    /\ a.what \in LayerValue \cup ItemValue =>
          HasLayer(m, a.at) /\ LayerAt(m, a.at).kind = KindOf(a.what)
    /\ a.what \in ItemValue => a.index \in DOMAIN LayerAt(m, a.at).items

\* What may be put there.
Fitting(Q, what, v) ==
    /\ what \in ConfigParts \cup GroupValue \cup {"layer_name"} => v \in Value
    /\ what \in LayerValue => v \in [ref : SUBSET Q]
    /\ what \in ItemValue => v \in Item(Q)

SameSpot(a, b) ==
    /\ b.what = a.what
    /\ a.what \notin ConfigParts => b.at = a.at
    /\ a.what \in ItemValue => b.index = a.index

ValueChanged(a, m, n) ==
    /\ m \in Map(InBounds(m.lists)) /\ Spot(a, m)
    /\ Fitting(InBounds(m.lists), a.what, a.new)
    /\ Current(a, m) = a.old /\ n = Changed(a, m)

LEMMA ChangedConfig ==
    ASSUME NEW Q, NEW m \in Map(Q), NEW a, Spot(a, m), a.what \in ConfigParts,
           Fitting(Q, a.what, a.new), NEW n, n = Changed(a, m)
    PROVE  /\ n \in Map(Q) /\ SameRest(m, n) /\ Fitting(Q, a.what, Current(a, m))
           /\ \A b : SameSpot(a, b) =>
                /\ Spot(b, n) /\ Current(b, n) = a.new /\ Changed(b, n) = Changed(b, m)
                /\ b.new = Current(a, m) => Changed(b, n) = m
<1>1. PICK c : c = a.what  OBVIOUS
<1>2. a.new \in Value  BY DEF Fitting
<1>3. ASSUME NEW b, NEW k, b.what = c
      PROVE  Current(b, k) = k.config[c] /\ Changed(b, k) = PutConfig(k, c, b.new)
      BY <1>1, <1>3 DEF Current, Changed, PutConfig, ConfigParts
<1>4. /\ n \in Map(Q) /\ SameRest(m, n) /\ n.config[c] = a.new /\ m.config[c] \in Value
      /\ PutConfig(n, c, m.config[c]) = m
      /\ \A x : PutConfig(n, c, x) = PutConfig(m, c, x)
      BY <1>1, <1>2, <1>3, PutConfigLaws
<1>5. Fitting(Q, c, Current(a, m))
      BY <1>1, <1>3, <1>4 DEF Fitting, ConfigParts, GroupValue, LayerValue, ItemValue
<1>6. ASSUME NEW b, SameSpot(a, b)
      PROVE  /\ Spot(b, n) /\ Current(b, n) = a.new /\ Changed(b, n) = Changed(b, m)
             /\ b.new = Current(a, m) => Changed(b, n) = m
  <2>1. b.what = c  BY <1>1, <1>6 DEF SameSpot
  <2>2. Spot(b, n)  BY <1>1, <2>1 DEF Spot, ConfigParts, GroupValue, LayerValue, ItemValue
  <2>3. Current(b, n) = a.new /\ Changed(b, n) = PutConfig(n, c, b.new)
        /\ Changed(b, m) = PutConfig(m, c, b.new)
        BY <1>3, <1>4, <2>1
  <2>4. Current(a, m) = m.config[c]  BY <1>1, <1>3
  <2> QED  BY <1>4, <2>2, <2>3, <2>4
<1> QED  BY <1>1, <1>4, <1>5, <1>6

LEMMA ChangedGroup ==
    ASSUME NEW Q, NEW m \in Map(Q), NEW a, Spot(a, m), a.what \in GroupValue,
           Fitting(Q, a.what, a.new), NEW n, n = Changed(a, m)
    PROVE  /\ n \in Map(Q) /\ SameRest(m, n) /\ Fitting(Q, a.what, Current(a, m))
           /\ \A b : SameSpot(a, b) =>
                /\ Spot(b, n) /\ Current(b, n) = a.new /\ Changed(b, n) = Changed(b, m)
                /\ b.new = Current(a, m) => Changed(b, n) = m
<1> DEFINE Get(g) == IF a.what = "group_attr" THEN g.attr ELSE g.name
           Put(g, v) == IF a.what = "group_attr" THEN SetAttr(g, v) ELSE SetName(g, v)
<1>1. PICK at, g, v, h : /\ at = a.at /\ g = GroupAt(m, at) /\ v = a.new /\ h = Put(g, v)
      OBVIOUS
<1>2. v \in Value /\ at \in Place /\ HasGroup(m, at)
      BY <1>1 DEF Fitting, Spot, GroupValue, ConfigParts
<1>3. ASSUME NEW b, NEW k, SameSpot(a, b)
      PROVE  /\ Current(b, k) = Get(GroupAt(k, at))
             /\ Changed(b, k) = PutGroup(k, at, Put(GroupAt(k, at), b.new))
  <2>1. b.what = a.what /\ b.at = at
        BY <1>1, <1>3 DEF SameSpot, GroupValue, ConfigParts
  <2>2. Current(b, k) = Get(GroupAt(k, at))
        BY <2>1 DEF Current, GroupValue, ConfigParts, GroupAt
  <2>3. Changed(b, k) = PutGroup(k, at, Put(GroupAt(k, at), b.new))
        BY <2>1 DEF Changed, GroupValue, ConfigParts, GroupAt, PutGroup, PutGroups, SetAttr, SetName
  <2> QED  BY <2>2, <2>3
<1>4. SameSpot(a, a)  BY DEF SameSpot
<1>5. g \in Group(Q)
  <2>1. ASSUME NEW e \in Group(Q) PROVE GroupAt(m, at) \in Group(Q)  BY <1>2, PutGroupLaws
  <2>2. [name |-> v, attr |-> v, layers |-> <<>>] \in Group(Q)  BY <1>2 DEF Group
  <2> QED  BY <1>1, <2>1, <2>2
<1>6. /\ h \in Group(Q) /\ Get(h) = v /\ Get(g) \in Value /\ Put(h, Get(g)) = g
      /\ \A x : Put(h, x) = Put(g, x)
  <2>1. /\ SetAttr(g, v) \in Group(Q) /\ SetAttr(g, v).attr = v /\ g.attr \in Value
        /\ SetAttr(SetAttr(g, v), g.attr) = g
        /\ \A x : SetAttr(SetAttr(g, v), x) = SetAttr(g, x)
        BY <1>2, <1>5, GroupValues
  <2>2. /\ SetName(g, v) \in Group(Q) /\ SetName(g, v).name = v /\ g.name \in Value
        /\ SetName(SetName(g, v), g.name) = g
        /\ \A x : SetName(SetName(g, v), x) = SetName(g, x)
        BY <1>2, <1>5, GroupValues
  <2>3. CASE a.what = "group_attr"
    <3>1. h = SetAttr(g, v)  BY <1>1, <2>3
    <3> QED  BY <2>1, <2>3, <3>1
  <2>4. CASE a.what # "group_attr"
    <3>1. h = SetName(g, v)  BY <1>1, <2>4
    <3> QED  BY <2>2, <2>4, <3>1
  <2> QED  BY <2>3, <2>4
<1> HIDE DEF Get, Put
<1>7. n = PutGroup(m, at, h)  BY <1>1, <1>3, <1>4
<1>8. /\ n \in Map(Q) /\ SameRest(m, n) /\ HasGroup(n, at) /\ GroupAt(n, at) = h
      /\ PutGroup(n, at, g) = m
      /\ \A x : PutGroup(n, at, x) = PutGroup(m, at, x)
      BY <1>1, <1>2, <1>6, <1>7, PutGroupLaws
<1>9. Current(a, m) = Get(g)  BY <1>1, <1>3, <1>4
<1>10. Fitting(Q, a.what, Current(a, m))
       BY <1>6, <1>9 DEF Fitting, ConfigParts, GroupValue, LayerValue, ItemValue
<1>11. ASSUME NEW b, SameSpot(a, b)
      PROVE  /\ Spot(b, n) /\ Current(b, n) = a.new /\ Changed(b, n) = Changed(b, m)
             /\ b.new = Current(a, m) => Changed(b, n) = m
  <2>1. b.what = a.what /\ b.at = at
        BY <1>1, <1>11 DEF SameSpot, GroupValue, ConfigParts
  <2>2. Spot(b, n)
        BY <1>2, <1>8, <2>1 DEF Spot, ConfigParts, GroupValue, LayerValue, ItemValue
  <2>3. Current(b, n) = Get(GroupAt(n, at))  BY <1>11, <1>3
  <2>4. Changed(b, n) = PutGroup(n, at, Put(GroupAt(n, at), b.new))  BY <1>11, <1>3
  <2>5. Changed(b, m) = PutGroup(m, at, Put(GroupAt(m, at), b.new))  BY <1>11, <1>3
  <2>6. Put(h, b.new) = Put(g, b.new)  BY <1>6
  <2>7. Changed(b, n) = Changed(b, m)  BY <1>1, <1>8, <2>4, <2>5, <2>6
  <2>8. b.new = Current(a, m) => Changed(b, n) = m  BY <1>6, <1>8, <1>9, <2>4
  <2> QED  BY <1>1, <1>6, <1>8, <2>2, <2>3, <2>7, <2>8
<1> QED  BY <1>8, <1>10, <1>11

\* The three changes of a layer.
LEMMA ChangedLayer ==
    ASSUME NEW Q, NEW m \in Map(Q), NEW a, Spot(a, m),
           a.what \in {"layer_name"} \cup LayerValue \cup ItemValue,
           Fitting(Q, a.what, a.new), NEW n, n = Changed(a, m)
    PROVE  /\ n \in Map(Q) /\ SameRest(m, n) /\ Fitting(Q, a.what, Current(a, m))
           /\ \A b : SameSpot(a, b) =>
                /\ Spot(b, n) /\ Current(b, n) = a.new /\ Changed(b, n) = Changed(b, m)
                /\ b.new = Current(a, m) => Changed(b, n) = m
<1> DEFINE Get(l) == IF a.what = "layer_name" THEN l.name
                     ELSE IF a.what \in LayerValue THEN l.attr ELSE l.items[a.index]
           Put(l, v) == IF a.what = "layer_name" THEN SetName(l, v)
                        ELSE IF a.what \in LayerValue THEN SetAttr(l, v) ELSE SetItem(l, a.index, v)
<1>1. PICK at, l, v, h : /\ at = a.at /\ l = LayerAt(m, at) /\ v = a.new /\ h = Put(l, v)
      OBVIOUS
<1>2. at \in Place /\ HasLayer(m, at) /\ l \in Layer(Q)
  <2>1. at \in Place /\ HasLayer(m, at)
        BY <1>1 DEF Spot, LayerValue, ItemValue, ConfigParts
  <2> QED  BY <1>1, <2>1, LayerOfMap
<1>3. ASSUME NEW b, NEW k, SameSpot(a, b)
      PROVE  /\ Current(b, k) = Get(LayerAt(k, at))
             /\ Changed(b, k) = PutLayer(k, at, Put(LayerAt(k, at), b.new))
  <2>1. b.what = a.what /\ b.at = at /\ (a.what \in ItemValue => b.index = a.index)
        BY <1>1, <1>3 DEF SameSpot, LayerValue, ItemValue, ConfigParts
  <2>2. Current(b, k) = Get(LayerAt(k, at))
        BY <2>1 DEF Current, LayerValue, ItemValue, ConfigParts
  <2>3. Changed(b, k) = PutLayer(k, at, Put(LayerAt(k, at), b.new))
        BY <2>1 DEF Changed, LayerValue, ItemValue, ConfigParts, SetAttr, SetName, SetItem, SetItems
  <2> QED  BY <2>2, <2>3
<1>4. SameSpot(a, a)  BY DEF SameSpot
<1>5. /\ h \in Layer(Q) /\ Get(h) = v /\ Fitting(Q, a.what, Get(l)) /\ Put(h, Get(l)) = l
      /\ \A x : Put(h, x) = Put(l, x)
      /\ h.kind = l.kind /\ (a.what \in ItemValue => DOMAIN h.items = DOMAIN l.items)
  <2>1. CASE a.what = "layer_name"
    <3>1. v \in Value  BY <1>1, <2>1 DEF Fitting
    <3>2. h = SetName(l, v)  BY <1>1, <2>1
    <3>3. /\ h \in Layer(Q) /\ h.name = v /\ l.name \in Value /\ SetName(h, l.name) = l
          /\ \A x : SetName(h, x) = SetName(l, x)
          /\ h.kind = l.kind
      <4>1. /\ SetName(l, v) \in Layer(Q) /\ SetName(l, v).name = v /\ l.name \in Value
            /\ SetName(SetName(l, v), l.name) = l
            /\ \A x : SetName(SetName(l, v), x) = SetName(l, x)
            /\ SetName(l, v).kind = l.kind
            BY <1>2, <3>1, LayerNames
      <4> HIDE DEF Get, Put
      <4> QED  BY <3>2, <4>1
    <3>4. Fitting(Q, a.what, Get(l))
          BY <2>1, <3>3 DEF Fitting, ConfigParts, GroupValue, LayerValue, ItemValue
    <3> QED  BY <2>1, <3>3, <3>4 DEF ItemValue
  <2>2. CASE a.what \in LayerValue
    <3>1. v \in [ref : SUBSET Q]  BY <1>1, <2>2 DEF Fitting
    <3>2. h = SetAttr(l, v)  BY <1>1, <2>2 DEF LayerValue
    <3>3. l.kind \in {"quad", "sound"}  BY <1>1, <2>2 DEF Spot, KindOf
    <3>4. /\ h \in Layer(Q) /\ h.attr = v /\ l.attr \in [ref : SUBSET Q] /\ SetAttr(h, l.attr) = l
          /\ \A x : SetAttr(h, x) = SetAttr(l, x)
          /\ h.kind = l.kind
      <4>1. /\ SetAttr(l, v) \in Layer(Q) /\ SetAttr(l, v).attr = v /\ l.attr \in [ref : SUBSET Q]
            /\ SetAttr(SetAttr(l, v), l.attr) = l
            /\ \A x : SetAttr(SetAttr(l, v), x) = SetAttr(l, x)
            /\ SetAttr(l, v).kind = l.kind
            BY <1>2, <3>1, <3>3, LayerAttrs
      <4> HIDE DEF Get, Put
      <4> QED  BY <3>2, <4>1
    <3>5. Fitting(Q, a.what, Get(l))
          BY <2>2, <3>4 DEF Fitting, ConfigParts, GroupValue, LayerValue, ItemValue
    <3> QED  BY <2>2, <3>4, <3>5 DEF LayerValue, ItemValue
  <2>3. CASE a.what \in ItemValue
    <3>1. v \in Item(Q)  BY <1>1, <2>3 DEF Fitting
    <3>2. h = SetItem(l, a.index, v)  BY <1>1, <2>3 DEF LayerValue, ItemValue
    <3>3. l.kind \in {"quad", "sound"} /\ a.index \in DOMAIN l.items
          BY <1>1, <2>3 DEF Spot, KindOf
    <3>4. /\ h \in Layer(Q) /\ h.kind = l.kind /\ DOMAIN h.items = DOMAIN l.items
          /\ h.items[a.index] = v /\ l.items[a.index] \in Item(Q)
          /\ SetItem(h, a.index, l.items[a.index]) = l
          /\ \A x : SetItem(h, a.index, x) = SetItem(l, a.index, x)
      <4> HIDE DEF Get, Put
      <4>1. PICK i, k : i = a.index /\ k = SetItem(l, i, v)  OBVIOUS
      <4>2. /\ k \in Layer(Q) /\ k.kind = l.kind /\ DOMAIN k.items = DOMAIN l.items
            /\ k.items[i] = v /\ l.items[i] \in Item(Q)
            /\ SetItem(k, i, l.items[i]) = l
            /\ \A x : SetItem(k, i, x) = SetItem(l, i, x)
            BY <1>2, <3>1, <3>3, <4>1, LayerItems
      <4> QED  BY <3>2, <4>1, <4>2
    <3>5. Fitting(Q, a.what, Get(l))
          BY <2>3, <3>4 DEF Fitting, ConfigParts, GroupValue, LayerValue, ItemValue
    <3> QED  BY <2>3, <3>4, <3>5 DEF LayerValue, ItemValue
  <2> QED  BY <2>1, <2>2, <2>3
<1> HIDE DEF Get, Put
<1>7. n = PutLayer(m, at, h)  BY <1>1, <1>3, <1>4
<1>8. /\ n \in Map(Q) /\ SameRest(m, n) /\ HasLayer(n, at) /\ LayerAt(n, at) = h
      /\ PutLayer(n, at, l) = m
      /\ \A x : PutLayer(n, at, x) = PutLayer(m, at, x)
  <2>1. PICK k : k = h /\ k \in Layer(Q)  BY <1>5
  <2>2. /\ PutLayer(m, at, k) \in Map(Q) /\ SameRest(m, PutLayer(m, at, k))
        /\ HasLayer(PutLayer(m, at, k), at) /\ LayerAt(PutLayer(m, at, k), at) = k
        /\ PutLayer(PutLayer(m, at, k), at, LayerAt(m, at)) = m
        /\ \A x : PutLayer(PutLayer(m, at, k), at, x) = PutLayer(m, at, x)
        BY <1>2, <2>1, PutLayerLaws
  <2> QED  BY <1>1, <1>7, <2>1, <2>2
<1>9. Current(a, m) = Get(l)  BY <1>1, <1>3, <1>4
<1>10. Fitting(Q, a.what, Current(a, m))  BY <1>5, <1>9
<1>11. ASSUME NEW b, SameSpot(a, b)
      PROVE  /\ Spot(b, n) /\ Current(b, n) = a.new /\ Changed(b, n) = Changed(b, m)
             /\ b.new = Current(a, m) => Changed(b, n) = m
  <2>1. b.what = a.what /\ b.at = at /\ (a.what \in ItemValue => b.index = a.index)
        BY <1>1, <1>11 DEF SameSpot, LayerValue, ItemValue, ConfigParts
  <2>2. Spot(b, n)
        BY <1>1, <1>2, <1>5, <1>8, <2>1 DEF Spot, ConfigParts, GroupValue, LayerValue, ItemValue
  <2>3. Current(b, n) = Get(LayerAt(n, at))  BY <1>11, <1>3
  <2>4. Changed(b, n) = PutLayer(n, at, Put(LayerAt(n, at), b.new))  BY <1>11, <1>3
  <2>5. Changed(b, m) = PutLayer(m, at, Put(LayerAt(m, at), b.new))  BY <1>11, <1>3
  <2>6. Put(h, b.new) = Put(l, b.new)  BY <1>5
  <2>7. Changed(b, n) = Changed(b, m)  BY <1>1, <1>8, <2>4, <2>5, <2>6
  <2>8. b.new = Current(a, m) => Changed(b, n) = m  BY <1>5, <1>8, <1>9, <2>4
  <2> QED  BY <1>1, <1>5, <1>8, <2>2, <2>3, <2>7, <2>8
<1> QED  BY <1>8, <1>10, <1>11

LEMMA ChangedLaws ==
    ASSUME NEW Q, NEW m \in Map(Q), NEW a, Spot(a, m), Fitting(Q, a.what, a.new),
           NEW n, n = Changed(a, m)
    PROVE  /\ n \in Map(Q) /\ SameRest(m, n) /\ Fitting(Q, a.what, Current(a, m))
           /\ \A b : SameSpot(a, b) =>
                /\ Spot(b, n) /\ Current(b, n) = a.new /\ Changed(b, n) = Changed(b, m)
                /\ b.new = Current(a, m) => Changed(b, n) = m
<1>1. a.what \in ConfigParts \/ a.what \in GroupValue
      \/ a.what \in {"layer_name"} \cup LayerValue \cup ItemValue
      BY DEF Spot
<1>2. CASE a.what \in ConfigParts  BY <1>2, ChangedConfig
<1>3. CASE a.what \in GroupValue  BY <1>3, ChangedGroup
<1>4. CASE a.what \in {"layer_name"} \cup LayerValue \cup ItemValue  BY <1>4, ChangedLayer
<1> QED  BY <1>1, <1>2, <1>3, <1>4

LEMMA ChangeBack ==
    ASSUME NEW a, NEW b, NEW m, NEW n, ValueChanged(a, m, n), SameSpot(a, b),
           b.old = a.new, b.new = a.old
    PROVE  ValueChanged(b, n, m)
<1>1. PICK Q : Q = InBounds(m.lists)  OBVIOUS
<1>2. /\ m \in Map(Q) /\ Spot(a, m) /\ Fitting(Q, a.what, a.new)
      /\ Current(a, m) = a.old /\ n = Changed(a, m)
      BY <1>1 DEF ValueChanged
<1>3. /\ n \in Map(Q) /\ SameRest(m, n) /\ Fitting(Q, a.what, Current(a, m))
      /\ Spot(b, n) /\ Current(b, n) = a.new /\ (b.new = Current(a, m) => Changed(b, n) = m)
      BY <1>2, ChangedLaws
<1>4. b.what = a.what  BY DEF SameSpot
<1>5. InBounds(n.lists) = Q  BY <1>1, <1>3 DEF SameRest
<1> QED  BY <1>2, <1>3, <1>4, <1>5 DEF ValueChanged

LEMMA ChangeMerged ==
    ASSUME NEW a, NEW b, NEW c, NEW m, NEW n, NEW p, ValueChanged(a, m, n), ValueChanged(b, n, p),
           SameSpot(a, b), SameSpot(a, c), c.old = a.old, c.new = b.new
    PROVE  ValueChanged(c, m, p)
<1>1. PICK Q : Q = InBounds(m.lists)  OBVIOUS
<1>2. /\ m \in Map(Q) /\ Spot(a, m) /\ Fitting(Q, a.what, a.new)
      /\ Current(a, m) = a.old /\ n = Changed(a, m)
      BY <1>1 DEF ValueChanged
<1>3. SameRest(m, n) /\ Changed(b, n) = Changed(b, m) /\ Changed(c, n) = Changed(c, m)
      BY <1>2, ChangedLaws
<1>4. InBounds(n.lists) = Q  BY <1>1, <1>3 DEF SameRest
<1>5. Fitting(Q, b.what, b.new) /\ p = Changed(b, n)  BY <1>4 DEF ValueChanged
<1>6. c.what = a.what /\ b.what = a.what  BY DEF SameSpot
<1>7. Spot(c, m) /\ Current(c, m) = Current(a, m)
  <2>1. Spot(c, m)
        BY <1>2 DEF Spot, SameSpot, ConfigParts, GroupValue, LayerValue, ItemValue
  <2>2. Current(c, m) = Current(a, m)
        BY <1>2 DEF Spot, SameSpot, Current, ConfigParts, GroupValue, LayerValue, ItemValue
  <2> QED  BY <2>1, <2>2
<1>8. Changed(c, m) = Changed(b, m)
      BY <1>2 DEF Spot, SameSpot, Changed, ConfigParts, GroupValue, LayerValue, ItemValue
<1> QED  BY <1>1, <1>2, <1>3, <1>5, <1>6, <1>7, <1>8 DEF ValueChanged

LEMMA ChangeDone ==
    ASSUME NEW a \in ChangeAction, NEW m, WellFormed(m), NEW d, d = DoChange(a, m, TRUE), d.ok
    PROVE  d.act \in ChangeAction /\ WellFormed(d.map) /\ ValueChanged(d.act, m, d.map)
<1> USE DEF ConfigChange, NameChange, AttrChange, ItemChange
<1>1. PICK Q, v, n, b : /\ Q = InBounds(m.lists) /\ v = Current(a, m) /\ n = Changed(a, m)
                        /\ b = [a EXCEPT !.old = v]
      OBVIOUS
<1>2. m \in Map(Q) /\ Q \subseteq Ref  BY <1>1 DEF WellFormed, InBounds
<1>3. d = Done(n, b) /\ Changeable(a, m)  BY <1>1, DoneFields DEF DoChange
<1>4. Spot(a, m) /\ Fitting(Q, a.what, a.new)
  <2>1. CASE a \in ConfigChange
        BY <2>1 DEF Spot, Fitting, ConfigParts, GroupValue, LayerValue, ItemValue
  <2>2. CASE a \in NameChange
        BY <1>3, <2>2 DEF Spot, Fitting, ConfigParts, GroupValue, LayerValue, ItemValue, Changeable
  <2>3. CASE a \in AttrChange
    <3>1. a.what \in LayerValue /\ a.at \in Place /\ a.new \in [ref : SUBSET Ref]
          BY <2>3 DEF LayerValue
    <3>2. IsLayer(m, a.at, {KindOf(a.what)}) /\ RefsInBounds(m, a.new.ref)
          BY <1>3, <3>1 DEF Changeable, LayerValue, ConfigParts, KindOf
    <3>3. a.new \in [ref : SUBSET Q]
      <4>1. a.new.ref \subseteq Q  BY <1>1, <3>1, <3>2, RefSetFits
      <4> QED  BY <3>1, <4>1
    <3> QED  BY <3>1, <3>2, <3>3 DEF Spot, Fitting, ConfigParts, GroupValue, LayerValue, ItemValue, IsLayer
  <2>4. CASE a \in ItemChange
    <3>1. a.what \in ItemValue /\ a.at \in Place /\ a.new \in Item(Ref)
          BY <2>4 DEF ItemValue
    <3>2. /\ IsLayer(m, a.at, {KindOf(a.what)}) /\ RefsInBounds(m, a.new.ref)
          /\ a.index \in DOMAIN LayerAt(m, a.at).items
          BY <1>3, <3>1 DEF Changeable, ItemValue, ConfigParts, KindOf
    <3>3. a.new \in Item(Q)
      <4>1. a.new.ref \in SUBSET Ref  BY <3>1 DEF Item
      <4>2. a.new.ref \subseteq Q  BY <1>1, <3>2, <4>1, RefSetFits
      <4> QED  BY <3>1, <4>2 DEF Item
    <3> QED  BY <3>1, <3>2, <3>3 DEF Spot, Fitting, ConfigParts, GroupValue, LayerValue, ItemValue, IsLayer
  <2> QED  BY <2>1, <2>2, <2>3, <2>4 DEF ChangeAction
<1>5. /\ n \in Map(Q) /\ SameRest(m, n) /\ Fitting(Q, a.what, v)
      BY <1>1, <1>2, <1>4, ChangedLaws
<1>6. WellFormed(n)  BY <1>1, <1>5, StaysWellFormed
<1>7. /\ b \in ChangeAction /\ SameSpot(a, b) /\ b.new = a.new /\ b.old = v
  <2>1. CASE a \in ConfigChange
    <3>1. v \in Value  BY <1>5, <2>1 DEF Fitting
    <3>2. b \in ConfigChange
          /\ b.what = a.what /\ b.new = a.new /\ b.old = v
          BY <1>1, <2>1, <3>1
    <3> QED  BY <2>1, <3>2 DEF ChangeAction, SameSpot, ConfigParts, ItemValue
  <2>2. CASE a \in NameChange
    <3>1. v \in Value  BY <1>5, <2>2 DEF Fitting, GroupValue
    <3>2. b \in NameChange
          /\ b.what = a.what /\ b.at = a.at /\ b.new = a.new /\ b.old = v
          BY <1>1, <2>2, <3>1
    <3> QED  BY <2>2, <3>2 DEF ChangeAction, SameSpot, ConfigParts, ItemValue
  <2>3. CASE a \in AttrChange
    <3>1. v \in [ref : SUBSET Ref]  BY <1>2, <1>5, <2>3 DEF Fitting, LayerValue
    <3>2. b \in AttrChange
          /\ b.what = a.what /\ b.at = a.at /\ b.new = a.new /\ b.old = v
          BY <1>1, <2>3, <3>1
    <3> QED  BY <2>3, <3>2 DEF ChangeAction, SameSpot, ConfigParts, ItemValue
  <2>4. CASE a \in ItemChange
    <3>1. v \in Item(Ref)  BY <1>2, <1>5, <2>4 DEF Fitting, ItemValue, Item
    <3>2. b \in ItemChange
          /\ b.what = a.what /\ b.at = a.at /\ b.index = a.index /\ b.new = a.new /\ b.old = v
          BY <1>1, <2>4, <3>1
    <3> QED  BY <2>4, <3>2 DEF ChangeAction, SameSpot, ConfigParts, ItemValue
  <2> QED  BY <2>1, <2>2, <2>3, <2>4 DEF ChangeAction
<1>8. Spot(b, m) /\ Current(b, m) = v /\ Changed(b, m) = n
  <2>1. Spot(b, m)
        BY <1>4, <1>7 DEF Spot, SameSpot, ConfigParts, GroupValue, LayerValue, ItemValue
  <2>2. Current(b, m) = Current(a, m)
        BY <1>4, <1>7 DEF Spot, SameSpot, Current, ConfigParts, GroupValue, LayerValue, ItemValue
  <2>3. Changed(b, m) = Changed(a, m)
        BY <1>4, <1>7 DEF Spot, SameSpot, Changed, ConfigParts, GroupValue, LayerValue, ItemValue
  <2> QED  BY <1>1, <2>1, <2>2, <2>3
<1>9. ValueChanged(b, m, n)  BY <1>1, <1>2, <1>4, <1>7, <1>8 DEF ValueChanged, SameSpot
<1>10. d.act = b /\ d.map = n  BY <1>3, DoneIs
<1> QED  BY <1>6, <1>7, <1>9, <1>10

LEMMA ChangeRedone ==
    ASSUME NEW a, NEW m, NEW n, ValueChanged(a, m, n)
    PROVE  DoChange(a, m, FALSE).ok /\ DoChange(a, m, FALSE).map = n
<1>1. /\ Spot(a, m) /\ Fitting(InBounds(m.lists), a.what, a.new)
      /\ Current(a, m) = a.old /\ n = Changed(a, m)
      BY DEF ValueChanged
<1>2. Changeable(a, m)
  <2>1. CASE a.what \in ConfigParts  BY <2>1 DEF Changeable, ConfigParts
  <2>2. CASE a.what \in GroupValue
        BY <1>1, <2>2 DEF Changeable, Spot, GroupValue, ConfigParts
  <2>3. CASE a.what = "layer_name"
        BY <1>1, <2>3 DEF Changeable, Spot, ConfigParts
  <2>4. CASE a.what \in LayerValue
    <3>1. RefsInBounds(m, a.new.ref)
          BY <1>1, <2>4 DEF Fitting, RefsInBounds, InBounds
    <3>2. IsLayer(m, a.at, {KindOf(a.what)})  BY <1>1, <2>4 DEF Spot, IsLayer
    <3> QED  BY <2>4, <3>1, <3>2 DEF Changeable, LayerValue, ConfigParts, KindOf
  <2>5. CASE a.what \in ItemValue
    <3>1. RefsInBounds(m, a.new.ref)
          BY <1>1, <2>5 DEF Fitting, RefsInBounds, InBounds, Item
    <3>2. IsLayer(m, a.at, {KindOf(a.what)}) /\ a.index \in DOMAIN LayerAt(m, a.at).items
          BY <1>1, <2>5 DEF Spot, IsLayer
    <3> QED  BY <2>5, <3>1, <3>2 DEF Changeable, ItemValue, ConfigParts, KindOf
  <2> QED  BY <1>1, <2>1, <2>2, <2>3, <2>4, <2>5 DEF Spot
<1>3. DoChange(a, m, FALSE) = Done(n, [a EXCEPT !.old = a.old])  BY <1>1, <1>2 DEF DoChange
<1>4. PICK b : DoChange(a, m, FALSE) = Done(n, b)  BY <1>3
<1> QED  BY <1>4, DoneFields

(***************************************************************************)
(* What an action has done: the map n comes out of m by the action.  A     *)
(* removal is what it removed, added the other way round.                  *)
(***************************************************************************)
Effect(a, m, n) ==
    /\ a.op = "MoveGroup" => GroupMoved(a, m, n)
    /\ a.op = "MoveLayer" => LayerMoved(a, m, n)
    /\ a.op \in {"AddResource", "AddAnim"} => ListAdded(a, m, n)
    /\ a.op \in {"RemResource", "RemAnim"} => ListAdded(a, n, m)
    /\ a.op = "LayerChangeImage" => ImageChanged(a, m, n)
    /\ a.op = "AddItems" => ItemsAdded(a, m, n)
    /\ a.op = "RemItems" => ItemsAdded(a, n, m)
    /\ a.op = "AddLayer" => LayerAdded(a, m, n)
    /\ a.op = "RemLayer" => LayerAdded(a, n, m)
    /\ a.op = "AddGroup" => GroupAdded(a, m, n)
    /\ a.op = "RemGroup" => GroupAdded(a, n, m)
    /\ a.op = "AddPhysicsLayer" => PhysicsAdded(a, m, n)
    /\ a.op = "RemPhysicsLayer" => PhysicsAdded(a, n, m)
    /\ a.op = "ReplaceTiles" => TilesReplaced(a, m, n)
    /\ a.op = "ReplacePhysicsTiles" => PhysicsTilesReplaced(a, m, n)
    /\ a.op = "Change" => ValueChanged(a, m, n)

ExactOps ==
    {"MoveGroup", "MoveLayer", "AddResource", "RemResource", "AddAnim", "RemAnim",
     "LayerChangeImage", "AddItems", "RemItems", "AddLayer", "RemLayer", "AddGroup", "RemGroup",
     "AddPhysicsLayer", "RemPhysicsLayer", "ReplaceTiles", "ReplacePhysicsTiles", "Change"}

\* The type of an action is known by its name.
LEMMA ActionKinds ==
    ASSUME NEW a \in ExactAction
    PROVE  /\ a.op \in ExactOps
           /\ a.op \in {"MoveGroup", "MoveLayer"} => a \in MoveAction
           /\ a.op \in {"AddResource", "RemResource"} => a \in FileAction
           /\ a.op \in {"AddAnim", "RemAnim"} => a \in AnimAction
           /\ a.op = "LayerChangeImage" => a \in ImageAction
           /\ a.op \in {"AddItems", "RemItems"} => a \in ItemAction
           /\ a.op \in {"AddLayer", "RemLayer"} => a \in LayerAction
           /\ a.op \in {"AddGroup", "RemGroup"} => a \in GroupAction
           /\ a.op \in {"AddPhysicsLayer", "RemPhysicsLayer"} => a \in PhysicsLayerAction
           /\ a.op = "ReplaceTiles" => a \in TileAction
           /\ a.op = "ReplacePhysicsTiles" => a \in PhysicsTileAction
           /\ a.op = "Change" => a \in ChangeAction
<1> USE DEF ConfigChange, NameChange, AttrChange, ItemChange
<1>1. /\ a \in MoveAction => a.op \in {"MoveGroup", "MoveLayer"}
      /\ a \in FileAction => a.op \in {"AddResource", "RemResource"}
      /\ a \in AnimAction => a.op \in {"AddAnim", "RemAnim"}
      /\ a \in ImageAction => a.op = "LayerChangeImage"
      BY DEF MoveAction, FileAction, AnimAction, ImageAction
<1>2. /\ a \in ItemAction => a.op \in {"AddItems", "RemItems"}
      /\ a \in LayerAction => a.op \in {"AddLayer", "RemLayer"}
      BY DEF ItemAction, LayerAction
<1>3. a \in GroupAction => a.op \in {"AddGroup", "RemGroup"}  BY DEF GroupAction
<1>4. /\ a \in PhysicsLayerAction => a.op \in {"AddPhysicsLayer", "RemPhysicsLayer"}
      /\ a \in TileAction => a.op = "ReplaceTiles"
      /\ a \in PhysicsTileAction => a.op = "ReplacePhysicsTiles"
      BY DEF PhysicsLayerAction, TileAction, PhysicsTileAction
<1>5. a \in ChangeAction => a.op = "Change"  BY DEF ChangeAction
<1> QED  BY <1>1, <1>2, <1>3, <1>4, <1>5 DEF ExactAction, ExactOps

\* do_action's dispatch.
LEMMA Dispatch ==
    ASSUME NEW a, NEW m, NEW fix
    PROVE  /\ a.op = "MoveGroup" => DoAction(a, m, fix) = DoMoveGroup(a, m)
           /\ a.op = "MoveLayer" => DoAction(a, m, fix) = DoMoveLayer(a, m)
           /\ a.op = "AddResource" => DoAction(a, m, fix) = DoAddResource(a, m)
           /\ a.op = "RemResource" => DoAction(a, m, fix) = DoRemResource(a, m)
           /\ a.op \in {"AddAnim", "RemAnim"} => DoAction(a, m, fix) = DoAnim(a, m, fix)
           /\ a.op = "LayerChangeImage" => DoAction(a, m, fix) = DoLayerChangeImage(a, m)
           /\ a.op = "AddItems" => DoAction(a, m, fix) = DoAddItems(a, m)
           /\ a.op = "RemItems" => DoAction(a, m, fix) = DoRemItems(a, m, fix)
           /\ a.op = "AddLayer" => DoAction(a, m, fix) = DoAddLayer(a, m)
           /\ a.op = "RemLayer" => DoAction(a, m, fix) = DoRemLayer(a, m, fix)
           /\ a.op = "AddGroup" => DoAction(a, m, fix) = DoAddGroup(a, m)
           /\ a.op = "RemGroup" => DoAction(a, m, fix) = DoRemGroup(a, m, fix)
           /\ a.op = "AddPhysicsLayer" => DoAction(a, m, fix) = DoAddPhysicsLayer(a, m)
           /\ a.op = "RemPhysicsLayer" => DoAction(a, m, fix) = DoRemPhysicsLayer(a, m, fix)
           /\ a.op = "ReplaceTiles" => DoAction(a, m, fix) = DoReplaceTiles(a, m, fix)
           /\ a.op = "ReplacePhysicsTiles" => DoAction(a, m, fix) = DoReplacePhysicsTiles(a, m, fix)
           /\ a.op = "Change" => DoAction(a, m, fix) = DoChange(a, m, fix)
BY DEF DoAction

\* What is undone is moved back, removed, added again or changed back.
LEMMA UndoForms ==
    ASSUME NEW a
    PROVE  /\ a.op \in {"MoveGroup", "MoveLayer"} =>
                UndoForm(a) = [a EXCEPT !.from = a.to, !.to = a.from]
           /\ \A o \in AddOps :
                /\ a.op = o => UndoForm(a) = [a EXCEPT !.op = RemoveOf[o]]
                /\ a.op = RemoveOf[o] => UndoForm(a) = [a EXCEPT !.op = o]
           /\ a.op \in {"LayerChangeImage", "ReplaceTiles", "ReplacePhysicsTiles", "Change"} =>
                UndoForm(a) = [a EXCEPT !.old = a.new, !.new = a.old]
<1>1. /\ AddOps \cap RemOps = {}
      /\ (AddOps \cup RemOps) \cap
           {"MoveGroup", "MoveLayer", "TileLayerAttr", "PhysicsGroupAttr", "ReplAnim"} = {}
      /\ \A o \in AddOps : RemoveOf[o] \in RemOps
      /\ (AddOps \cup RemOps) \cap
           {"LayerChangeImage", "ReplaceTiles", "ReplacePhysicsTiles", "Change"} = {}
      BY DEF RemOps, RemoveOf, AddOps
<1>2. \A p, q \in AddOps : RemoveOf[p] = RemoveOf[q] => p = q
      BY DEF RemoveOf, AddOps
<1>3. a.op \in {"MoveGroup", "MoveLayer"} =>
        UndoForm(a) = [a EXCEPT !.from = a.to, !.to = a.from]
      BY <1>1 DEF UndoForm
<1>4. ASSUME NEW o \in AddOps, a.op = o PROVE UndoForm(a) = [a EXCEPT !.op = RemoveOf[o]]
  <2>1. UndoForm(a) = [a EXCEPT !.op = RemoveOf[@]]  BY <1>1, <1>4 DEF UndoForm
  <2> QED  BY <1>4, <2>1
<1>5. ASSUME NEW o \in AddOps, a.op = RemoveOf[o] PROVE UndoForm(a) = [a EXCEPT !.op = o]
  <2>1. UndoForm(a) = [a EXCEPT !.op = CHOOSE p \in AddOps : RemoveOf[p] = a.op]
        BY <1>1, <1>5 DEF UndoForm
  <2>2. (CHOOSE p \in AddOps : RemoveOf[p] = a.op) = o  BY <1>2, <1>5
  <2> QED  BY <2>1, <2>2
<1>6. a.op \in {"LayerChangeImage", "ReplaceTiles", "ReplacePhysicsTiles", "Change"} =>
        UndoForm(a) = [a EXCEPT !.old = a.new, !.new = a.old]
      BY <1>1 DEF UndoForm
<1> QED  BY <1>3, <1>4, <1>5, <1>6

(***************************************************************************)
(* Doing, redoing and undoing an action: all kinds of actions together.    *)
(***************************************************************************)
LEMMA EffectForms ==
    ASSUME NEW a, NEW m, NEW n
    PROVE  /\ a.op = "MoveGroup" => (Effect(a, m, n) <=> GroupMoved(a, m, n))
           /\ a.op = "MoveLayer" => (Effect(a, m, n) <=> LayerMoved(a, m, n))
           /\ a.op \in {"AddResource", "AddAnim"} => (Effect(a, m, n) <=> ListAdded(a, m, n))
           /\ a.op \in {"RemResource", "RemAnim"} => (Effect(a, m, n) <=> ListAdded(a, n, m))
           /\ a.op = "LayerChangeImage" => (Effect(a, m, n) <=> ImageChanged(a, m, n))
           /\ a.op = "AddItems" => (Effect(a, m, n) <=> ItemsAdded(a, m, n))
           /\ a.op = "RemItems" => (Effect(a, m, n) <=> ItemsAdded(a, n, m))
           /\ a.op = "AddLayer" => (Effect(a, m, n) <=> LayerAdded(a, m, n))
           /\ a.op = "RemLayer" => (Effect(a, m, n) <=> LayerAdded(a, n, m))
           /\ a.op = "AddGroup" => (Effect(a, m, n) <=> GroupAdded(a, m, n))
           /\ a.op = "RemGroup" => (Effect(a, m, n) <=> GroupAdded(a, n, m))
           /\ a.op = "AddPhysicsLayer" => (Effect(a, m, n) <=> PhysicsAdded(a, m, n))
           /\ a.op = "RemPhysicsLayer" => (Effect(a, m, n) <=> PhysicsAdded(a, n, m))
           /\ a.op = "ReplaceTiles" => (Effect(a, m, n) <=> TilesReplaced(a, m, n))
           /\ a.op = "ReplacePhysicsTiles" => (Effect(a, m, n) <=> PhysicsTilesReplaced(a, m, n))
           /\ a.op = "Change" => (Effect(a, m, n) <=> ValueChanged(a, m, n))
BY DEF Effect

\* An allowed action, done with fixed old values, keeps the map well-formed and is
\* recorded as what it did.
LEMMA DoneEffect ==
    ASSUME NEW a \in ExactAction, NEW m, WellFormed(m), NEW d, d = DoAction(a, m, TRUE), d.ok
    PROVE  d.act \in ExactAction /\ WellFormed(d.map) /\ Effect(d.act, m, d.map)
<1> USE DEF ConfigChange, NameChange, AttrChange, ItemChange
<1> USE DEF ExactAction
<1>1. CASE a.op = "MoveGroup"
  <2>1. a \in MoveAction  BY <1>1, ActionKinds
  <2>2. a.from \in Place /\ a.to \in Place  BY <2>1 DEF MoveAction
  <2>3. d = DoMoveGroup(a, m)  BY <1>1, Dispatch
  <2>4. d.act = a /\ WellFormed(d.map) /\ GroupMoved(a, m, d.map)  BY <2>2, <2>3, MoveGroupDone
  <2> QED  BY <1>1, <2>1, <2>4, EffectForms
<1>2. CASE a.op = "MoveLayer"
  <2>1. a \in MoveAction  BY <1>2, ActionKinds
  <2>2. a.from \in Place /\ a.to \in Place  BY <2>1 DEF MoveAction
  <2>3. d = DoMoveLayer(a, m)  BY <1>2, Dispatch
  <2>4. d.act = a /\ WellFormed(d.map) /\ LayerMoved(a, m, d.map)  BY <2>2, <2>3, MoveLayerDone
  <2> QED  BY <1>2, <2>1, <2>4, EffectForms
<1>3. CASE a.op = "AddResource"
  <2>1. a \in FileAction  BY <1>3, ActionKinds
  <2>2. a.list \in File /\ a.value \in Value  BY <2>1 DEF FileAction
  <2>3. d = DoAddResource(a, m)  BY <1>3, Dispatch
  <2>4. d.act = a /\ WellFormed(d.map) /\ ListAdded(a, m, d.map)  BY <2>2, <2>3, AddFileDone
  <2> QED  BY <1>3, <2>1, <2>4, EffectForms
<1>4. CASE a.op = "RemResource"
  <2>1. a \in FileAction  BY <1>4, ActionKinds
  <2>2. a.list \in File  BY <2>1 DEF FileAction
  <2>3. d = DoRemResource(a, m)  BY <1>4, Dispatch
  <2>4. d.act = a /\ WellFormed(d.map) /\ ListAdded(a, d.map, m)  BY <2>2, <2>3, RemFileDone
  <2> QED  BY <1>4, <2>1, <2>4, EffectForms
<1>5. CASE a.op = "AddAnim"
  <2>1. a \in AnimAction  BY <1>5, ActionKinds
  <2>2. a.list \in Animation /\ a.value \in Value  BY <2>1 DEF AnimAction
  <2>3. d = DoAnim(a, m, TRUE)  BY <1>5, Dispatch
  <2>4. d.act = a /\ WellFormed(d.map) /\ ListAdded(a, m, d.map)  BY <1>5, <2>2, <2>3, AddAnimDone
  <2> QED  BY <1>5, <2>1, <2>4, EffectForms
<1>6. CASE a.op = "RemAnim"
  <2>1. a \in AnimAction  BY <1>6, ActionKinds
  <2>2. a \in RemAnimAction  BY <1>6, <2>1 DEF AnimAction, RemAnimAction
  <2>3. d = DoAnim(a, m, TRUE)  BY <1>6, Dispatch
  <2>4. d.act \in RemAnimAction /\ WellFormed(d.map) /\ ListAdded(d.act, d.map, m)
        BY <2>2, <2>3, RemAnimDone
  <2>5. d.act \in AnimAction /\ d.act.op = "RemAnim"  BY <2>4 DEF AnimAction, RemAnimAction
  <2> QED  BY <2>4, <2>5, EffectForms
<1>7. CASE a.op = "LayerChangeImage"
  <2>1. a \in ImageAction  BY <1>7, ActionKinds
  <2>2. d = DoLayerChangeImage(a, m)  BY <1>7, Dispatch
  <2>3. d.act = a /\ WellFormed(d.map) /\ ImageChanged(a, m, d.map)  BY <2>1, <2>2, ImageDone
  <2> QED  BY <1>7, <2>1, <2>3, EffectForms
<1>8. CASE a.op = "AddItems"
  <2>1. a \in ItemAction  BY <1>8, ActionKinds
  <2>2. a \in [op : {"AddItems"}, kind : {"quad", "sound"}, at : Place, index : Index,
               items : Seq(Item(Ref))]
        BY <1>8, <2>1 DEF ItemAction
  <2>3. d = DoAddItems(a, m)  BY <1>8, Dispatch
  <2>4. d.act = a /\ WellFormed(d.map) /\ ItemsAdded(a, m, d.map)  BY <2>2, <2>3, AddItemsDone
  <2> QED  BY <1>8, <2>1, <2>4, EffectForms
<1>9. CASE a.op = "RemItems"
  <2>1. a \in ItemAction  BY <1>9, ActionKinds
  <2>2. a \in RemItemsAction  BY <1>9, <2>1 DEF ItemAction, RemItemsAction
  <2>3. d = DoRemItems(a, m, TRUE)  BY <1>9, Dispatch
  <2>4. d.act \in RemItemsAction /\ WellFormed(d.map) /\ ItemsAdded(d.act, d.map, m)
        BY <2>2, <2>3, RemItemsDone
  <2>5. d.act \in ItemAction /\ d.act.op = "RemItems"  BY <2>4 DEF ItemAction, RemItemsAction
  <2> QED  BY <2>4, <2>5, EffectForms
<1>10. CASE a.op = "AddLayer"
  <2>1. a \in LayerAction  BY <1>10, ActionKinds
  <2>2. a.at \in Place /\ a.layer \in Layer(Ref)  BY <2>1 DEF LayerAction
  <2>3. d = DoAddLayer(a, m)  BY <1>10, Dispatch
  <2>4. d.act = a /\ WellFormed(d.map) /\ LayerAdded(a, m, d.map)  BY <2>2, <2>3, AddLayerDone
  <2> QED  BY <1>10, <2>1, <2>4, EffectForms
<1>11. CASE a.op = "RemLayer"
  <2>1. a \in LayerAction  BY <1>11, ActionKinds
  <2>2. a \in [op : {"RemLayer"}, at : Place, layer : Layer(Ref)]  BY <1>11, <2>1 DEF LayerAction
  <2>3. d = DoRemLayer(a, m, TRUE)  BY <1>11, Dispatch
  <2>4. /\ d.act \in [op : {"RemLayer"}, at : Place, layer : Layer(Ref)]
        /\ WellFormed(d.map) /\ LayerAdded(d.act, d.map, m)
        BY <2>2, <2>3, RemLayerDone
  <2>5. d.act \in LayerAction /\ d.act.op = "RemLayer"  BY <2>4 DEF LayerAction
  <2> QED  BY <2>4, <2>5, EffectForms
<1>12. CASE a.op = "AddGroup"
  <2>1. a \in GroupAction  BY <1>12, ActionKinds
  <2>2. a.at \in Place /\ a.group \in Group({})  BY <1>12, <2>1 DEF GroupAction
  <2>3. d = DoAddGroup(a, m)  BY <1>12, Dispatch
  <2>4. d.act = a /\ WellFormed(d.map) /\ GroupAdded(a, m, d.map)  BY <2>2, <2>3, AddGroupDone
  <2> QED  BY <1>12, <2>1, <2>4, EffectForms
<1>13. CASE a.op = "RemGroup"
  <2>1. a \in GroupAction  BY <1>13, ActionKinds
  <2>2. a \in [op : {"RemGroup"}, at : Place, group : Group(Ref)]  BY <1>13, <2>1 DEF GroupAction
  <2>3. d = DoRemGroup(a, m, TRUE)  BY <1>13, Dispatch
  <2>4. /\ d.act \in [op : {"RemGroup"}, at : Place, group : Group(Ref)]
        /\ WellFormed(d.map) /\ GroupAdded(d.act, d.map, m)
        BY <2>2, <2>3, RemGroupDone
  <2>5. d.act \in GroupAction /\ d.act.op = "RemGroup"  BY <2>4 DEF GroupAction
  <2> QED  BY <2>4, <2>5, EffectForms
<1>14. CASE a.op = "AddPhysicsLayer"
  <2>1. a \in PhysicsLayerAction  BY <1>14, ActionKinds
  <2>2. a.layer \in PhysicsLayer  BY <2>1 DEF PhysicsLayerAction
  <2>3. d = DoAddPhysicsLayer(a, m)  BY <1>14, Dispatch
  <2>4. d.act = a /\ WellFormed(d.map) /\ PhysicsAdded(a, m, d.map)  BY <2>2, <2>3, AddPlaneDone
  <2> QED  BY <1>14, <2>1, <2>4, EffectForms
<1>15. CASE a.op = "RemPhysicsLayer"
  <2>1. a \in PhysicsLayerAction  BY <1>15, ActionKinds
  <2>2. a \in RemPlaneAction  BY <1>15, <2>1 DEF PhysicsLayerAction, RemPlaneAction
  <2>3. d = DoRemPhysicsLayer(a, m, TRUE)  BY <1>15, Dispatch
  <2>4. d.act \in RemPlaneAction /\ WellFormed(d.map) /\ PhysicsAdded(d.act, d.map, m)
        BY <2>2, <2>3, RemPlaneDone
  <2>5. d.act \in PhysicsLayerAction /\ d.act.op = "RemPhysicsLayer"
        BY <2>4 DEF PhysicsLayerAction, RemPlaneAction
  <2> QED  BY <2>4, <2>5, EffectForms
<1>16. CASE a.op = "ReplaceTiles"
  <2>1. a \in TileAction  BY <1>16, ActionKinds
  <2>2. d = DoReplaceTiles(a, m, TRUE)  BY <1>16, Dispatch
  <2>3. d.act \in TileAction /\ WellFormed(d.map) /\ TilesReplaced(d.act, m, d.map)
        BY <2>1, <2>2, TilesDone
  <2>4. d.act.op = "ReplaceTiles"  BY <2>3 DEF TileAction
  <2> QED  BY <2>3, <2>4, EffectForms
<1>17. CASE a.op = "ReplacePhysicsTiles"
  <2>1. a \in PhysicsTileAction  BY <1>17, ActionKinds
  <2>2. d = DoReplacePhysicsTiles(a, m, TRUE)  BY <1>17, Dispatch
  <2>3. d.act \in PhysicsTileAction /\ WellFormed(d.map) /\ PhysicsTilesReplaced(d.act, m, d.map)
        BY <2>1, <2>2, PlaneTilesDone
  <2>4. d.act.op = "ReplacePhysicsTiles"  BY <2>3 DEF PhysicsTileAction
  <2> QED  BY <2>3, <2>4, EffectForms
<1>18. CASE a.op = "Change"
  <2>1. a \in ChangeAction  BY <1>18, ActionKinds
  <2>2. d = DoChange(a, m, TRUE)  BY <1>18, Dispatch
  <2>3. d.act \in ChangeAction /\ WellFormed(d.map) /\ ValueChanged(d.act, m, d.map)
        BY <2>1, <2>2, ChangeDone
  <2>4. d.act.op = "Change"  BY <2>3 DEF ChangeAction
  <2> QED  BY <2>3, <2>4, EffectForms
<1>19. a.op \in ExactOps  BY ActionKinds
<1> QED  BY <1>1, <1>2, <1>3, <1>4, <1>5, <1>6, <1>7, <1>8, <1>9, <1>10, <1>11, <1>12, <1>13, <1>14,
            <1>15, <1>16, <1>17, <1>18, <1>19 DEF ExactOps

\* Done again on the map it was recorded on, it leads to the same map.
LEMMA RedoneEffect ==
    ASSUME NEW a \in ExactAction, NEW m, NEW n, Effect(a, m, n)
    PROVE  RedoAction(a, m).ok /\ RedoAction(a, m).map = n
<1>0. SUFFICES DoAction(a, m, FALSE).ok /\ DoAction(a, m, FALSE).map = n  BY DEF RedoAction
<1>1. CASE a.op = "MoveGroup"
  <2>1. GroupMoved(a, m, n)  BY <1>1, EffectForms
  <2>2. DoAction(a, m, FALSE) = DoMoveGroup(a, m)  BY <1>1, Dispatch
  <2>3. a.from \in Place /\ a.to \in Place  BY <1>1, ActionKinds DEF MoveAction
  <2> QED  BY <2>1, <2>2, <2>3, MoveGroupRedone
<1>2. CASE a.op = "MoveLayer"
  <2>1. LayerMoved(a, m, n)  BY <1>2, EffectForms
  <2>2. DoAction(a, m, FALSE) = DoMoveLayer(a, m)  BY <1>2, Dispatch
  <2>3. a.from \in Place /\ a.to \in Place  BY <1>2, ActionKinds DEF MoveAction
  <2> QED  BY <2>1, <2>2, <2>3, MoveLayerRedone
<1>3. CASE a.op = "AddResource"
  <2>1. ListAdded(a, m, n)  BY <1>3, EffectForms
  <2>2. DoAction(a, m, FALSE) = DoAddResource(a, m)  BY <1>3, Dispatch
  <2>3. a.list \in File  BY <1>3, ActionKinds DEF FileAction
  <2> QED  BY <2>1, <2>2, <2>3, AddFileRedone
<1>4. CASE a.op = "RemResource"
  <2>1. ListAdded(a, n, m)  BY <1>4, EffectForms
  <2>2. DoAction(a, m, FALSE) = DoRemResource(a, m)  BY <1>4, Dispatch
  <2>3. a.list \in File  BY <1>4, ActionKinds DEF FileAction
  <2> QED  BY <2>1, <2>2, <2>3, RemFileRedone
<1>5. CASE a.op = "AddAnim"
  <2>1. ListAdded(a, m, n)  BY <1>5, EffectForms
  <2>2. DoAction(a, m, FALSE) = DoAnim(a, m, FALSE)  BY <1>5, Dispatch
  <2> QED  BY <2>1, <2>2, <1>5, AddAnimRedone
<1>6. CASE a.op = "RemAnim"
  <2>1. ListAdded(a, n, m)  BY <1>6, EffectForms
  <2>2. DoAction(a, m, FALSE) = DoAnim(a, m, FALSE)  BY <1>6, Dispatch
  <2> QED  BY <2>1, <2>2, <1>6, RemAnimRedone
<1>7. CASE a.op = "LayerChangeImage"
  <2>1. ImageChanged(a, m, n)  BY <1>7, EffectForms
  <2>2. DoAction(a, m, FALSE) = DoLayerChangeImage(a, m)  BY <1>7, Dispatch
  <2> QED  BY <2>1, <2>2, ImageRedone
<1>8. CASE a.op = "AddItems"
  <2>1. ItemsAdded(a, m, n)  BY <1>8, EffectForms
  <2>2. DoAction(a, m, FALSE) = DoAddItems(a, m)  BY <1>8, Dispatch
  <2> QED  BY <2>1, <2>2, AddItemsRedone
<1>9. CASE a.op = "RemItems"
  <2>1. ItemsAdded(a, n, m)  BY <1>9, EffectForms
  <2>2. DoAction(a, m, FALSE) = DoRemItems(a, m, FALSE)  BY <1>9, Dispatch
  <2> QED  BY <2>1, <2>2, RemItemsRedone
<1>10. CASE a.op = "AddLayer"
  <2>1. LayerAdded(a, m, n)  BY <1>10, EffectForms
  <2>2. DoAction(a, m, FALSE) = DoAddLayer(a, m)  BY <1>10, Dispatch
  <2> QED  BY <2>1, <2>2, AddLayerRedone
<1>11. CASE a.op = "RemLayer"
  <2>1. LayerAdded(a, n, m)  BY <1>11, EffectForms
  <2>2. DoAction(a, m, FALSE) = DoRemLayer(a, m, FALSE)  BY <1>11, Dispatch
  <2> QED  BY <2>1, <2>2, RemLayerRedone
<1>12. CASE a.op = "AddGroup"
  <2>1. GroupAdded(a, m, n)  BY <1>12, EffectForms
  <2>2. DoAction(a, m, FALSE) = DoAddGroup(a, m)  BY <1>12, Dispatch
  <2> QED  BY <2>1, <2>2, AddGroupRedone
<1>13. CASE a.op = "RemGroup"
  <2>1. GroupAdded(a, n, m)  BY <1>13, EffectForms
  <2>2. DoAction(a, m, FALSE) = DoRemGroup(a, m, FALSE)  BY <1>13, Dispatch
  <2> QED  BY <2>1, <2>2, RemGroupRedone
<1>14. CASE a.op = "AddPhysicsLayer"
  <2>1. PhysicsAdded(a, m, n)  BY <1>14, EffectForms
  <2>2. DoAction(a, m, FALSE) = DoAddPhysicsLayer(a, m)  BY <1>14, Dispatch
  <2> QED  BY <2>1, <2>2, AddPlaneRedone
<1>15. CASE a.op = "RemPhysicsLayer"
  <2>1. PhysicsAdded(a, n, m)  BY <1>15, EffectForms
  <2>2. DoAction(a, m, FALSE) = DoRemPhysicsLayer(a, m, FALSE)  BY <1>15, Dispatch
  <2> QED  BY <2>1, <2>2, RemPlaneRedone
<1>16. CASE a.op = "ReplaceTiles"
  <2>1. TilesReplaced(a, m, n)  BY <1>16, EffectForms
  <2>2. DoAction(a, m, FALSE) = DoReplaceTiles(a, m, FALSE)  BY <1>16, Dispatch
  <2> QED  BY <2>1, <2>2, TilesRedone
<1>17. CASE a.op = "ReplacePhysicsTiles"
  <2>1. PhysicsTilesReplaced(a, m, n)  BY <1>17, EffectForms
  <2>2. DoAction(a, m, FALSE) = DoReplacePhysicsTiles(a, m, FALSE)  BY <1>17, Dispatch
  <2> QED  BY <2>1, <2>2, PlaneTilesRedone
<1>18. CASE a.op = "Change"
  <2>1. ValueChanged(a, m, n)  BY <1>18, EffectForms
  <2>2. DoAction(a, m, FALSE) = DoChange(a, m, FALSE)  BY <1>18, Dispatch
  <2> QED  BY <2>1, <2>2, ChangeRedone
<1>19. a.op \in ExactOps  BY ActionKinds
<1> QED  BY <1>1, <1>2, <1>3, <1>4, <1>5, <1>6, <1>7, <1>8, <1>9,
            <1>10, <1>11, <1>12, <1>13, <1>14, <1>15, <1>16, <1>17, <1>18, <1>19 DEF ExactOps

WithValues(a, v, w) == [a EXCEPT !.old = v, !.new = w]

\* A change with other values names the same spot.
LEMMA ValuesSwapped ==
    ASSUME NEW a \in ChangeAction, NEW v, NEW w, NEW b, b = WithValues(a, v, w)
    PROVE  b.op = a.op /\ SameSpot(a, b) /\ b.old = v /\ b.new = w
<1> USE DEF ConfigChange, NameChange, AttrChange, ItemChange
<1>1. ASSUME NEW A, NEW B, a \in [op : {"Change"}, what : ConfigParts, new : A, old : B]
      PROVE  b.op = a.op /\ SameSpot(a, b) /\ b.old = v /\ b.new = w
      BY <1>1 DEF WithValues, SameSpot, ConfigParts, ItemValue
<1>2. ASSUME NEW A, NEW B, NEW W, a \in [op : {"Change"}, what : W, at : Place, new : A, old : B],
             W \cap ItemValue = {}
      PROVE  b.op = a.op /\ SameSpot(a, b) /\ b.old = v /\ b.new = w
      BY <1>2 DEF WithValues, SameSpot
<1>3. ASSUME NEW A, NEW B,
             a \in [op : {"Change"}, what : {"quad_attr", "sound_attr"}, at : Place, index : Index,
                    new : A, old : B]
      PROVE  b.op = a.op /\ SameSpot(a, b) /\ b.old = v /\ b.new = w
      BY <1>3 DEF WithValues, SameSpot
<1>4. CASE a \in ConfigChange
      BY <1>1, <1>4
<1>5. CASE a \in NameChange
  <2>1. {"group_attr", "group_name", "layer_name"} \cap ItemValue = {}  BY DEF ItemValue
  <2> QED  BY <1>2, <1>5, <2>1
<1>6. CASE a \in AttrChange
  <2>1. {"quad_layer_attr", "sound_layer_attr"} \cap ItemValue = {}  BY DEF ItemValue
  <2> QED  BY <1>2, <1>6, <2>1
<1>7. CASE a \in ItemChange
      BY <1>3, <1>7
<1> QED  BY <1>4, <1>5, <1>6, <1>7 DEF ChangeAction

\* Undone on the map it led to, it leads back to the map it was recorded on.
LEMMA UndoneEffect ==
    ASSUME NEW a \in ExactAction, NEW m, NEW n, Effect(a, m, n)
    PROVE  UndoAction(a, n).ok /\ UndoAction(a, n).map = m
<1>0. PICK b : b = UndoForm(a)  OBVIOUS
<1> SUFFICES DoAction(b, n, FALSE).ok /\ DoAction(b, n, FALSE).map = m  BY <1>0 DEF UndoAction
<1>1. CASE a.op = "MoveGroup"
  <2>1. GroupMoved(a, m, n)  BY <1>1, EffectForms
  <2>2. a \in MoveAction  BY <1>1, ActionKinds
  <2>3. b = [a EXCEPT !.from = a.to, !.to = a.from]  BY <1>0, <1>1, UndoForms
  <2>4. /\ b.op = a.op /\ b.from = a.to /\ b.to = a.from /\ b.from \in Place /\ b.to \in Place
        BY <2>2, <2>3 DEF MoveAction
  <2>5. GroupMoved(b, n, m)  BY <2>1, <2>4, MoveGroupBack
  <2>6. DoAction(b, n, FALSE) = DoMoveGroup(b, n)  BY <1>1, <2>4, Dispatch
  <2> QED  BY <2>4, <2>5, <2>6, MoveGroupRedone
<1>2. CASE a.op = "MoveLayer"
  <2>1. LayerMoved(a, m, n)  BY <1>2, EffectForms
  <2>2. a \in MoveAction  BY <1>2, ActionKinds
  <2>3. b = [a EXCEPT !.from = a.to, !.to = a.from]  BY <1>0, <1>2, UndoForms
  <2>4. /\ b.op = a.op /\ b.from = a.to /\ b.to = a.from /\ b.from \in Place /\ b.to \in Place
        BY <2>2, <2>3 DEF MoveAction
  <2>5. LayerMoved(b, n, m)  BY <2>1, <2>4, MoveLayerBack
  <2>6. DoAction(b, n, FALSE) = DoMoveLayer(b, n)  BY <1>2, <2>4, Dispatch
  <2> QED  BY <2>4, <2>5, <2>6, MoveLayerRedone
<1>3. CASE a.op = "AddResource"
  <2>1. ListAdded(a, m, n)  BY <1>3, EffectForms
  <2>2. a \in FileAction  BY <1>3, ActionKinds
  <2>3. b = [a EXCEPT !.op = "RemResource"]
    <3>1. PICK o \in AddOps : o = a.op /\ RemoveOf[o] = "RemResource"  BY <1>3 DEF AddOps, RemoveOf
    <3>2. UndoForm(a) = [a EXCEPT !.op = RemoveOf[o]]  BY <3>1, UndoForms
    <3> QED  BY <1>0, <3>1, <3>2
  <2>4. b.op = "RemResource" /\ b.list = a.list /\ b.value = a.value /\ b.index = a.index
        BY <2>2, <2>3 DEF FileAction
  <2>5. ListAdded(b, m, n)  BY <2>1, <2>4 DEF ListAdded
  <2>6. DoAction(b, n, FALSE) = DoRemResource(b, n)  BY <2>4, Dispatch
  <2>7. b.list \in File  BY <2>2, <2>4 DEF FileAction
  <2> QED  BY <2>5, <2>6, <2>7, RemFileRedone
<1>4. CASE a.op = "RemResource"
  <2>1. ListAdded(a, n, m)  BY <1>4, EffectForms
  <2>2. a \in FileAction  BY <1>4, ActionKinds
  <2>3. b = [a EXCEPT !.op = "AddResource"]
    <3>1. "AddResource" \in AddOps /\ RemoveOf["AddResource"] = "RemResource"  BY DEF AddOps, RemoveOf
    <3> QED  BY <1>0, <1>4, <3>1, UndoForms
  <2>4. b.op = "AddResource" /\ b.list = a.list /\ b.value = a.value /\ b.index = a.index
        BY <2>2, <2>3 DEF FileAction
  <2>5. ListAdded(b, n, m)  BY <2>1, <2>4 DEF ListAdded
  <2>6. DoAction(b, n, FALSE) = DoAddResource(b, n)  BY <2>4, Dispatch
  <2>7. b.list \in File  BY <2>2, <2>4 DEF FileAction
  <2> QED  BY <2>5, <2>6, <2>7, AddFileRedone
<1>5. CASE a.op = "AddAnim"
  <2>1. ListAdded(a, m, n)  BY <1>5, EffectForms
  <2>2. a \in AnimAction  BY <1>5, ActionKinds
  <2>3. b = [a EXCEPT !.op = "RemAnim"]
    <3>1. PICK o \in AddOps : o = a.op /\ RemoveOf[o] = "RemAnim"  BY <1>5 DEF AddOps, RemoveOf
    <3>2. UndoForm(a) = [a EXCEPT !.op = RemoveOf[o]]  BY <3>1, UndoForms
    <3> QED  BY <1>0, <3>1, <3>2
  <2>4. b.op = "RemAnim" /\ b.list = a.list /\ b.value = a.value /\ b.index = a.index
        BY <2>2, <2>3 DEF AnimAction
  <2>5. ListAdded(b, m, n)  BY <2>1, <2>4 DEF ListAdded
  <2>6. DoAction(b, n, FALSE) = DoAnim(b, n, FALSE)  BY <2>4, Dispatch
  <2> QED  BY <2>5, <2>6, <2>4, RemAnimRedone
<1>6. CASE a.op = "RemAnim"
  <2>1. ListAdded(a, n, m)  BY <1>6, EffectForms
  <2>2. a \in AnimAction  BY <1>6, ActionKinds
  <2>3. b = [a EXCEPT !.op = "AddAnim"]
    <3>1. "AddAnim" \in AddOps /\ RemoveOf["AddAnim"] = "RemAnim"  BY DEF AddOps, RemoveOf
    <3> QED  BY <1>0, <1>6, <3>1, UndoForms
  <2>4. b.op = "AddAnim" /\ b.list = a.list /\ b.value = a.value /\ b.index = a.index
        BY <2>2, <2>3 DEF AnimAction
  <2>5. ListAdded(b, n, m)  BY <2>1, <2>4 DEF ListAdded
  <2>6. DoAction(b, n, FALSE) = DoAnim(b, n, FALSE)  BY <2>4, Dispatch
  <2> QED  BY <2>5, <2>6, <2>4, AddAnimRedone
<1>7. CASE a.op = "AddItems"
  <2>1. ItemsAdded(a, m, n)  BY <1>7, EffectForms
  <2>2. a \in ItemAction  BY <1>7, ActionKinds
  <2>3. b = [a EXCEPT !.op = "RemItems"]
    <3>1. PICK o \in AddOps : o = a.op /\ RemoveOf[o] = "RemItems"  BY <1>7 DEF AddOps, RemoveOf
    <3>2. UndoForm(a) = [a EXCEPT !.op = RemoveOf[o]]  BY <3>1, UndoForms
    <3> QED  BY <1>0, <3>1, <3>2
  <2>4. b.op = "RemItems" /\ b.at = a.at /\ b.kind = a.kind /\ b.index = a.index /\ b.items = a.items
        BY <2>2, <2>3 DEF ItemAction
  <2>5. ItemsAdded(b, m, n)  BY <2>1, <2>4 DEF ItemsAdded, MoreItems
  <2>6. DoAction(b, n, FALSE) = DoRemItems(b, n, FALSE)  BY <2>4, Dispatch
  <2> QED  BY <2>5, <2>6, RemItemsRedone
<1>8. CASE a.op = "RemItems"
  <2>1. ItemsAdded(a, n, m)  BY <1>8, EffectForms
  <2>2. a \in ItemAction  BY <1>8, ActionKinds
  <2>3. b = [a EXCEPT !.op = "AddItems"]
    <3>1. "AddItems" \in AddOps /\ RemoveOf["AddItems"] = "RemItems"  BY DEF AddOps, RemoveOf
    <3> QED  BY <1>0, <1>8, <3>1, UndoForms
  <2>4. b.op = "AddItems" /\ b.at = a.at /\ b.kind = a.kind /\ b.index = a.index /\ b.items = a.items
        BY <2>2, <2>3 DEF ItemAction
  <2>5. ItemsAdded(b, n, m)  BY <2>1, <2>4 DEF ItemsAdded, MoreItems
  <2>6. DoAction(b, n, FALSE) = DoAddItems(b, n)  BY <2>4, Dispatch
  <2> QED  BY <2>5, <2>6, AddItemsRedone
<1>9. CASE a.op = "AddLayer"
  <2>1. LayerAdded(a, m, n)  BY <1>9, EffectForms
  <2>2. a \in LayerAction  BY <1>9, ActionKinds
  <2>3. b = [a EXCEPT !.op = "RemLayer"]
    <3>1. PICK o \in AddOps : o = a.op /\ RemoveOf[o] = "RemLayer"  BY <1>9 DEF AddOps, RemoveOf
    <3>2. UndoForm(a) = [a EXCEPT !.op = RemoveOf[o]]  BY <3>1, UndoForms
    <3> QED  BY <1>0, <3>1, <3>2
  <2>4. b.op = "RemLayer" /\ b.at = a.at /\ b.layer = a.layer
        BY <2>2, <2>3 DEF LayerAction
  <2>5. LayerAdded(b, m, n)  BY <2>1, <2>4 DEF LayerAdded
  <2>6. DoAction(b, n, FALSE) = DoRemLayer(b, n, FALSE)  BY <2>4, Dispatch
  <2> QED  BY <2>5, <2>6, RemLayerRedone
<1>10. CASE a.op = "RemLayer"
  <2>1. LayerAdded(a, n, m)  BY <1>10, EffectForms
  <2>2. a \in LayerAction  BY <1>10, ActionKinds
  <2>3. b = [a EXCEPT !.op = "AddLayer"]
    <3>1. "AddLayer" \in AddOps /\ RemoveOf["AddLayer"] = "RemLayer"  BY DEF AddOps, RemoveOf
    <3> QED  BY <1>0, <1>10, <3>1, UndoForms
  <2>4. b.op = "AddLayer" /\ b.at = a.at /\ b.layer = a.layer
        BY <2>2, <2>3 DEF LayerAction
  <2>5. LayerAdded(b, n, m)  BY <2>1, <2>4 DEF LayerAdded
  <2>6. DoAction(b, n, FALSE) = DoAddLayer(b, n)  BY <2>4, Dispatch
  <2> QED  BY <2>5, <2>6, AddLayerRedone
<1>11. CASE a.op = "AddGroup"
  <2>1. GroupAdded(a, m, n)  BY <1>11, EffectForms
  <2>2. a \in GroupAction  BY <1>11, ActionKinds
  <2>3. b = [a EXCEPT !.op = "RemGroup"]
    <3>1. PICK o \in AddOps : o = a.op /\ RemoveOf[o] = "RemGroup"  BY <1>11 DEF AddOps, RemoveOf
    <3>2. UndoForm(a) = [a EXCEPT !.op = RemoveOf[o]]  BY <3>1, UndoForms
    <3> QED  BY <1>0, <3>1, <3>2
  <2>4. b.op = "RemGroup" /\ b.at = a.at /\ b.group = a.group
        BY <2>2, <2>3 DEF GroupAction
  <2>5. GroupAdded(b, m, n)  BY <2>1, <2>4 DEF GroupAdded
  <2>6. DoAction(b, n, FALSE) = DoRemGroup(b, n, FALSE)  BY <2>4, Dispatch
  <2> QED  BY <2>5, <2>6, RemGroupRedone
<1>12. CASE a.op = "RemGroup"
  <2>1. GroupAdded(a, n, m)  BY <1>12, EffectForms
  <2>2. a \in GroupAction  BY <1>12, ActionKinds
  <2>3. b = [a EXCEPT !.op = "AddGroup"]
    <3>1. "AddGroup" \in AddOps /\ RemoveOf["AddGroup"] = "RemGroup"  BY DEF AddOps, RemoveOf
    <3> QED  BY <1>0, <1>12, <3>1, UndoForms
  <2>4. b.op = "AddGroup" /\ b.at = a.at /\ b.group = a.group
        BY <2>2, <2>3 DEF GroupAction
  <2>5. GroupAdded(b, n, m)  BY <2>1, <2>4 DEF GroupAdded
  <2>6. DoAction(b, n, FALSE) = DoAddGroup(b, n)  BY <2>4, Dispatch
  <2> QED  BY <2>5, <2>6, AddGroupRedone
<1>13. CASE a.op = "AddPhysicsLayer"
  <2>1. PhysicsAdded(a, m, n)  BY <1>13, EffectForms
  <2>2. a \in PhysicsLayerAction  BY <1>13, ActionKinds
  <2>3. b = [a EXCEPT !.op = "RemPhysicsLayer"]
    <3>1. PICK o \in AddOps : o = a.op /\ RemoveOf[o] = "RemPhysicsLayer"  BY <1>13 DEF AddOps, RemoveOf
    <3>2. UndoForm(a) = [a EXCEPT !.op = RemoveOf[o]]  BY <3>1, UndoForms
    <3> QED  BY <1>0, <3>1, <3>2
  <2>4. b.op = "RemPhysicsLayer" /\ b.index = a.index /\ b.layer = a.layer
        BY <2>2, <2>3 DEF PhysicsLayerAction
  <2>5. PhysicsAdded(b, m, n)  BY <2>1, <2>4 DEF PhysicsAdded
  <2>6. DoAction(b, n, FALSE) = DoRemPhysicsLayer(b, n, FALSE)  BY <2>4, Dispatch
  <2> QED  BY <2>5, <2>6, RemPlaneRedone
<1>14. CASE a.op = "RemPhysicsLayer"
  <2>1. PhysicsAdded(a, n, m)  BY <1>14, EffectForms
  <2>2. a \in PhysicsLayerAction  BY <1>14, ActionKinds
  <2>3. b = [a EXCEPT !.op = "AddPhysicsLayer"]
    <3>1. "AddPhysicsLayer" \in AddOps /\ RemoveOf["AddPhysicsLayer"] = "RemPhysicsLayer"  BY DEF AddOps, RemoveOf
    <3> QED  BY <1>0, <1>14, <3>1, UndoForms
  <2>4. b.op = "AddPhysicsLayer" /\ b.index = a.index /\ b.layer = a.layer
        BY <2>2, <2>3 DEF PhysicsLayerAction
  <2>5. PhysicsAdded(b, n, m)  BY <2>1, <2>4 DEF PhysicsAdded
  <2>6. DoAction(b, n, FALSE) = DoAddPhysicsLayer(b, n)  BY <2>4, Dispatch
  <2> QED  BY <2>5, <2>6, AddPlaneRedone
<1>15. CASE a.op = "LayerChangeImage"
  <2>1. ImageChanged(a, m, n)  BY <1>15, EffectForms
  <2>2. a \in ImageAction  BY <1>15, ActionKinds
  <2>3. b = [a EXCEPT !.old = a.new, !.new = a.old]  BY <1>0, <1>15, UndoForms
  <2>4. b.op = a.op /\ b.at = a.at /\ b.old = a.new /\ b.new = a.old
        BY <2>2, <2>3 DEF ImageAction
  <2>5. ImageChanged(b, n, m)  BY <2>1, <2>4, ImageBack
  <2>6. DoAction(b, n, FALSE) = DoLayerChangeImage(b, n)  BY <1>15, <2>4, Dispatch
  <2> QED  BY <2>5, <2>6, ImageRedone
<1>16. CASE a.op = "ReplaceTiles"
  <2>1. TilesReplaced(a, m, n)  BY <1>16, EffectForms
  <2>2. a \in TileAction  BY <1>16, ActionKinds
  <2>3. b = [a EXCEPT !.old = a.new, !.new = a.old]  BY <1>0, <1>16, UndoForms
  <2>4. b.op = a.op /\ b.at = a.at /\ b.x = a.x /\ b.old = a.new /\ b.new = a.old
        BY <2>2, <2>3 DEF TileAction
  <2>5. TilesReplaced(b, n, m)  BY <2>1, <2>4, TilesBack
  <2>6. DoAction(b, n, FALSE) = DoReplaceTiles(b, n, FALSE)  BY <1>16, <2>4, Dispatch
  <2> QED  BY <2>5, <2>6, TilesRedone
<1>17. CASE a.op = "ReplacePhysicsTiles"
  <2>1. PhysicsTilesReplaced(a, m, n)  BY <1>17, EffectForms
  <2>2. a \in PhysicsTileAction  BY <1>17, ActionKinds
  <2>3. b = [a EXCEPT !.old = a.new, !.new = a.old]  BY <1>0, <1>17, UndoForms
  <2>4. b.op = a.op /\ b.index = a.index /\ b.kind = a.kind /\ b.x = a.x /\ b.old = a.new /\ b.new = a.old
        BY <2>2, <2>3 DEF PhysicsTileAction
  <2>5. PhysicsTilesReplaced(b, n, m)  BY <2>1, <2>4, PlaneTilesBack
  <2>6. DoAction(b, n, FALSE) = DoReplacePhysicsTiles(b, n, FALSE)  BY <1>17, <2>4, Dispatch
  <2> QED  BY <2>5, <2>6, PlaneTilesRedone
<1>18. CASE a.op = "Change"
  <2>1. ValueChanged(a, m, n)  BY <1>18, EffectForms
  <2>2. a \in ChangeAction  BY <1>18, ActionKinds
  <2>3. b = [a EXCEPT !.old = a.new, !.new = a.old]  BY <1>0, <1>18, UndoForms
  <2>4. b.op = a.op /\ SameSpot(a, b) /\ b.old = a.new /\ b.new = a.old
    <3>1. PICK v, w : v = a.new /\ w = a.old  OBVIOUS
    <3>2. b = WithValues(a, v, w)  BY <2>3, <3>1 DEF WithValues
    <3>3. b.op = a.op /\ SameSpot(a, b) /\ b.old = v /\ b.new = w  BY <2>2, <3>2, ValuesSwapped
    <3> QED  BY <3>1, <3>3
  <2>5. ValueChanged(b, n, m)  BY <2>1, <2>4, ChangeBack
  <2>6. DoAction(b, n, FALSE) = DoChange(b, n, FALSE)  BY <1>18, <2>4, Dispatch
  <2> QED  BY <2>5, <2>6, ChangeRedone
<1>19. a.op \in ExactOps  BY ActionKinds
<1> QED  BY <1>1, <1>2, <1>3, <1>4, <1>5, <1>6, <1>7, <1>8, <1>9,
            <1>10, <1>11, <1>12, <1>13, <1>14, <1>15, <1>16, <1>17, <1>18, <1>19 DEF ExactOps

Leads(a, m, n) == WellFormed(m) /\ WellFormed(n) /\ Effect(a, m, n)

\* Whatever the old values a client sends with an action, the server records the
\* action with those of its map: done again it leads to the same map, undone it
\* leads back to the very map there was, and both maps are well-formed.
THEOREM ActionsAreUndone ==
    ASSUME NEW a \in ExactAction, NEW m, WellFormed(m), DoAction(a, m, TRUE).ok
    PROVE  LET d == DoAction(a, m, TRUE)
               redo == RedoAction(d.act, m)
               undo == UndoAction(d.act, d.map)
           IN  /\ d.act \in ExactAction /\ WellFormed(d.map)
               /\ redo.ok /\ redo.map = d.map
               /\ undo.ok /\ undo.map = m
<1>1. PICK d : d = DoAction(a, m, TRUE)  OBVIOUS
<1>2. d.act \in ExactAction /\ WellFormed(d.map) /\ Effect(d.act, m, d.map)
      BY <1>1, DoneEffect
<1>3. PICK b, n : b = d.act /\ n = d.map  OBVIOUS
<1>4. b \in ExactAction /\ Effect(b, m, n)  BY <1>2, <1>3
<1>5. RedoAction(b, m).ok /\ RedoAction(b, m).map = n  BY <1>4, RedoneEffect
<1>6. UndoAction(b, n).ok /\ UndoAction(b, n).map = m  BY <1>4, UndoneEffect
<1> QED  BY <1>1, <1>2, <1>3, <1>5, <1>6

(***************************************************************************)
(* Two actions merged.                                                     *)
(***************************************************************************)
LEMMA MergeForms ==
    ASSUME NEW a, NEW b
    PROVE  /\ a.op # b.op => MergeTwo(a, b) = <<a, b>>
           /\ a.op = b.op =>
                /\ a.op \in {"MoveGroup", "MoveLayer"} =>
                     MergeTwo(a, b) = IF a.to = b.from THEN <<[a EXCEPT !.to = b.to]>> ELSE <<a, b>>
                /\ a.op = "AddItems" => MergeTwo(a, b) = MergeAdd(a, b)
                /\ a.op = "RemItems" => MergeTwo(a, b) = MergeRem(a, b)
                /\ a.op \in {"LayerChangeImage", "Change"} =>
                     MergeTwo(a, b) = IF SamePlace(a, b) THEN <<[a EXCEPT !.new = b.new]>> ELSE <<a, b>>
                /\ a.op \in ExactOps \ {"MoveGroup", "MoveLayer", "AddItems", "RemItems",
                                        "LayerChangeImage", "Change"} => MergeTwo(a, b) = <<a, b>>
BY DEF MergeTwo, ExactOps

LEMMA MergedItems ==
    ASSUME NEW a \in ItemAction, NEW b \in ItemAction, Adjoins(a, b), NEW c, c = WithItems(a, b)
    PROVE  /\ c \in ItemAction /\ c.op = a.op /\ c.at = a.at /\ c.kind = a.kind /\ c.index = a.index
           /\ c.items = Splice(a.items, b.index - a.index + 1, b.items)
<1>1. PICK s, t, i, j : s = a.items /\ t = b.items /\ i = a.index /\ j = b.index  OBVIOUS
<1>2. s \in Seq(Item(Ref)) /\ t \in Seq(Item(Ref)) /\ i \in Nat /\ j \in Nat
      BY <1>1 DEF ItemAction, Index
<1>3. j \in i .. i + Len(s)  BY <1>1 DEF Adjoins
<1>4. Splice(s, j - i + 1, t) \in Seq(Item(Ref))
  <2>1. PICK k : k = j - i + 1  OBVIOUS
  <2>2. Fits(s, k, 0)
    <3>1. Len(s) \in Nat  BY <1>2, LenProperties
    <3> QED  BY <1>2, <1>3, <2>1, <3>1 DEF Fits
  <2>3. Long(t, Len(t))  BY <1>2, LenProperties DEF Long
  <2>4. Splice(s, k, t) \in Seq(Item(Ref))  BY <1>2, <2>2, <2>3, CutSpliced
  <2> QED  BY <2>1, <2>4
<1>5. c = [a EXCEPT !.items = Splice(s, j - i + 1, t)]  BY <1>1 DEF WithItems
<1>6. PICK u : u = Splice(s, j - i + 1, t)  OBVIOUS
<1>7. c = [a EXCEPT !.items = u] /\ u \in Seq(Item(Ref))  BY <1>4, <1>5, <1>6
<1>8. /\ c \in ItemAction /\ c.op = a.op /\ c.at = a.at /\ c.kind = a.kind /\ c.index = a.index
      /\ c.items = u
      BY <1>7 DEF ItemAction
<1> QED  BY <1>1, <1>6, <1>8

\* A change of what another changed, merged.
LEMMA MergedChange ==
    ASSUME NEW a \in ChangeAction, NEW b \in ChangeAction, SamePlace(a, b),
           NEW c, c = [a EXCEPT !.new = b.new]
    PROVE  /\ c \in ChangeAction /\ c.op = "Change" /\ SameSpot(a, b) /\ SameSpot(a, c)
           /\ c.old = a.old /\ c.new = b.new
<1> USE DEF ConfigChange, NameChange, AttrChange, ItemChange
<1>1. "what" \in DOMAIN a /\ "what" \in DOMAIN b  BY DEF ChangeAction
<1>2. b.what = a.what  BY <1>1 DEF SamePlace
<1>3. CASE a \in ConfigChange
  <2>1. a.what \in ConfigParts  BY <1>3
  <2>2. b \in ConfigChange
        BY <1>2, <2>1 DEF ChangeAction, ConfigParts
  <2>3. SameSpot(a, b)  BY <1>2, <2>1 DEF SameSpot, ConfigParts, ItemValue
  <2>4. /\ c \in ConfigChange
        /\ c.what = a.what /\ c.old = a.old /\ c.new = b.new /\ c.op = "Change"
        BY <1>3, <2>2
  <2>5. SameSpot(a, c)  BY <2>1, <2>4 DEF SameSpot, ConfigParts, ItemValue
  <2> QED  BY <2>3, <2>4, <2>5 DEF ChangeAction
<1>4. CASE a \in NameChange
  <2>1. a.what \in {"group_attr", "group_name", "layer_name"} /\ "at" \in DOMAIN a  BY <1>4
  <2>2. b \in NameChange  BY <1>2, <2>1 DEF ChangeAction, ConfigParts
  <2>3. b.at = a.at  BY <2>1 DEF SamePlace
  <2>4. c \in NameChange /\ c.what = a.what /\ c.at = a.at /\ c.old = a.old /\ c.new = b.new /\ c.op = "Change"
        BY <1>4, <2>2
  <2>5. a.what \notin ItemValue  BY <2>1 DEF ItemValue
  <2>6. SameSpot(a, b) /\ SameSpot(a, c)  BY <1>2, <2>3, <2>4, <2>5 DEF SameSpot
  <2> QED  BY <2>4, <2>6 DEF ChangeAction
<1>5. CASE a \in AttrChange
  <2>1. a.what \in {"quad_layer_attr", "sound_layer_attr"} /\ "at" \in DOMAIN a  BY <1>5
  <2>2. b \in AttrChange  BY <1>2, <2>1 DEF ChangeAction, ConfigParts
  <2>3. b.at = a.at  BY <2>1 DEF SamePlace
  <2>4. c \in AttrChange /\ c.what = a.what /\ c.at = a.at /\ c.old = a.old /\ c.new = b.new /\ c.op = "Change"
        BY <1>5, <2>2
  <2>5. a.what \notin ItemValue  BY <2>1 DEF ItemValue
  <2>6. SameSpot(a, b) /\ SameSpot(a, c)  BY <1>2, <2>3, <2>4, <2>5 DEF SameSpot
  <2> QED  BY <2>4, <2>6 DEF ChangeAction
<1>6. CASE a \in ItemChange
  <2>1. a.what \in {"quad_attr", "sound_attr"} /\ "at" \in DOMAIN a /\ "index" \in DOMAIN a  BY <1>6
  <2>2. b \in ItemChange  BY <1>2, <2>1 DEF ChangeAction, ConfigParts
  <2>3. b.at = a.at /\ b.index = a.index  BY <2>1 DEF SamePlace
  <2>4. /\ c \in ItemChange /\ c.what = a.what /\ c.at = a.at /\ c.index = a.index /\ c.old = a.old
        /\ c.new = b.new /\ c.op = "Change"
        BY <1>6, <2>2
  <2>6. SameSpot(a, b) /\ SameSpot(a, c)  BY <1>2, <2>3, <2>4 DEF SameSpot
  <2> QED  BY <2>4, <2>6 DEF ChangeAction
<1> QED  BY <1>3, <1>4, <1>5, <1>6 DEF ChangeAction

\* Two actions merged into one lead where the two led.
LEMMA MergedEffect ==
    ASSUME NEW a \in ExactAction, NEW b \in ExactAction, NEW m, NEW n, NEW p,
           Effect(a, m, n), Effect(b, n, p)
    PROVE  \/ MergeTwo(a, b) = <<a, b>>
           \/ \E c \in ExactAction : MergeTwo(a, b) = <<c>> /\ Effect(c, m, p)
<1> SUFFICES ASSUME MergeTwo(a, b) # <<a, b>>
             PROVE  \E c \in ExactAction : MergeTwo(a, b) = <<c>> /\ Effect(c, m, p)
    OBVIOUS
<1>0. b.op = a.op  BY MergeForms
<1>1. CASE a.op = "MoveGroup"
  <2>1. GroupMoved(a, m, n) /\ GroupMoved(b, n, p)  BY <1>0, <1>1, EffectForms
  <2>2. a \in MoveAction /\ b \in MoveAction  BY <1>0, <1>1, ActionKinds
  <2>3. PICK c : c = [a EXCEPT !.to = b.to]  OBVIOUS
  <2>4. a.to = b.from /\ MergeTwo(a, b) = <<c>>  BY <1>0, <1>1, <2>3, MergeForms
  <2>5. c \in MoveAction /\ c.op = a.op /\ c.from = a.from /\ c.to = b.to  BY <2>2, <2>3 DEF MoveAction
  <2>6. GroupMoved(c, m, p)  BY <2>1, <2>4, <2>5, MoveGroupMerged
  <2>7. c \in ExactAction /\ Effect(c, m, p)  BY <1>1, <2>5, <2>6, EffectForms DEF ExactAction
  <2> QED  BY <2>4, <2>7
<1>2. CASE a.op = "MoveLayer"
  <2>1. LayerMoved(a, m, n) /\ LayerMoved(b, n, p)  BY <1>0, <1>2, EffectForms
  <2>2. a \in MoveAction /\ b \in MoveAction  BY <1>0, <1>2, ActionKinds
  <2>3. PICK c : c = [a EXCEPT !.to = b.to]  OBVIOUS
  <2>4. a.to = b.from /\ MergeTwo(a, b) = <<c>>  BY <1>0, <1>2, <2>3, MergeForms
  <2>5. c \in MoveAction /\ c.op = a.op /\ c.from = a.from /\ c.to = b.to  BY <2>2, <2>3 DEF MoveAction
  <2>6. LayerMoved(c, m, p)  BY <2>1, <2>4, <2>5, MoveLayerMerged
  <2>7. c \in ExactAction /\ Effect(c, m, p)  BY <1>2, <2>5, <2>6, EffectForms DEF ExactAction
  <2> QED  BY <2>4, <2>7
<1>3. CASE a.op = "AddItems"
  <2>1. ItemsAdded(a, m, n) /\ ItemsAdded(b, n, p)  BY <1>0, <1>3, EffectForms
  <2>2. a \in ItemAction /\ b \in ItemAction  BY <1>0, <1>3, ActionKinds
  <2>3. PICK c : c = WithItems(a, b)  OBVIOUS
  <2>4. Adjoins(a, b) /\ MergeTwo(a, b) = <<c>>  BY <1>0, <1>3, <2>3, MergeForms DEF MergeAdd
  <2>5. /\ c \in ItemAction /\ c.op = a.op /\ c.at = a.at /\ c.kind = a.kind /\ c.index = a.index
        /\ c.items = Splice(a.items, b.index - a.index + 1, b.items)
        BY <2>2, <2>3, <2>4, MergedItems
  <2>6. ItemsAdded(c, m, p)  BY <2>1, <2>4, <2>5, ItemsMerged
  <2>7. c \in ExactAction /\ Effect(c, m, p)  BY <1>3, <2>5, <2>6, EffectForms DEF ExactAction
  <2> QED  BY <2>4, <2>7
<1>4. CASE a.op = "RemItems"
  <2>1. ItemsAdded(a, n, m) /\ ItemsAdded(b, p, n)  BY <1>0, <1>4, EffectForms
  <2>2. a \in ItemAction /\ b \in ItemAction  BY <1>0, <1>4, ActionKinds
  <2>3. PICK c : c = WithItems(b, a)  OBVIOUS
  <2>4. Adjoins(b, a) /\ MergeTwo(a, b) = <<c>>  BY <1>0, <1>4, <2>3, MergeForms DEF MergeRem
  <2>5. /\ c \in ItemAction /\ c.op = b.op /\ c.at = b.at /\ c.kind = b.kind /\ c.index = b.index
        /\ c.items = Splice(b.items, a.index - b.index + 1, a.items)
        BY <2>2, <2>3, <2>4, MergedItems
  <2>6. ItemsAdded(c, p, m)  BY <2>1, <2>4, <2>5, ItemsMerged
  <2>7. c \in ExactAction /\ Effect(c, m, p)  BY <1>0, <1>4, <2>5, <2>6, EffectForms DEF ExactAction
  <2> QED  BY <2>4, <2>7
<1>5. CASE a.op = "LayerChangeImage"
  <2>1. ImageChanged(a, m, n) /\ ImageChanged(b, n, p)  BY <1>0, <1>5, EffectForms
  <2>2. a \in ImageAction /\ b \in ImageAction  BY <1>0, <1>5, ActionKinds
  <2>3. PICK c : c = [a EXCEPT !.new = b.new]  OBVIOUS
  <2>4. SamePlace(a, b) /\ MergeTwo(a, b) = <<c>>  BY <1>0, <1>5, <2>3, MergeForms
  <2>5. b.at = a.at
    <3>1. "at" \in DOMAIN a  BY <2>2 DEF ImageAction
    <3> QED  BY <2>4, <3>1 DEF SamePlace
  <2>6. c \in ImageAction /\ c.op = a.op /\ c.at = a.at /\ c.old = a.old /\ c.new = b.new
        BY <2>2, <2>3 DEF ImageAction
  <2>7. ImageChanged(c, m, p)  BY <2>1, <2>5, <2>6, ImageMerged
  <2>8. c \in ExactAction /\ Effect(c, m, p)  BY <1>5, <2>6, <2>7, EffectForms DEF ExactAction
  <2> QED  BY <2>4, <2>8
<1>6. CASE a.op = "Change"
  <2>1. ValueChanged(a, m, n) /\ ValueChanged(b, n, p)  BY <1>0, <1>6, EffectForms
  <2>2. a \in ChangeAction /\ b \in ChangeAction  BY <1>0, <1>6, ActionKinds
  <2>3. PICK c : c = [a EXCEPT !.new = b.new]  OBVIOUS
  <2>4. SamePlace(a, b) /\ MergeTwo(a, b) = <<c>>  BY <1>0, <1>6, <2>3, MergeForms
  <2>5. /\ c \in ChangeAction /\ c.op = "Change" /\ SameSpot(a, b) /\ SameSpot(a, c)
        /\ c.old = a.old /\ c.new = b.new
        BY <2>2, <2>3, <2>4, MergedChange
  <2>6. ValueChanged(c, m, p)  BY <2>1, <2>5, ChangeMerged
  <2>7. c \in ExactAction /\ Effect(c, m, p)  BY <2>5, <2>6, EffectForms DEF ExactAction
  <2> QED  BY <2>4, <2>7
<1>7. a.op \in ExactOps  BY ActionKinds
<1>8. a.op \notin ExactOps \ {"MoveGroup", "MoveLayer", "AddItems", "RemItems",
                              "LayerChangeImage", "Change"}
      BY <1>0, MergeForms
<1> QED  BY <1>1, <1>2, <1>3, <1>4, <1>5, <1>6, <1>7, <1>8

(***************************************************************************)
(* Actions in a row: s leads from m to p over the maps g.                  *)
(***************************************************************************)
Path(s, g, m, p) ==
    /\ s \in Seq(ExactAction) /\ WellFormed(m)
    /\ g[0] = m /\ g[Len(s)] = p
    /\ \A k \in 1 .. Len(s) : Leads(s[k], g[k - 1], g[k])
LeadsAll(s, m, p) == \E g : Path(s, g, m, p)

LEMMA EmptyLeads == ASSUME NEW m, WellFormed(m) PROVE LeadsAll(<<>>, m, m)
<1>1. <<>> \in Seq(ExactAction) /\ Len(<<>>) = 0  BY EmptySeq
<1>2. Path(<<>>, [k \in {0} |-> m], m, m)  BY <1>1 DEF Path
<1> QED  BY <1>2 DEF LeadsAll

LEMMA OneLeads ==
    ASSUME NEW a \in ExactAction, NEW m, NEW n
    PROVE  Leads(a, m, n) <=> LeadsAll(<<a>>, m, n)
<1>1. <<a>> \in Seq(ExactAction) /\ Len(<<a>>) = 1 /\ <<a>>[1] = a  OBVIOUS
<1>2. PICK s : s = <<a>>  OBVIOUS
<1>3. s \in Seq(ExactAction) /\ Len(s) = 1 /\ s[1] = a  BY <1>1, <1>2
<1>4. ASSUME Leads(a, m, n) PROVE LeadsAll(s, m, n)
  <2>1. PICK g : g = [k \in 0 .. 1 |-> IF k = 0 THEN m ELSE n]  OBVIOUS
  <2>2. g[0] = m /\ g[1] = n  BY <2>1
  <2>3. WellFormed(m)  BY <1>4 DEF Leads
  <2>4. \A k \in 1 .. 1 : Leads(s[k], g[k - 1], g[k])  BY <1>3, <1>4, <2>2
  <2>5. Path(s, g, m, n)  BY <1>3, <2>2, <2>3, <2>4 DEF Path
  <2> QED  BY <2>5 DEF LeadsAll
<1>5. ASSUME LeadsAll(s, m, n) PROVE Leads(a, m, n)
  <2>1. PICK g : Path(s, g, m, n)  BY <1>5 DEF LeadsAll
  <2>2. Leads(s[1], g[1 - 1], g[1])  BY <1>3, <2>1 DEF Path
  <2> QED  BY <1>3, <2>1, <2>2 DEF Path
<1> QED  BY <1>2, <1>4, <1>5

LEMMA LeadsTyped ==
    ASSUME NEW s, NEW m, NEW p, LeadsAll(s, m, p)
    PROVE  s \in Seq(ExactAction) /\ WellFormed(m) /\ WellFormed(p)
<1>1. PICK g : Path(s, g, m, p)  BY DEF LeadsAll
<1>2. s \in Seq(ExactAction) /\ WellFormed(m) /\ g[0] = m /\ g[Len(s)] = p  BY <1>1 DEF Path
<1>3. PICK n : n = Len(s) /\ n \in Nat  BY <1>2, LenProperties
<1>4. CASE n = 0  BY <1>2, <1>3, <1>4
<1>5. CASE n # 0
  <2>1. n \in 1 .. Len(s)  BY <1>3, <1>5
  <2>2. Leads(s[n], g[n - 1], g[n])  BY <1>1, <2>1 DEF Path
  <2> QED  BY <1>2, <1>3, <2>2 DEF Leads
<1> QED  BY <1>4, <1>5

LEMMA CatElements ==
    ASSUME NEW S, NEW s \in Seq(S), NEW t \in Seq(S)
    PROVE  /\ s \o t \in Seq(S) /\ Len(s \o t) = Len(s) + Len(t)
           /\ \A k \in 1 .. Len(s) : (s \o t)[k] = s[k]
           /\ \A k \in 1 .. Len(t) : (s \o t)[Len(s) + k] = t[k]
<1>1. Len(s) \in Nat /\ Len(t) \in Nat  BY LenProperties
<1>2. /\ s \o t \in Seq(S) /\ Len(s \o t) = Len(s) + Len(t)
      /\ \A i \in 1 .. Len(s) + Len(t) : (s \o t)[i] = IF i <= Len(s) THEN s[i] ELSE t[i - Len(s)]
      BY ConcatProperties
<1>3. PICK u : u = s \o t  OBVIOUS
<1>4. \A i \in 1 .. Len(s) + Len(t) : u[i] = IF i <= Len(s) THEN s[i] ELSE t[i - Len(s)]
      BY <1>2, <1>3
<1>5. ASSUME NEW k \in 1 .. Len(s) PROVE u[k] = s[k]
  <2>1. k \in 1 .. Len(s) + Len(t) /\ k <= Len(s)  BY <1>1
  <2> QED  BY <1>4, <2>1
<1>6. ASSUME NEW k \in 1 .. Len(t) PROVE u[Len(s) + k] = t[k]
  <2>1. PICK i : i = Len(s) + k  OBVIOUS
  <2>2. i \in 1 .. Len(s) + Len(t) /\ ~(i <= Len(s)) /\ i - Len(s) = k  BY <1>1, <2>1
  <2> QED  BY <1>4, <2>1, <2>2
<1> QED  BY <1>2, <1>3, <1>5, <1>6

LEMMA CatLeads ==
    ASSUME NEW s, NEW t, NEW m, NEW n, NEW p, LeadsAll(s, m, n), LeadsAll(t, n, p)
    PROVE  LeadsAll(s \o t, m, p)
<1>1. PICK f : Path(s, f, m, n)  BY DEF LeadsAll
<1>2. PICK g : Path(t, g, n, p)  BY DEF LeadsAll
<1>3. s \in Seq(ExactAction) /\ t \in Seq(ExactAction) /\ WellFormed(m)  BY <1>1, <1>2 DEF Path
<1>4. PICK u, i, j : u = s \o t /\ i = Len(s) /\ j = Len(t)  OBVIOUS
<1>5. i \in Nat /\ j \in Nat  BY <1>3, <1>4, LenProperties
<1>6. /\ u \in Seq(ExactAction) /\ Len(u) = i + j
      /\ \A k \in 1 .. i : u[k] = s[k]
      /\ \A k \in 1 .. j : u[i + k] = t[k]
      BY <1>3, <1>4, CatElements
<1>7. PICK h : h = [k \in 0 .. i + j |-> IF k <= i THEN f[k] ELSE g[k - i]]  OBVIOUS
<1>8. /\ f[0] = m /\ f[i] = n /\ g[0] = n /\ g[j] = p
      /\ \A k \in 1 .. i : Leads(s[k], f[k - 1], f[k])
      /\ \A k \in 1 .. j : Leads(t[k], g[k - 1], g[k])
      BY <1>1, <1>2, <1>4 DEF Path
<1>9. \A k \in 0 .. i : h[k] = f[k]  BY <1>5, <1>7
<1>10. ASSUME NEW k \in 0 .. j PROVE h[i + k] = g[k]
  <2>1. i + k \in 0 .. i + j /\ (i + k) - i = k  BY <1>5
  <2>2. CASE k = 0  BY <1>5, <1>7, <1>8, <2>1, <2>2
  <2>3. CASE k # 0
    <3>1. ~(i + k <= i)  BY <1>5, <2>3
    <3> QED  BY <1>7, <2>1, <3>1
  <2> QED  BY <2>2, <2>3
<1>11. h[0] = m  BY <1>5, <1>8, <1>9
<1>12. h[i + j] = p  BY <1>5, <1>8, <1>10
<1>13. ASSUME NEW k \in 1 .. i + j PROVE Leads(u[k], h[k - 1], h[k])
  <2>1. CASE k <= i
    <3>1. k \in 1 .. i /\ k - 1 \in 0 .. i /\ k \in 0 .. i  BY <1>5, <2>1
    <3> QED  BY <1>6, <1>8, <1>9, <3>1
  <2>2. CASE k > i
    <3>1. PICK l : l = k - i  OBVIOUS
    <3>2. l \in 1 .. j /\ l \in 0 .. j /\ l - 1 \in 0 .. j /\ k = i + l /\ k - 1 = i + (l - 1)
          BY <1>5, <2>2, <3>1
    <3>3. u[k] = t[l] /\ h[k] = g[l] /\ h[k - 1] = g[l - 1]  BY <1>6, <1>10, <3>2
    <3> QED  BY <1>8, <3>2, <3>3
  <2> QED  BY <1>5, <2>1, <2>2
<1>14. Path(u, h, m, p)  BY <1>3, <1>6, <1>11, <1>12, <1>13 DEF Path
<1> QED  BY <1>4, <1>14 DEF LeadsAll

\* One more action of a row.
LEMMA StepDone ==
    ASSUME NEW a, NEW r, r.ok
    PROVE  /\ \A d : d = RedoAction(a, r.map) /\ d.ok => RedoStep(r, a) = [ok |-> TRUE, map |-> d.map]
           /\ \A d : d = UndoAction(a, r.map) /\ d.ok => UndoStep(r, a) = [ok |-> TRUE, map |-> d.map]
<1>1. ASSUME NEW d, d.ok PROVE [ok |-> r.ok /\ d.ok, map |-> d.map] = [ok |-> TRUE, map |-> d.map]
  <2>1. PICK o : o = (r.ok /\ d.ok)  OBVIOUS
  <2>2. o = TRUE  BY <1>1, <2>1
  <2> QED  BY <1>1, <2>1, <2>2
<1>2. PICK d : d = RedoAction(a, r.map)  OBVIOUS
<1>3. PICK e : e = UndoAction(a, r.map)  OBVIOUS
<1>4. RedoStep(r, a) = [ok |-> r.ok /\ d.ok, map |-> d.map]  BY <1>2 DEF RedoStep
<1>5. UndoStep(r, a) = [ok |-> r.ok /\ e.ok, map |-> e.map]  BY <1>3 DEF UndoStep
<1>6. d.ok => RedoStep(r, a) = [ok |-> TRUE, map |-> d.map]  BY <1>1, <1>4
<1>7. e.ok => UndoStep(r, a) = [ok |-> TRUE, map |-> e.map]  BY <1>1, <1>5
<1> QED  BY <1>2, <1>3, <1>6, <1>7

Executed(r) == DOMAIN r = {"ok", "map", "valid"}

LEMMA ActionExecuted ==
    ASSUME NEW r, Executed(r), NEW a, NEW d, d = DoAction(a, r.map, TRUE)
    PROVE  LET q == ExecuteStep(r, a)
           IN  /\ Executed(q)
               /\ r.ok /\ d.ok => q.map = d.map /\ q.valid = Append(r.valid, d.act)
               /\ ~(r.ok /\ d.ok) => q.map = r.map /\ q.valid = r.valid
<1>1. PICK q : q = ExecuteStep(r, a)  OBVIOUS
<1>2. q = IF r.ok /\ d.ok THEN [ok |-> TRUE, map |-> d.map, valid |-> Append(r.valid, d.act)]
                          ELSE [r EXCEPT !.ok = FALSE]
      BY <1>1 DEF ExecuteStep
<1>3. CASE r.ok /\ d.ok
  <2>1. q = [ok |-> TRUE, map |-> d.map, valid |-> Append(r.valid, d.act)]  BY <1>2, <1>3, Zenon
  <2>2. Executed(q) /\ q.map = d.map /\ q.valid = Append(r.valid, d.act)  BY <2>1 DEF Executed
  <2> QED  BY <1>1, <1>3, <2>2
<1>4. CASE ~(r.ok /\ d.ok)
  <2>1. q = [r EXCEPT !.ok = FALSE]  BY <1>2, <1>4, Zenon
  <2>2. Executed(q) /\ q.map = r.map /\ q.valid = r.valid  BY <2>1 DEF Executed
  <2> QED  BY <1>1, <1>4, <2>2
<1> QED  BY <1>3, <1>4

\* Redone, they lead there.
LEMMA RedoLeads ==
    ASSUME NEW s, NEW m, NEW p, LeadsAll(s, m, p)
    PROVE  Redo(s, m) = [ok |-> TRUE, map |-> p]
<1>1. PICK g : Path(s, g, m, p)  BY DEF LeadsAll
<1>2. /\ s \in Seq(ExactAction) /\ g[0] = m /\ g[Len(s)] = p
      /\ \A k \in 1 .. Len(s) : Leads(s[k], g[k - 1], g[k])
      BY <1>1 DEF Path
<1>3. PICK h : /\ h[0] = [ok |-> TRUE, map |-> m]
               /\ \A k \in 1 .. Len(s) : h[k] = RedoStep(h[k - 1], s[k])
               /\ h[Len(s)] = Redo(s, m)
      BY <1>2, RedoFold
<1>4. PICK n : n = Len(s) /\ n \in Nat  BY <1>2, LenProperties
<1> DEFINE T == {k \in Nat : k <= n => h[k] = [ok |-> TRUE, map |-> g[k]]}
<1>5. 0 \in T  BY <1>2, <1>3
<1>6. ASSUME NEW k \in Nat, k \in T PROVE k + 1 \in T
  <2> SUFFICES ASSUME k + 1 <= n PROVE h[k + 1] = [ok |-> TRUE, map |-> g[k + 1]]  OBVIOUS
  <2>1. PICK l : l = k + 1  OBVIOUS
  <2>2. l \in 1 .. Len(s) /\ l - 1 = k /\ k <= n  BY <1>4, <2>1
  <2>3. h[k] = [ok |-> TRUE, map |-> g[k]]  BY <1>6, <2>2
  <2>4. h[l] = RedoStep(h[k], s[l]) /\ Leads(s[l], g[k], g[l])  BY <1>2, <1>3, <2>2
  <2>5. s[l] \in ExactAction  BY <1>2, <2>2, ElementOfSeq
  <2>6. RedoAction(s[l], g[k]).ok /\ RedoAction(s[l], g[k]).map = g[l]
        BY <2>4, <2>5, RedoneEffect DEF Leads
  <2>7. PICK r, x, y, b : r = h[k] /\ x = g[k] /\ y = g[l] /\ b = s[l]  OBVIOUS
  <2>8. RedoStep(r, b) = [ok |-> TRUE, map |-> y]
    <3>1. r = [ok |-> TRUE, map |-> x]  BY <2>3, <2>7
    <3>2. r.ok /\ r.map = x  BY <3>1
    <3>3. PICK d : d = RedoAction(b, r.map)  OBVIOUS
    <3>4. d.ok /\ d.map = y  BY <2>6, <2>7, <3>2, <3>3
    <3>5. RedoStep(r, b) = [ok |-> TRUE, map |-> d.map]  BY <3>2, <3>3, <3>4, StepDone
    <3> QED  BY <3>4, <3>5
  <2>9. h[l] = [ok |-> TRUE, map |-> y]  BY <2>4, <2>7, <2>8
  <2> QED  BY <2>1, <2>7, <2>9
<1> HIDE DEF T
<1>7. n \in T  BY <1>4, <1>5, <1>6, NatSetInduction
<1> QED  BY <1>2, <1>3, <1>4, <1>7 DEF T

\* Undone, they lead back.
LEMMA UndoLeads ==
    ASSUME NEW s, NEW m, NEW p, LeadsAll(s, m, p)
    PROVE  Undo(s, p) = [ok |-> TRUE, map |-> m]
<1>1. PICK g : Path(s, g, m, p)  BY DEF LeadsAll
<1>2. /\ s \in Seq(ExactAction) /\ g[0] = m /\ g[Len(s)] = p
      /\ \A k \in 1 .. Len(s) : Leads(s[k], g[k - 1], g[k])
      BY <1>1 DEF Path
<1>3. PICK h : /\ h[Len(s)] = [ok |-> TRUE, map |-> p]
               /\ \A k \in 1 .. Len(s) : h[k - 1] = UndoStep(h[k], s[k])
               /\ h[0] = Undo(s, p)
      BY <1>2, UndoFold
<1>4. PICK n : n = Len(s) /\ n \in Nat  BY <1>2, LenProperties
<1> DEFINE T == {j \in Nat : j <= n => h[n - j] = [ok |-> TRUE, map |-> g[n - j]]}
<1>5. 0 \in T
  <2>1. n - 0 = n  BY <1>4
  <2>2. h[n] = [ok |-> TRUE, map |-> g[n]]  BY <1>2, <1>3, <1>4
  <2> QED  BY <2>1, <2>2
<1>6. ASSUME NEW j \in Nat, j \in T PROVE j + 1 \in T
  <2> SUFFICES ASSUME j + 1 <= n PROVE h[n - (j + 1)] = [ok |-> TRUE, map |-> g[n - (j + 1)]]  OBVIOUS
  <2>1. PICK l : l = n - j  OBVIOUS
  <2>2. l \in 1 .. Len(s) /\ l - 1 = n - (j + 1) /\ j <= n  BY <1>4, <2>1
  <2>3. h[l] = [ok |-> TRUE, map |-> g[l]]  BY <1>6, <2>1, <2>2
  <2>4. h[l - 1] = UndoStep(h[l], s[l]) /\ Leads(s[l], g[l - 1], g[l])  BY <1>2, <1>3, <2>2
  <2>5. s[l] \in ExactAction  BY <1>2, <2>2, ElementOfSeq
  <2>6. UndoAction(s[l], g[l]).ok /\ UndoAction(s[l], g[l]).map = g[l - 1]
        BY <2>4, <2>5, UndoneEffect DEF Leads
  <2>7. PICK r, x, y, b : r = h[l] /\ x = g[l] /\ y = g[l - 1] /\ b = s[l]  OBVIOUS
  <2>8. UndoStep(r, b) = [ok |-> TRUE, map |-> y]
    <3>1. r = [ok |-> TRUE, map |-> x]  BY <2>3, <2>7
    <3>2. r.ok /\ r.map = x  BY <3>1
    <3>3. PICK d : d = UndoAction(b, r.map)  OBVIOUS
    <3>4. d.ok /\ d.map = y  BY <2>6, <2>7, <3>2, <3>3
    <3>5. UndoStep(r, b) = [ok |-> TRUE, map |-> d.map]  BY <3>2, <3>3, <3>4, StepDone
    <3> QED  BY <3>4, <3>5
  <2>9. h[l - 1] = [ok |-> TRUE, map |-> y]  BY <2>4, <2>7, <2>8
  <2> QED  BY <2>2, <2>7, <2>9
<1> HIDE DEF T
<1>7. n \in T  BY <1>4, <1>5, <1>6, NatSetInduction
<1>8. n - n = 0 /\ n <= n  BY <1>4
<1>9. h[n - n] = [ok |-> TRUE, map |-> g[n - n]]  BY <1>7, <1>8 DEF T
<1> QED  BY <1>2, <1>3, <1>8, <1>9

\* What is executed leads from the map there was to the map there is.
LEMMA ExecuteLeads ==
    ASSUME NEW s \in Seq(ExactAction), NEW m, WellFormed(m)
    PROVE  LeadsAll(Execute(s, m).valid, m, Execute(s, m).map)
<1>1. PICK h : /\ h[0] = [ok |-> TRUE, map |-> m, valid |-> <<>>]
               /\ \A k \in 1 .. Len(s) : h[k] = ExecuteStep(h[k - 1], s[k])
               /\ h[Len(s)] = Execute(s, m)
      BY ExecuteFold
<1>2. PICK n : n = Len(s) /\ n \in Nat  BY LenProperties
<1> DEFINE Good(r) == Executed(r) /\ LeadsAll(r.valid, m, r.map)
           T == {k \in Nat : k <= n => Good(h[k])}
<1>3. ASSUME NEW r, Good(r), NEW a \in ExactAction PROVE Good(ExecuteStep(r, a))
  <2>1. PICK v, p : v = r.valid /\ p = r.map  OBVIOUS
  <2>2. LeadsAll(v, m, p)  BY <1>3, <2>1
  <2>3. v \in Seq(ExactAction) /\ WellFormed(p)  BY <2>2, LeadsTyped
  <2>4. PICK d : d = DoAction(a, p, TRUE)  OBVIOUS
  <2>5. PICK q : q = ExecuteStep(r, a)  OBVIOUS
  <2>6. /\ Executed(q)
        /\ r.ok /\ d.ok => q.map = d.map /\ q.valid = Append(v, d.act)
        /\ ~(r.ok /\ d.ok) => q.map = p /\ q.valid = v
        BY <1>3, <2>1, <2>4, <2>5, ActionExecuted
  <2>7. CASE r.ok /\ d.ok
    <3>1. d.act \in ExactAction /\ WellFormed(d.map) /\ Effect(d.act, p, d.map)
          BY <2>3, <2>4, <2>7, DoneEffect
    <3>2. PICK b, x : b = d.act /\ x = d.map  OBVIOUS
    <3>3. b \in ExactAction /\ Leads(b, p, x)  BY <2>3, <3>1, <3>2 DEF Leads
    <3>4. LeadsAll(<<b>>, p, x)  BY <3>3, OneLeads
    <3>5. LeadsAll(v \o <<b>>, m, x)  BY <2>2, <3>4, CatLeads
    <3>6. Append(v, b) = v \o <<b>>  BY <2>3, <3>3, AppendIsConcat
    <3> QED  BY <2>5, <2>6, <2>7, <3>2, <3>5, <3>6
  <2>8. CASE ~(r.ok /\ d.ok)  BY <2>2, <2>5, <2>6, <2>8
  <2> QED  BY <2>7, <2>8
<1>4. Good(h[0])
  <2>1. PICK v, r : v = <<>> /\ r = h[0]  OBVIOUS
  <2>2. LeadsAll(v, m, m)  BY <2>1, EmptyLeads
  <2>3. r = [ok |-> TRUE, map |-> m, valid |-> v]  BY <1>1, <2>1
  <2>4. Executed(r) /\ r.map = m /\ r.valid = v  BY <2>3 DEF Executed
  <2> QED  BY <2>1, <2>2, <2>4
<1> HIDE DEF Good
<1>5. 0 \in T  BY <1>4
<1>6. ASSUME NEW k \in Nat, k \in T PROVE k + 1 \in T
  <2> SUFFICES ASSUME k + 1 <= n PROVE Good(h[k + 1])  OBVIOUS
  <2>1. PICK l : l = k + 1  OBVIOUS
  <2>2. l \in 1 .. Len(s) /\ l - 1 = k /\ k <= n  BY <1>2, <2>1
  <2>3. Good(h[k])  BY <1>6, <2>2
  <2>4. h[l] = ExecuteStep(h[k], s[l])  BY <1>1, <2>2
  <2>5. s[l] \in ExactAction  BY <2>2, ElementOfSeq
  <2> QED  BY <1>3, <2>1, <2>3, <2>4, <2>5
<1> HIDE DEF T
<1>7. n \in T  BY <1>2, <1>5, <1>6, NatSetInduction
<1>8. Good(Execute(s, m))  BY <1>1, <1>2, <1>7 DEF T
<1> QED  BY <1>8 DEF Good

\* Merging the first of the actions with those that were merged before.
LEMMA MergeStepLeads ==
    ASSUME NEW a \in ExactAction, NEW rest, NEW m, NEW x, NEW p,
           Leads(a, m, x), LeadsAll(rest, x, p)
    PROVE  LeadsAll(MergeStep(rest, a), m, p)
<1>1. rest \in Seq(ExactAction) /\ WellFormed(p)  BY LeadsTyped
<1>2. LeadsAll(<<a>>, m, x)  BY OneLeads
<1>3. LeadsAll(<<a>> \o rest, m, p)  BY <1>2, CatLeads
<1>4. CASE Len(rest) = 1
  <2>1. PICK b : b = rest[1]  OBVIOUS
  <2>2. b \in ExactAction  BY <1>1, <1>4, <2>1, ElementOfSeq
  <2>3. rest = <<b>>
    <3>1. PICK t : t = <<b>>  OBVIOUS
    <3>2. t \in Seq(ExactAction) /\ Len(t) = 1 /\ t[1] = b  BY <2>2, <3>1
    <3>3. \A i \in 1 .. 1 : t[i] = rest[i]  BY <2>1, <3>2
    <3>4. t = rest  BY <1>1, <1>4, <3>2, <3>3, SeqEqual
    <3> QED  BY <3>1, <3>4
  <2>4. Leads(b, x, p)  BY <2>2, <2>3, OneLeads
  <2>5. \/ MergeTwo(a, b) = <<a, b>>
        \/ \E c \in ExactAction : MergeTwo(a, b) = <<c>> /\ Effect(c, m, p)
        BY <2>2, <2>4, MergedEffect DEF Leads
  <2>6. MergeStep(rest, a) = MergeTwo(a, b)  BY <1>4, <2>1 DEF MergeStep
  <2>7. CASE MergeTwo(a, b) = <<a, b>>
    <3>1. <<a>> \o <<b>> = <<a, b>>
      <4>1. PICK u, v, w : u = <<a>> \o <<b>> /\ v = <<a, b>> /\ w = <<b>>  OBVIOUS
      <4>2. PICK q : q = <<a>>  OBVIOUS
      <4>3. q \in Seq(ExactAction) /\ Len(q) = 1 /\ q[1] = a  BY <4>2
      <4>4. w \in Seq(ExactAction) /\ Len(w) = 1 /\ w[1] = b  BY <2>2, <4>1
      <4>5. v \in Seq(ExactAction) /\ Len(v) = 2 /\ v[1] = a /\ v[2] = b  BY <2>2, <4>1
      <4>6. u = q \o w  BY <4>1, <4>2
      <4>7. /\ u \in Seq(ExactAction) /\ Len(u) = 1 + 1
            /\ \A k \in 1 .. 1 : u[k] = q[k]
            /\ \A k \in 1 .. 1 : u[1 + k] = w[k]
            BY <4>3, <4>4, <4>6, CatElements
      <4>8. \A k \in 1 .. 2 : u[k] = v[k]  BY <4>3, <4>4, <4>5, <4>7
      <4>9. u = v  BY <4>5, <4>7, <4>8, SeqEqual
      <4> QED  BY <4>1, <4>9
    <3> QED  BY <1>3, <2>3, <2>6, <2>7, <3>1
  <2>8. ASSUME NEW c \in ExactAction, MergeTwo(a, b) = <<c>>, Effect(c, m, p)
        PROVE  LeadsAll(MergeTwo(a, b), m, p)
    <3>1. Leads(c, m, p)  BY <1>1, <2>8 DEF Leads
    <3> QED  BY <2>8, <3>1, OneLeads
  <2> QED  BY <2>5, <2>6, <2>7, <2>8
<1>5. CASE Len(rest) # 1
  <2>1. MergeStep(rest, a) = <<a>> \o rest  BY <1>5 DEF MergeStep
  <2> QED  BY <1>3, <2>1
<1> QED  BY <1>4, <1>5

\* Merged, they lead where they led before.
LEMMA MergeLeads ==
    ASSUME NEW s, s # <<>>, NEW m, NEW p, LeadsAll(s, m, p)
    PROVE  LeadsAll(MergeActions(s), m, p)
<1>1. PICK g : Path(s, g, m, p)  BY DEF LeadsAll
<1>2. /\ s \in Seq(ExactAction) /\ g[0] = m /\ g[Len(s)] = p
      /\ \A k \in 1 .. Len(s) : Leads(s[k], g[k - 1], g[k])
      BY <1>1 DEF Path
<1>3. PICK h : /\ h[Len(s)] = <<s[Len(s)]>>
               /\ \A k \in 1 .. Len(s) - 1 : h[k] = MergeStep(h[k + 1], s[k])
               /\ h[1] = MergeActions(s)
      BY <1>2, MergeFold
<1>4. PICK n : n = Len(s) /\ n \in Nat /\ n >= 1  BY <1>2, LenProperties, EmptySeq
<1> DEFINE T == {j \in Nat : j < n => LeadsAll(h[n - j], g[n - j - 1], p)}
<1>5. 0 \in T
  <2>1. n - 0 = n /\ n - 0 - 1 = n - 1 /\ n \in 1 .. Len(s)  BY <1>4
  <2>2. s[n] \in ExactAction /\ Leads(s[n], g[n - 1], g[n])  BY <1>2, <2>1, ElementOfSeq
  <2>3. PICK a, x : a = s[n] /\ x = g[n - 1]  OBVIOUS
  <2>4. LeadsAll(<<a>>, x, p)  BY <1>2, <1>4, <2>2, <2>3, OneLeads
  <2> QED  BY <1>3, <1>4, <2>1, <2>3, <2>4
<1>6. ASSUME NEW j \in Nat, j \in T PROVE j + 1 \in T
  <2> SUFFICES ASSUME j + 1 < n PROVE LeadsAll(h[n - (j + 1)], g[n - (j + 1) - 1], p)  OBVIOUS
  <2>1. PICK l : l = n - (j + 1)  OBVIOUS
  <2>2. l \in 1 .. Len(s) - 1 /\ l \in 1 .. Len(s) /\ l + 1 = n - j /\ n - j - 1 = l /\ j < n
        BY <1>4, <2>1
  <2>3. LeadsAll(h[l + 1], g[l], p)  BY <1>6, <2>2
  <2>4. h[l] = MergeStep(h[l + 1], s[l]) /\ Leads(s[l], g[l - 1], g[l])  BY <1>2, <1>3, <2>2
  <2>5. s[l] \in ExactAction  BY <1>2, <2>2, ElementOfSeq
  <2>6. PICK a, rest, x, y : a = s[l] /\ rest = h[l + 1] /\ x = g[l - 1] /\ y = g[l]  OBVIOUS
  <2>7. LeadsAll(MergeStep(rest, a), x, p)  BY <2>3, <2>4, <2>5, <2>6, MergeStepLeads
  <2> QED  BY <2>1, <2>4, <2>6, <2>7
<1> HIDE DEF T
<1>7. n - 1 \in T  BY <1>4, <1>5, <1>6, NatSetInduction
<1>8. n - 1 < n /\ n - (n - 1) = 1 /\ n - (n - 1) - 1 = 0  BY <1>4
<1>9. LeadsAll(h[n - (n - 1)], g[n - (n - 1) - 1], p)  BY <1>7, <1>8 DEF T
<1> QED  BY <1>2, <1>3, <1>8, <1>9

\* Two requests that are executed one after the other, failing midway or not, and
\* whose executed actions are merged into one group, as the server does with requests
\* of one identifier: the group redoes both on the map before them and undoes both on
\* the map after them, however the single actions merged.
THEOREM MergedGroupsAreUndone ==
    ASSUME NEW s \in Seq(ExactAction), NEW t \in Seq(ExactAction), NEW m, WellFormed(m),
           NEW r, r = Execute(s, m), NEW q, q = Execute(t, r.map), r.valid \o q.valid # <<>>
    PROVE  LET group == MergeActions(r.valid \o q.valid)
           IN  /\ Redo(group, m) = [ok |-> TRUE, map |-> q.map]
               /\ Undo(group, q.map) = [ok |-> TRUE, map |-> m]
<1>1. LeadsAll(r.valid, m, r.map)  BY ExecuteLeads
<1>2. WellFormed(r.map)  BY <1>1, LeadsTyped
<1>3. PICK x : x = r.map  OBVIOUS
<1>4. LeadsAll(q.valid, x, q.map)  BY <1>2, <1>3, ExecuteLeads
<1>5. LeadsAll(r.valid \o q.valid, m, q.map)  BY <1>1, <1>3, <1>4, CatLeads
<1>6. LeadsAll(MergeActions(r.valid \o q.valid), m, q.map)  BY <1>5, MergeLeads
<1> QED  BY <1>6, RedoLeads, UndoLeads

(***************************************************************************)
(* Messages: what handling one does to the map of a tab.                   *)
(***************************************************************************)
MessageLeads(q, x, y) ==
    \/ q.type = "Map" /\ q.map = y
    \/ q.type = "RedoAction" /\ LeadsAll(q.actions, x, y)
    \/ q.type = "UndoAction" /\ LeadsAll(q.actions, y, x)

Open(x) == [state |-> "open", map |-> x]

LEMMA MessageHandled ==
    ASSUME NEW q, NEW x, NEW y, MessageLeads(q, x, y)
    PROVE  Handled(Open(x), q) = Open(y)
<1>1. PICK t : t = Open(x)  OBVIOUS
<1>2. t = [state |-> "open", map |-> x]  BY <1>1 DEF Open
<1>3. /\ t.map = x
      /\ \A z : [t EXCEPT !.map = z] = Open(z)
      BY <1>2 DEF Open
<1>4. CASE q.type = "Map" /\ q.map = y
  <2>1. Handled(t, q) = [t EXCEPT !.map = q.map]  BY <1>4 DEF Handled
  <2> QED  BY <1>1, <1>3, <1>4, <2>1
<1>5. CASE q.type = "RedoAction" /\ LeadsAll(q.actions, x, y)
  <2>1. PICK r : r = Redo(q.actions, x)  OBVIOUS
  <2>2. r = [ok |-> TRUE, map |-> y]  BY <1>5, <2>1, RedoLeads
  <2>3. r.ok /\ r.map = y  BY <2>2
  <2>4. Handled(t, q) = [t EXCEPT !.map = r.map]  BY <1>3, <1>5, <2>1, <2>3 DEF Handled
  <2> QED  BY <1>1, <1>3, <2>3, <2>4
<1>6. CASE q.type = "UndoAction" /\ LeadsAll(q.actions, y, x)
  <2>1. PICK r : r = Undo(q.actions, x)  OBVIOUS
  <2>2. r = [ok |-> TRUE, map |-> y]  BY <1>6, <2>1, UndoLeads
  <2>3. r.ok /\ r.map = y  BY <2>2
  <2>4. Handled(t, q) = [t EXCEPT !.map = r.map]  BY <1>3, <1>6, <2>1, <2>3 DEF Handled
  <2> QED  BY <1>1, <1>3, <2>3, <2>4
<1> QED  BY <1>4, <1>5, <1>6 DEF MessageLeads

\* Messages in a row.
TrailOver(q, g, x, y) ==
    /\ g[0] = x /\ g[Len(q)] = y
    /\ \A k \in 1 .. Len(q) : MessageLeads(q[k], g[k - 1], g[k])
Trail(q, x, y) == \E g : TrailOver(q, g, x, y)

LEMMA TrailHandled ==
    ASSUME NEW S, NEW q \in Seq(S), NEW x, NEW y, Trail(q, x, y)
    PROVE  FoldLeft(Handled, Open(x), q) = Open(y)
<1>1. PICK g : TrailOver(q, g, x, y)  BY DEF Trail
<1>2. PICK h : /\ h[0] = Open(x)
               /\ \A k \in 1 .. Len(q) : h[k] = Handled(h[k - 1], q[k])
               /\ h[Len(q)] = FoldLeft(Handled, Open(x), q)
      BY HandleFold
<1>3. PICK n : n = Len(q) /\ n \in Nat  BY LenProperties
<1> DEFINE T == {k \in Nat : k <= n => h[k] = Open(g[k])}
<1>4. 0 \in T  BY <1>1, <1>2 DEF TrailOver
<1>5. ASSUME NEW k \in Nat, k \in T PROVE k + 1 \in T
  <2> SUFFICES ASSUME k + 1 <= n PROVE h[k + 1] = Open(g[k + 1])  OBVIOUS
  <2>1. PICK l : l = k + 1  OBVIOUS
  <2>2. l \in 1 .. Len(q) /\ l - 1 = k /\ k <= n  BY <1>3, <2>1
  <2>3. h[k] = Open(g[k])  BY <1>5, <2>2
  <2>4. h[l] = Handled(h[k], q[l]) /\ MessageLeads(q[l], g[k], g[l])  BY <1>1, <1>2, <2>2 DEF TrailOver
  <2>5. PICK e, u, v : e = q[l] /\ u = g[k] /\ v = g[l]  OBVIOUS
  <2>6. Handled(Open(u), e) = Open(v)  BY <2>4, <2>5, MessageHandled
  <2> QED  BY <2>1, <2>3, <2>4, <2>5, <2>6
<1> HIDE DEF T
<1>6. n \in T  BY <1>3, <1>4, <1>5, NatSetInduction
<1>7. h[n] = Open(g[n])  BY <1>3, <1>6 DEF T
<1> QED  BY <1>1, <1>2, <1>3, <1>7 DEF TrailOver

LEMMA TrailEmpty == \A x : Trail(<<>>, x, x)
<1>1. ASSUME NEW x PROVE Trail(<<>>, x, x)
  <2>1. Len(<<>>) = 0  BY EmptySeq
  <2>2. TrailOver(<<>>, [k \in {0} |-> x], x, x)  BY <2>1 DEF TrailOver
  <2> QED  BY <2>2 DEF Trail
<1> QED  BY <1>1

LEMMA TrailAppend ==
    ASSUME NEW S, NEW q \in Seq(S), NEW e \in S, NEW x, NEW y, NEW z,
           Trail(q, x, y), MessageLeads(e, y, z)
    PROVE  Trail(Append(q, e), x, z)
<1>1. PICK g : TrailOver(q, g, x, y)  BY DEF Trail
<1>2. PICK n, t : n = Len(q) /\ n \in Nat /\ t = Append(q, e)  BY LenProperties
<1>3. Len(t) = n + 1 /\ t[n + 1] = e /\ \A k \in 1 .. n : t[k] = q[k]
      BY <1>2, AppendProperties
<1>4. PICK h : h = [k \in 0 .. n + 1 |-> IF k = n + 1 THEN z ELSE g[k]]  OBVIOUS
<1>5. h[n + 1] = z /\ \A k \in 0 .. n : h[k] = g[k]  BY <1>2, <1>4
<1>6. h[0] = x /\ h[n] = y  BY <1>1, <1>2, <1>5 DEF TrailOver
<1>7. ASSUME NEW k \in 1 .. n + 1 PROVE MessageLeads(t[k], h[k - 1], h[k])
  <2>1. CASE k = n + 1
    <3>1. k - 1 = n  BY <1>2, <2>1
    <3> QED  BY <1>3, <1>5, <1>6, <2>1, <3>1
  <2>2. CASE k # n + 1
    <3>1. k \in 1 .. n /\ k - 1 \in 0 .. n /\ k \in 0 .. n  BY <1>2, <2>2
    <3> QED  BY <1>1, <1>2, <1>3, <1>5, <3>1 DEF TrailOver
  <2> QED  BY <2>1, <2>2
<1>8. TrailOver(t, h, x, z)  BY <1>3, <1>5, <1>6, <1>7 DEF TrailOver
<1> QED  BY <1>2, <1>8 DEF Trail

LEMMA TrailTail ==
    ASSUME NEW S, NEW q \in Seq(S), q # <<>>, NEW x, NEW y, Trail(q, x, y)
    PROVE  \E z : MessageLeads(Head(q), x, z) /\ Trail(Tail(q), z, y)
<1>1. PICK g : TrailOver(q, g, x, y)  BY DEF Trail
<1>0. PICK n : n = Len(q) /\ n \in Nat /\ n >= 1  BY LenProperties, EmptySeq
<1>2. PICK t : t = Tail(q)  OBVIOUS
<1>3. Len(t) = n - 1 /\ Head(q) = q[1] /\ \A k \in 1 .. n - 1 : t[k] = q[k + 1]
      BY <1>0, <1>2, HeadTailProperties
<1>4. PICK h : h = [k \in 0 .. n - 1 |-> g[k + 1]]  OBVIOUS
<1>5. h[0] = g[1] /\ h[n - 1] = g[n]  BY <1>0, <1>4
<1>6. ASSUME NEW k \in 1 .. n - 1 PROVE MessageLeads(t[k], h[k - 1], h[k])
  <2>1. PICK l : l = k + 1  OBVIOUS
  <2>2. l \in 1 .. n /\ l - 1 = k /\ (k - 1) + 1 = k /\ k - 1 \in 0 .. n - 1 /\ k \in 0 .. n - 1
        BY <1>0, <2>1
  <2>3. h[k - 1] = g[k] /\ h[k] = g[l] /\ t[k] = q[l]  BY <1>3, <1>4, <2>1, <2>2
  <2>4. MessageLeads(q[l], g[k], g[l])  BY <1>0, <1>1, <2>2 DEF TrailOver
  <2> QED  BY <2>3, <2>4
<1>7. PICK z : z = g[1]  OBVIOUS
<1>8. TrailOver(t, h, z, y)  BY <1>0, <1>1, <1>2, <1>3, <1>5, <1>6, <1>7 DEF TrailOver
<1>9. MessageLeads(q[1], x, z)
  <2>1. 1 \in 1 .. n /\ 1 - 1 = 0  BY <1>0
  <2>2. MessageLeads(q[1], g[0], g[1])  BY <1>0, <1>1, <2>1 DEF TrailOver
  <2> QED  BY <1>1, <1>7, <2>2 DEF TrailOver
<1> QED  BY <1>2, <1>3, <1>8, <1>9 DEF Trail

\* What is before the map does not matter.
LEMMA TrailFromMap ==
    ASSUME NEW S, NEW q \in Seq(S), q # <<>>, q[1].type = "Map", NEW x, NEW y, NEW z, Trail(q, x, y)
    PROVE  Trail(q, z, y)
<1>1. PICK g : TrailOver(q, g, x, y)  BY DEF Trail
<1>2. PICK n : n = Len(q) /\ n \in Nat /\ n >= 1  BY LenProperties, EmptySeq
<1>3. PICK h : h = [k \in 0 .. n |-> IF k = 0 THEN z ELSE g[k]]  OBVIOUS
<1>4. h[0] = z /\ \A k \in 1 .. n : h[k] = g[k]  BY <1>2, <1>3
<1>5. ASSUME NEW k \in 1 .. n PROVE MessageLeads(q[k], h[k - 1], h[k])
  <2>1. MessageLeads(q[k], g[k - 1], g[k])  BY <1>1, <1>2 DEF TrailOver
  <2>2. CASE k = 1  BY <1>4, <2>1, <2>2 DEF MessageLeads
  <2>3. CASE k # 1
    <3>1. k - 1 \in 1 .. n  BY <1>2, <2>3
    <3> QED  BY <1>4, <2>1, <3>1
  <2> QED  BY <2>2, <2>3
<1>6. h[n] = y  BY <1>1, <1>2, <1>4 DEF TrailOver
<1>7. TrailOver(q, h, z, y)  BY <1>2, <1>4, <1>5, <1>6 DEF TrailOver
<1> QED  BY <1>7 DEF Trail

(***************************************************************************)
(* The server's list of action groups: its index and its length.           *)
(***************************************************************************)
\* What actions and maps are does not matter here, only that the two lists are
\* sequences.
IsSeq(s) == \E S : s \in Seq(S)

IndInv ==
    /\ IsSeq(action_groups)
    /\ IsSeq(seen)
    /\ HistoryBounds

(***************************************************************************)
(* Sequences                                                               *)
(***************************************************************************)
LEMMA AppendIsSeq ==
    ASSUME NEW s, IsSeq(s), NEW e
    PROVE  IsSeq(Append(s, e)) /\ Len(Append(s, e)) = Len(s) + 1
<1>1. PICK S : s \in Seq(S)  BY DEF IsSeq
<1>2. s \in Seq(S \cup {e}) /\ e \in S \cup {e}  BY <1>1
<1>3. Append(s, e) \in Seq(S \cup {e}) /\ Len(Append(s, e)) = Len(s) + 1
      BY <1>2, AppendProperties
<1> QED  BY <1>3 DEF IsSeq

LEMMA FrontIsSeq ==
    ASSUME NEW s, IsSeq(s), NEW n \in 0 .. Len(s)
    PROVE  IsSeq(SubSeq(s, 1, n)) /\ Len(SubSeq(s, 1, n)) = n
<1>1. PICK S : s \in Seq(S)  BY DEF IsSeq
<1>2. Len(s) \in Nat  BY <1>1, LenProperties
<1>3. SubSeq(s, 1, n) \in Seq(S) /\ Len(SubSeq(s, 1, n)) = n
      BY <1>1, <1>2
<1> QED  BY <1>3 DEF IsSeq

LEMMA TailIsSeq ==
    ASSUME NEW s, IsSeq(s), Len(s) > 0
    PROVE  IsSeq(Tail(s)) /\ Len(Tail(s)) = Len(s) - 1
<1>1. PICK S : s \in Seq(S)  BY DEF IsSeq
<1>2. s # <<>>  BY <1>1
<1>3. Tail(s) \in Seq(S) /\ Len(Tail(s)) = Len(s) - 1  BY <1>1, <1>2, HeadTailProperties
<1> QED  BY <1>3 DEF IsSeq

LEMMA ReplaceIsSeq ==
    ASSUME NEW s, IsSeq(s), NEW i \in 1 .. Len(s), NEW e
    PROVE  IsSeq([s EXCEPT ![i] = e]) /\ Len([s EXCEPT ![i] = e]) = Len(s)
<1>1. PICK S : s \in Seq(S)  BY DEF IsSeq
<1>2. s \in Seq(S \cup {e}) /\ e \in S \cup {e}  BY <1>1
<1>3. [s EXCEPT ![i] = e] \in Seq(S \cup {e}) /\ Len([s EXCEPT ![i] = e]) = Len(s)
      BY <1>2, ExceptSeq
<1> QED  BY <1>3 DEF IsSeq

LEMMA LenIsNat ==
    ASSUME NEW s, IsSeq(s)
    PROVE  Len(s) \in Nat
BY LenProperties DEF IsSeq

(***************************************************************************)
(* The list after a request                                                *)
(***************************************************************************)
\* A recorded request leaves the list up to the index, or one longer.
LEMMA RecordedLength ==
    ASSUME IndInv, NEW valid, NEW identifier
    PROVE  LET groups == Recorded(valid, identifier)
           IN  /\ IsSeq(groups)
               /\ Len(groups) \in {cur_action_group, cur_action_group + 1}
               /\ Len(groups) > 0
<1> DEFINE kept == SubSeq(action_groups, 1, cur_action_group)
           joined == [Last(kept) EXCEPT !.actions = MergeActions(@ \o valid)]
           new == [actions |-> valid, identifier |-> identifier]
<1>1. IsSeq(kept) /\ Len(kept) = cur_action_group /\ cur_action_group \in Nat
      BY FrontIsSeq, LenIsNat DEF IndInv, HistoryBounds
<1>2. CASE Joins(kept, identifier)
  <2>1. Recorded(valid, identifier) = [kept EXCEPT ![Len(kept)] = joined]
        BY <1>2 DEF Recorded
  <2>2. Len(kept) \in 1 .. Len(kept)
    <3>1. kept # <<>>  BY <1>2 DEF Joins
    <3>2. PICK S : kept \in Seq(S)  BY <1>1 DEF IsSeq
    <3> QED  BY <1>1, <3>1, <3>2, EmptySeq
  <2> HIDE DEF kept, joined
  <2>3. IsSeq([kept EXCEPT ![Len(kept)] = joined])
        /\ Len([kept EXCEPT ![Len(kept)] = joined]) = Len(kept)
        BY <1>1, <2>2, ReplaceIsSeq
  <2> QED  BY <1>1, <2>1, <2>2, <2>3
<1>3. CASE ~Joins(kept, identifier)
  <2>1. Recorded(valid, identifier) = Append(kept, new)
        BY <1>3 DEF Recorded
  <2> HIDE DEF kept, new
  <2> QED  BY <1>1, <2>1, AppendIsSeq
<1> QED  BY <1>2, <1>3

(***************************************************************************)
(* The invariant                                                           *)
(***************************************************************************)
\* The server starts with an empty list of action groups.
LEMMA InitHistory == Init => IndInv
<1> SUFFICES ASSUME Init PROVE IndInv  OBVIOUS
<1>1. IsSeq(action_groups)
  <2>1. action_groups \in Seq({StartMap})  BY DEF Init
  <2> QED  BY <2>1 DEF IsSeq
<1>2. IsSeq(seen)
  <2>1. seen \in Seq({StartMap})  BY DEF Init
  <2> QED  BY <2>1 DEF IsSeq
<1>3. HistoryBounds  BY MaxHistoryAssumption DEF Init, HistoryBounds
<1> QED  BY <1>1, <1>2, <1>3 DEF IndInv

\* A request: the list is cut, grows by at most one, and is trimmed.
LEMMA DoKeepsHistory ==
    ASSUME IndInv, NEW m, NEW request, Do(m, request)
    PROVE  IndInv'
<1> DEFINE actions == [i \in DOMAIN request.actions |-> Filled(request.actions[i], m)]
           done == Execute(actions, map)
           groups == Recorded(done.valid, request.identifier)
           grown == Append(SubSeq(seen, 1, Len(groups)), done.map)
<1>1. /\ action_groups' = Trim(groups)
      /\ cur_action_group' = Len(Trim(groups))
      /\ seen' = IF Len(groups) > MaxHistory THEN Tail(grown) ELSE grown
      BY DEF Do
<1>2. /\ IsSeq(groups)
      /\ Len(groups) \in {cur_action_group, cur_action_group + 1}
      /\ Len(groups) > 0
      BY RecordedLength
<1>3. /\ IsSeq(seen) /\ Len(seen) = Len(action_groups) + 1
      /\ Len(action_groups) \in Nat /\ Len(action_groups) <= MaxHistory
      /\ cur_action_group \in 0 .. Len(action_groups)
      BY LenIsNat DEF IndInv, HistoryBounds
<1> HIDE DEF groups
<1>4. Len(groups) \in Nat /\ Len(groups) \in 0 .. Len(seen) /\ Len(groups) <= MaxHistory + 1
      BY <1>2, <1>3, MaxHistoryAssumption
<1>5. IsSeq(grown) /\ Len(grown) = Len(groups) + 1
      BY <1>3, <1>4, FrontIsSeq, AppendIsSeq
<1> HIDE DEF grown
<1>6. CASE Len(groups) > MaxHistory
  <2>1. action_groups' = Tail(groups) /\ cur_action_group' = Len(Tail(groups)) /\ seen' = Tail(grown)
        BY <1>1, <1>6 DEF Trim
  <2>2. IsSeq(Tail(groups)) /\ Len(Tail(groups)) = Len(groups) - 1
        BY <1>2, TailIsSeq
  <2>3. IsSeq(Tail(grown)) /\ Len(Tail(grown)) = Len(groups)
        BY <1>4, <1>5, TailIsSeq
  <2> QED  BY <1>4, <1>6, <2>1, <2>2, <2>3, MaxHistoryAssumption DEF IndInv, HistoryBounds, IsSeq
<1>7. CASE ~(Len(groups) > MaxHistory)
  <2>1. action_groups' = groups /\ cur_action_group' = Len(groups) /\ seen' = grown
        BY <1>1, <1>7 DEF Trim
  <2> QED  BY <1>2, <1>4, <1>5, <1>7, <2>1, MaxHistoryAssumption DEF IndInv, HistoryBounds, IsSeq
<1> QED  BY <1>6, <1>7

\* Whatever the server does to the list, the index of the current group stays in it.
LEMMA StepHistory == IndInv /\ [Next]_vars => IndInv'
<1> SUFFICES ASSUME IndInv, [Next]_vars PROVE IndInv'  OBVIOUS
<1>1. CASE HostRequest  BY <1>1, DoKeepsHistory DEF HostRequest
<1>2. ASSUME NEW c \in Client, ClientRequest(c) PROVE IndInv'
      BY <1>2, DoKeepsHistory DEF ClientRequest
<1>3. CASE UndoCommand
  <2>1. Len(action_groups) \in Nat  BY LenIsNat DEF IndInv
  <2> QED  BY <1>3, <2>1 DEF UndoCommand, IndInv, HistoryBounds, IsSeq
<1>4. CASE RedoCommand
  <2>1. Len(action_groups) \in Nat  BY LenIsNat DEF IndInv
  <2> QED  BY <1>4, <2>1 DEF RedoCommand, IndInv, HistoryBounds, IsSeq
<1>5. CASE UNCHANGED serverVars
      BY <1>5 DEF serverVars, IndInv, HistoryBounds, IsSeq
<1>6. ASSUME NEW c \in Client, Connect(c) \/ Auth(c) \/ Disconnect(c) \/ Update(c)
      PROVE  UNCHANGED serverVars
      BY <1>6 DEF Connect, Auth, Disconnect, Update
<1> QED  BY <1>1, <1>2, <1>3, <1>4, <1>5, <1>6 DEF Next, vars

\* The index is inside the list and the list inside its limit, in every state of
\* every instance.
THEOREM HistoryStaysInBounds == Spec => []HistoryBounds
<1>1. IndInv => HistoryBounds  BY DEF IndInv
<1> QED  BY <1>1, InitHistory, StepHistory, PTL DEF Spec

\* The panic "action group did not exists. logic bug" (server.rs:592): the group an
\* undo or redo command asks for is there.
GroupExists ==
    /\ cur_action_group > 0 => cur_action_group \in DOMAIN action_groups
    /\ cur_action_group < Len(action_groups) => cur_action_group + 1 \in DOMAIN action_groups

\* The undo and the redo command (server.rs:592, 598) always find their group.
THEOREM GroupAlwaysExists == Spec => []GroupExists
<1>1. IndInv => GroupExists
  <2> SUFFICES ASSUME IndInv PROVE GroupExists  OBVIOUS
  <2>1. PICK S : action_groups \in Seq(S)  BY DEF IndInv, IsSeq
  <2>2. DOMAIN action_groups = 1 .. Len(action_groups) /\ Len(action_groups) \in Nat
        BY <2>1, LenProperties
  <2> QED  BY <2>2 DEF IndInv, HistoryBounds, GroupExists
<1> QED  BY <1>1, InitHistory, StepHistory, PTL DEF Spec

(***************************************************************************)
(* The history: every group leads from a map of the history to the next.   *)
(***************************************************************************)
GroupLeads(g, x, y) == "actions" \in DOMAIN g /\ LeadsAll(g.actions, x, y)

Linked(groups, maps) ==
    /\ IsSeq(groups) /\ IsSeq(maps)
    /\ Len(maps) = Len(groups) + 1
    /\ \A i \in 1 .. Len(groups) : GroupLeads(groups[i], maps[i], maps[i + 1])

LEMMA AppendElements ==
    ASSUME NEW s, IsSeq(s), NEW e
    PROVE  Append(s, e)[Len(s) + 1] = e /\ \A i \in 1 .. Len(s) : Append(s, e)[i] = s[i]
<1>1. PICK S : s \in Seq(S)  BY DEF IsSeq
<1>2. s \in Seq(S \cup {e}) /\ e \in S \cup {e}  BY <1>1
<1> QED  BY <1>2, AppendProperties

LEMMA FrontElements ==
    ASSUME NEW s, IsSeq(s), NEW n \in 0 .. Len(s)
    PROVE  \A i \in 1 .. n : SubSeq(s, 1, n)[i] = s[i]
<1>1. PICK S : s \in Seq(S)  BY DEF IsSeq
<1>2. Len(s) \in Nat  BY <1>1, LenProperties
<1>3. \A i \in 1 .. n : s[i] \in S  BY <1>1, <1>2, ElementOfSeq
<1>4. \A i \in 1 .. n - 1 + 1 : SubSeq(s, 1, n)[i] = s[1 + i - 1]
  <2>1. 1 \in Int /\ n \in Int  BY <1>2
  <2> QED  BY <1>3, <2>1, SubSeqProperties
<1> QED  BY <1>2, <1>4

LEMMA TailElements ==
    ASSUME NEW s, IsSeq(s), Len(s) > 0
    PROVE  \A i \in 1 .. Len(s) - 1 : Tail(s)[i] = s[i + 1]
<1>1. PICK S : s \in Seq(S)  BY DEF IsSeq
<1>2. s # <<>>  BY <1>1
<1> QED  BY <1>1, <1>2, HeadTailProperties

\* The maps up to the k-th and one more.
LEMMA GrownElements ==
    ASSUME NEW s, IsSeq(s), NEW k \in 0 .. Len(s), NEW p
    PROVE  LET t == Append(SubSeq(s, 1, k), p)
           IN  /\ IsSeq(t) /\ Len(t) = k + 1 /\ t[k + 1] = p
               /\ \A i \in 1 .. k : t[i] = s[i]
<1>1. PICK f : f = SubSeq(s, 1, k)  OBVIOUS
<1>2. IsSeq(f) /\ Len(f) = k /\ \A i \in 1 .. k : f[i] = s[i]
      BY <1>1, FrontIsSeq, FrontElements
<1>3. PICK t : t = Append(f, p)  OBVIOUS
<1>4. IsSeq(t) /\ Len(t) = k + 1 /\ t[k + 1] = p /\ \A i \in 1 .. k : t[i] = f[i]
      BY <1>2, <1>3, AppendIsSeq, AppendElements
<1> QED  BY <1>1, <1>2, <1>3, <1>4

LEMMA LinkedAppend ==
    ASSUME NEW groups, NEW maps, Linked(groups, maps), NEW k \in 0 .. Len(groups), NEW g, NEW p,
           GroupLeads(g, maps[k + 1], p)
    PROVE  Linked(Append(SubSeq(groups, 1, k), g), Append(SubSeq(maps, 1, k + 1), p))
<1>1. IsSeq(groups) /\ IsSeq(maps) /\ Len(groups) \in Nat /\ Len(maps) = Len(groups) + 1
      BY LenIsNat DEF Linked
<1>2. PICK l : l = k + 1 /\ l \in 0 .. Len(maps)  BY <1>1
<1>3. PICK t : t = Append(SubSeq(groups, 1, k), g)  OBVIOUS
<1>4. PICK u : u = Append(SubSeq(maps, 1, l), p)  OBVIOUS
<1>5. IsSeq(t) /\ Len(t) = k + 1 /\ t[k + 1] = g /\ \A i \in 1 .. k : t[i] = groups[i]
      BY <1>1, <1>3, GrownElements
<1>6. IsSeq(u) /\ Len(u) = l + 1 /\ u[l + 1] = p /\ \A i \in 1 .. l : u[i] = maps[i]
      BY <1>1, <1>2, <1>4, GrownElements
<1>7. ASSUME NEW i \in 1 .. k + 1 PROVE GroupLeads(t[i], u[i], u[i + 1])
  <2>1. CASE i = k + 1
    <3>1. t[i] = g /\ u[i + 1] = p  BY <1>2, <1>5, <1>6, <2>1
    <3>2. u[i] = maps[i]  BY <1>1, <1>2, <1>6, <2>1
    <3> QED  BY <2>1, <3>1, <3>2
  <2>2. CASE i # k + 1
    <3>1. i \in 1 .. k /\ i \in 1 .. l /\ i + 1 \in 1 .. l /\ i \in 1 .. Len(groups)
          BY <1>1, <1>2, <2>2
    <3>2. t[i] = groups[i] /\ u[i] = maps[i] /\ u[i + 1] = maps[i + 1]  BY <1>5, <1>6, <3>1
    <3> QED  BY <3>1, <3>2 DEF Linked
  <2> QED  BY <2>1, <2>2
<1>8. Linked(t, u)  BY <1>1, <1>2, <1>5, <1>6, <1>7 DEF Linked
<1> QED  BY <1>2, <1>3, <1>4, <1>8

LEMMA LinkedReplace ==
    ASSUME NEW groups, NEW maps, Linked(groups, maps), NEW k \in 1 .. Len(groups), NEW g, NEW p,
           GroupLeads(g, maps[k], p)
    PROVE  Linked([SubSeq(groups, 1, k) EXCEPT ![k] = g], Append(SubSeq(maps, 1, k), p))
<1>1. IsSeq(groups) /\ IsSeq(maps) /\ Len(groups) \in Nat /\ Len(maps) = Len(groups) + 1
      BY LenIsNat DEF Linked
<1>2. k \in 0 .. Len(groups) /\ k \in 0 .. Len(maps)  BY <1>1
<1>3. PICK f : f = SubSeq(groups, 1, k)  OBVIOUS
<1>4. IsSeq(f) /\ Len(f) = k /\ \A i \in 1 .. k : f[i] = groups[i]
      BY <1>1, <1>2, <1>3, FrontIsSeq, FrontElements
<1>5. PICK t : t = [f EXCEPT ![k] = g]  OBVIOUS
<1>6. IsSeq(t) /\ Len(t) = k
  <2>1. k \in 1 .. Len(f)  BY <1>1, <1>4
  <2> QED  BY <1>4, <1>5, <2>1, ReplaceIsSeq
<1>7. \A i \in 1 .. k : t[i] = IF i = k THEN g ELSE groups[i]
  <2>1. PICK S : f \in Seq(S)  BY <1>4 DEF IsSeq
  <2>2. DOMAIN f = 1 .. k  BY <1>4, <2>1, LenProperties
  <2> QED  BY <1>4, <1>5, <2>2
<1>8. PICK u : u = Append(SubSeq(maps, 1, k), p)  OBVIOUS
<1>9. IsSeq(u) /\ Len(u) = k + 1 /\ u[k + 1] = p /\ \A i \in 1 .. k : u[i] = maps[i]
      BY <1>1, <1>2, <1>8, GrownElements
<1>10. ASSUME NEW i \in 1 .. k PROVE GroupLeads(t[i], u[i], u[i + 1])
  <2>1. CASE i = k  BY <1>7, <1>9, <2>1
  <2>2. CASE i # k
    <3>1. i + 1 \in 1 .. k /\ i \in 1 .. Len(groups)  BY <1>1, <2>2
    <3>2. t[i] = groups[i] /\ u[i] = maps[i] /\ u[i + 1] = maps[i + 1]  BY <1>7, <1>9, <2>2, <3>1
    <3> QED  BY <3>1, <3>2 DEF Linked
  <2> QED  BY <2>1, <2>2
<1>11. Linked(t, u)  BY <1>6, <1>9, <1>10 DEF Linked
<1> QED  BY <1>3, <1>5, <1>8, <1>11

LEMMA LinkedTail ==
    ASSUME NEW groups, NEW maps, Linked(groups, maps), Len(groups) > 0
    PROVE  /\ Linked(Tail(groups), Tail(maps))
           /\ Tail(maps)[Len(groups)] = maps[Len(groups) + 1]
<1>1. IsSeq(groups) /\ IsSeq(maps) /\ Len(groups) \in Nat /\ Len(maps) = Len(groups) + 1
      BY LenIsNat DEF Linked
<1>2. PICK t : t = Tail(groups)  OBVIOUS
<1>3. PICK u : u = Tail(maps)  OBVIOUS
<1>4. /\ IsSeq(t) /\ Len(t) = Len(groups) - 1
      /\ \A i \in 1 .. Len(groups) - 1 : t[i] = groups[i + 1]
      BY <1>1, <1>2, TailIsSeq, TailElements
<1>5. /\ IsSeq(u) /\ Len(u) = Len(groups)
      /\ \A i \in 1 .. Len(groups) : u[i] = maps[i + 1]
  <2>1. Len(maps) > 0 /\ Len(maps) - 1 = Len(groups)  BY <1>1
  <2> QED  BY <1>1, <1>3, <2>1, TailIsSeq, TailElements
<1>6. ASSUME NEW i \in 1 .. Len(groups) - 1 PROVE GroupLeads(t[i], u[i], u[i + 1])
  <2>1. PICK j : j = i + 1  OBVIOUS
  <2>2. i \in 1 .. Len(groups) /\ j \in 1 .. Len(groups)  BY <1>1, <2>1
  <2>3. t[i] = groups[j] /\ u[i] = maps[j] /\ u[j] = maps[j + 1]  BY <1>4, <1>5, <2>1, <2>2
  <2> QED  BY <2>1, <2>2, <2>3 DEF Linked
<1>7. Linked(t, u)  BY <1>1, <1>4, <1>5, <1>6 DEF Linked
<1>8. u[Len(groups)] = maps[Len(groups) + 1]  BY <1>1, <1>5
<1> QED  BY <1>2, <1>3, <1>7, <1>8

(***************************************************************************)
(* What the theorems about whole behaviours assume: the users ask for the  *)
(* actions that undo takes back, and the server loaded a proper map.       *)
(***************************************************************************)
ExactRequests ==
    /\ \A r \in Request : r.actions \in Seq(ExactAction)
    /\ WellFormed(StartMap)

\* The server's part of the invariant: every action group leads from one map of the
\* history to the next, and the map there is is that of the current group.
EditInv ==
    /\ IndInv
    /\ Linked(action_groups, seen)
    /\ map = seen[cur_action_group + 1]
    /\ WellFormed(map)

LEMMA NothingToFill == ASSUME NEW a \in ExactAction, NEW m PROVE Filled(a, m) = a
<1>1. a.op # "TileLayerAttr" /\ a.op # "PhysicsGroupAttr"
  <2>1. a.op \in ExactOps  BY ActionKinds
  <2> QED  BY <2>1 DEF ExactOps
<1> QED  BY <1>1 DEF Filled

LEMMA AskedAsIs ==
    ASSUME NEW s \in Seq(ExactAction), NEW m
    PROVE  [i \in DOMAIN s |-> Filled(s[i], m)] = s
<1>1. s = [i \in DOMAIN s |-> s[i]] /\ DOMAIN s = 1 .. Len(s)  BY LenProperties
<1>2. \A i \in DOMAIN s : Filled(s[i], m) = s[i]  BY <1>1, ElementOfSeq, NothingToFill
<1> QED  BY <1>1, <1>2

\* What is recorded leads from the maps there were to the new map.
LEMMA RecordedLeads ==
    ASSUME EditInv, NEW valid, NEW p, LeadsAll(valid, map, p), valid # <<>>, NEW identifier
    PROVE  LET groups == Recorded(valid, identifier)
           IN  Linked(groups, Append(SubSeq(seen, 1, Len(groups)), p))
<1>1. PICK k : k = cur_action_group  OBVIOUS
<1>2. /\ IsSeq(action_groups) /\ Len(action_groups) \in Nat /\ k \in 0 .. Len(action_groups)
      /\ Linked(action_groups, seen) /\ map = seen[k + 1]
      BY <1>1, LenIsNat DEF EditInv, IndInv, HistoryBounds
<1>3. PICK kept : kept = SubSeq(action_groups, 1, k)  OBVIOUS
<1>4. IsSeq(kept) /\ Len(kept) = k /\ \A i \in 1 .. k : kept[i] = action_groups[i]
      BY <1>2, <1>3, FrontIsSeq, FrontElements
<1>5. valid \in Seq(ExactAction)  BY LeadsTyped
<1>6. CASE Joins(kept, identifier)
  <2>1. k \in 1 .. Len(action_groups)
    <3>1. kept # <<>>  BY <1>6 DEF Joins
    <3>2. PICK S : kept \in Seq(S)  BY <1>4 DEF IsSeq
    <3> QED  BY <1>2, <1>4, <3>1, <3>2, EmptySeq
  <2>2. PICK last : last = Last(kept) /\ last = action_groups[k]  BY <1>4, <2>1 DEF Last
  <2>3. "actions" \in DOMAIN last /\ LeadsAll(last.actions, seen[k], seen[k + 1])
        BY <1>2, <2>1, <2>2 DEF Linked, GroupLeads
  <2>4. PICK x, s : x = seen[k] /\ s = last.actions  OBVIOUS
  <2>5. LeadsAll(s, x, map)  BY <1>2, <2>3, <2>4
  <2>6. PICK t : t = s \o valid  OBVIOUS
  <2>7. LeadsAll(t, x, p)  BY <2>5, <2>6, CatLeads
  <2>8. t # <<>>
    <3>1. s \in Seq(ExactAction)  BY <2>5, LeadsTyped
    <3>2. Len(t) = Len(s) + Len(valid) /\ Len(s) \in Nat /\ Len(valid) \in Nat
          BY <1>5, <2>6, <3>1, CatElements, LenProperties
    <3>3. Len(valid) # 0  BY <1>5, EmptySeq
    <3>4. Len(t) # 0  BY <3>2, <3>3
    <3> QED  BY <3>4, EmptySeq
  <2>9. LeadsAll(MergeActions(t), x, p)  BY <2>7, <2>8, MergeLeads
  <2>10. PICK g : g = [last EXCEPT !.actions = MergeActions(t)]  OBVIOUS
  <2>11. GroupLeads(g, seen[k], p)  BY <2>3, <2>4, <2>9, <2>10 DEF GroupLeads
  <2>12. Recorded(valid, identifier) = [kept EXCEPT ![k] = g]
    <3>1. [Last(kept) EXCEPT !.actions = MergeActions(@ \o valid)]
            = [last EXCEPT !.actions = MergeActions(last.actions \o valid)]
          BY <2>2
    <3>2. g = [Last(kept) EXCEPT !.actions = MergeActions(@ \o valid)]
          BY <2>4, <2>6, <2>10, <3>1
    <3> QED  BY <1>1, <1>3, <1>4, <1>6, <3>2 DEF Recorded
  <2>13. PICK groups : groups = [kept EXCEPT ![k] = g]  OBVIOUS
  <2>14. Len(groups) = k
    <3>1. k \in 1 .. Len(kept)  BY <1>2, <1>4, <2>1
    <3> QED  BY <1>4, <2>13, <3>1, ReplaceIsSeq
  <2>15. Linked(groups, Append(SubSeq(seen, 1, k), p))
         BY <1>2, <1>3, <2>1, <2>11, <2>13, LinkedReplace
  <2> QED  BY <2>12, <2>13, <2>14, <2>15
<1>7. CASE ~Joins(kept, identifier)
  <2>1. PICK g : g = [actions |-> valid, identifier |-> identifier]  OBVIOUS
  <2>2. "actions" \in DOMAIN g /\ g.actions = valid  BY <2>1
  <2>3. GroupLeads(g, seen[k + 1], p)  BY <1>2, <2>2 DEF GroupLeads
  <2>4. PICK groups : groups = Append(kept, g)  OBVIOUS
  <2>5. Recorded(valid, identifier) = groups  BY <1>1, <1>3, <1>7, <2>1, <2>4 DEF Recorded
  <2>6. Len(groups) = k + 1  BY <1>4, <2>4, AppendIsSeq
  <2>7. Linked(groups, Append(SubSeq(seen, 1, k + 1), p))
        BY <1>2, <1>3, <2>3, <2>4, LinkedAppend
  <2> QED  BY <2>5, <2>6, <2>7
<1> QED  BY <1>6, <1>7

\* A request, and what it leaves behind.
LEMMA DoResult ==
    ASSUME ExactRequests, EditInv, NEW m, NEW request \in Request, Do(m, request)
    PROVE  \E valid :
              LET groups == Recorded(valid, request.identifier)
                  grown == Append(SubSeq(seen, 1, Len(groups)), map')
              IN  /\ valid # <<>>
                  /\ LeadsAll(valid, map, map')
                  /\ action_groups' = Trim(groups)
                  /\ cur_action_group' = Len(Trim(groups))
                  /\ seen' = IF Len(groups) > MaxHistory THEN Tail(grown) ELSE grown
                  /\ inbox' = Told(Msg("RedoAction", valid))
<1>1. request.actions \in Seq(ExactAction)  BY DEF ExactRequests
<1>2. [i \in DOMAIN request.actions |-> Filled(request.actions[i], m)] = request.actions
      BY <1>1, AskedAsIs
<1>3. PICK s : s = request.actions  OBVIOUS
<1>4. PICK done : done = Execute(s, map)  OBVIOUS
<1>5. /\ done.valid # <<>>
      /\ map' = done.map
      /\ action_groups' = Trim(Recorded(done.valid, request.identifier))
      /\ cur_action_group' = Len(Trim(Recorded(done.valid, request.identifier)))
      /\ seen' = LET u == Append(SubSeq(seen, 1, Len(Recorded(done.valid, request.identifier))), done.map)
                 IN  IF Len(Recorded(done.valid, request.identifier)) > MaxHistory THEN Tail(u) ELSE u
      /\ inbox' = Told(Msg("RedoAction", done.valid))
      BY <1>2, <1>3, <1>4 DEF Do
<1>6. LeadsAll(done.valid, map, done.map)  BY <1>1, <1>3, <1>4, ExecuteLeads DEF EditInv
<1>7. PICK valid : valid = done.valid  OBVIOUS
<1> QED  BY <1>5, <1>6, <1>7

LEMMA DoKeepsEdits ==
    ASSUME ExactRequests, EditInv, NEW m, NEW request \in Request, Do(m, request)
    PROVE  EditInv'
<1>1. IndInv'  BY DoKeepsHistory DEF EditInv
<1>2. PICK valid :
        LET groups == Recorded(valid, request.identifier)
            grown == Append(SubSeq(seen, 1, Len(groups)), map')
        IN  /\ valid # <<>>
            /\ LeadsAll(valid, map, map')
            /\ action_groups' = Trim(groups)
            /\ cur_action_group' = Len(Trim(groups))
            /\ seen' = IF Len(groups) > MaxHistory THEN Tail(grown) ELSE grown
            /\ inbox' = Told(Msg("RedoAction", valid))
      BY DoResult
<1>3. PICK groups : groups = Recorded(valid, request.identifier)  OBVIOUS
<1>4. PICK grown : grown = Append(SubSeq(seen, 1, Len(groups)), map')  OBVIOUS
<1>5. /\ action_groups' = Trim(groups)
      /\ cur_action_group' = Len(Trim(groups))
      /\ seen' = IF Len(groups) > MaxHistory THEN Tail(grown) ELSE grown
      BY <1>2, <1>3, <1>4
<1>6. Linked(groups, grown)
  <2>1. valid # <<>> /\ LeadsAll(valid, map, map')  BY <1>2
  <2> QED  BY <1>3, <1>4, <2>1, RecordedLeads
<1>7. WellFormed(map')
  <2>1. LeadsAll(valid, map, map')  BY <1>2
  <2> QED  BY <2>1, LeadsTyped
<1>8. IsSeq(seen) /\ Len(groups) \in Nat /\ Len(groups) > 0 /\ Len(groups) \in 0 .. Len(seen)
  <2>1. /\ IsSeq(groups) /\ Len(groups) > 0
        /\ Len(groups) \in {cur_action_group, cur_action_group + 1}
        BY <1>3, RecordedLength DEF EditInv
  <2>2. /\ IsSeq(seen) /\ Len(seen) = Len(action_groups) + 1
        /\ Len(action_groups) \in Nat /\ cur_action_group \in 0 .. Len(action_groups)
        BY LenIsNat DEF EditInv, IndInv, HistoryBounds
  <2> QED  BY <2>1, <2>2, LenIsNat
<1>9. grown[Len(groups) + 1] = map'  BY <1>4, <1>8, GrownElements
<1>10. CASE Len(groups) > MaxHistory
  <2>1. action_groups' = Tail(groups) /\ cur_action_group' = Len(Tail(groups)) /\ seen' = Tail(grown)
        BY <1>5, <1>10 DEF Trim
  <2>2. Linked(Tail(groups), Tail(grown)) /\ Tail(grown)[Len(groups)] = map'
        BY <1>6, <1>8, <1>9, LinkedTail
  <2>3. Len(Tail(groups)) + 1 = Len(groups)
    <3>1. IsSeq(groups)  BY <1>6 DEF Linked
    <3>2. Len(Tail(groups)) = Len(groups) - 1  BY <1>8, <3>1, TailIsSeq
    <3> QED  BY <1>8, <3>2
  <2>4. map' = seen'[cur_action_group' + 1] /\ Linked(action_groups', seen')  BY <2>1, <2>2, <2>3
  <2> QED  BY <1>1, <1>7, <2>4 DEF EditInv
<1>11. CASE ~(Len(groups) > MaxHistory)
  <2>1. action_groups' = groups /\ cur_action_group' = Len(groups) /\ seen' = grown
        BY <1>5, <1>11 DEF Trim
  <2> QED  BY <1>1, <1>6, <1>7, <1>9, <2>1 DEF EditInv
<1> QED  BY <1>10, <1>11

\* The commands: the current group leads from the map before to the map there is,
\* the next one from there to the map after it.
LEMMA CurrentGroup ==
    ASSUME EditInv, NEW k, k = cur_action_group
    PROVE  /\ k > 0 => LeadsAll(action_groups[k].actions, seen[k], map)
           /\ k < Len(action_groups) => LeadsAll(action_groups[k + 1].actions, map, seen[k + 2])
<1>1. /\ Len(action_groups) \in Nat /\ k \in 0 .. Len(action_groups)
      /\ \A i \in 1 .. Len(action_groups) :
            LeadsAll(action_groups[i].actions, seen[i], seen[i + 1])
      /\ map = seen[k + 1]
      BY LenIsNat DEF EditInv, IndInv, HistoryBounds, Linked, GroupLeads
<1>2. ASSUME k > 0 PROVE LeadsAll(action_groups[k].actions, seen[k], map)
      BY <1>1, <1>2
<1>3. ASSUME k < Len(action_groups) PROVE LeadsAll(action_groups[k + 1].actions, map, seen[k + 2])
  <2>1. k + 1 \in 1 .. Len(action_groups) /\ (k + 1) + 1 = k + 2  BY <1>1, <1>3
  <2>2. LeadsAll(action_groups[k + 1].actions, seen[k + 1], seen[(k + 1) + 1])  BY <1>1, <2>1
  <2> QED  BY <1>1, <2>1, <2>2
<1> QED  BY <1>2, <1>3

LEMMA UndoResult ==
    ASSUME EditInv, UndoCommand
    PROVE  /\ map' = seen[cur_action_group]
           /\ LeadsAll(action_groups[cur_action_group].actions, map', map)
<1>1. PICK k, s, x : k = cur_action_group /\ s = action_groups[k].actions /\ x = seen[k]  OBVIOUS
<1>2. k > 0 /\ map' = Undo(s, map).map  BY <1>1 DEF UndoCommand
<1>3. LeadsAll(s, x, map)  BY <1>1, <1>2, CurrentGroup
<1>4. Undo(s, map) = [ok |-> TRUE, map |-> x]  BY <1>3, UndoLeads
<1> QED  BY <1>1, <1>2, <1>3, <1>4

LEMMA RedoResult ==
    ASSUME EditInv, RedoCommand
    PROVE  /\ map' = seen[cur_action_group + 2]
           /\ LeadsAll(action_groups[cur_action_group + 1].actions, map, map')
<1>1. PICK k : k = cur_action_group  OBVIOUS
<1>2. PICK s, x : s = action_groups[k + 1].actions /\ x = seen[k + 2]  OBVIOUS
<1>3. k < Len(action_groups) /\ map' = Redo(s, map).map  BY <1>1, <1>2 DEF RedoCommand
<1>4. LeadsAll(s, map, x)  BY <1>1, <1>2, <1>3, CurrentGroup
<1>5. Redo(s, map) = [ok |-> TRUE, map |-> x]  BY <1>4, RedoLeads
<1> QED  BY <1>1, <1>2, <1>3, <1>4, <1>5

LEMMA InitEdits == ExactRequests /\ Init => EditInv
<1> SUFFICES ASSUME ExactRequests, Init PROVE EditInv  OBVIOUS
<1>1. IndInv  BY InitHistory
<1>2. Len(action_groups) = 0 /\ Len(seen) = 1 /\ seen[1] = StartMap /\ cur_action_group = 0
      BY EmptySeq DEF Init
<1>3. Linked(action_groups, seen)  BY <1>1, <1>2 DEF IndInv, Linked
<1>4. map = StartMap  BY DEF Init
<1> QED  BY <1>1, <1>2, <1>3, <1>4 DEF EditInv, ExactRequests

LEMMA StepEdits == ExactRequests /\ EditInv /\ [Next]_vars => EditInv'
<1> SUFFICES ASSUME ExactRequests, EditInv, [Next]_vars PROVE EditInv'  OBVIOUS
<1>0. IndInv'  BY StepHistory DEF EditInv
<1>1. CASE HostRequest  BY <1>1, DoKeepsEdits DEF HostRequest
<1>2. ASSUME NEW c \in Client, ClientRequest(c) PROVE EditInv'
      BY <1>2, DoKeepsEdits DEF ClientRequest
<1>3. CASE UndoCommand
  <2>1. /\ map' = seen[cur_action_group] /\ WellFormed(map')
        BY <1>3, UndoResult, LeadsTyped
  <2>2. UNCHANGED <<action_groups, seen>> /\ cur_action_group' = cur_action_group - 1
        BY <1>3 DEF UndoCommand
  <2>3. cur_action_group \in Nat  BY LenIsNat DEF EditInv, IndInv, HistoryBounds
  <2>4. cur_action_group' + 1 = cur_action_group  BY <2>2, <2>3
  <2>5. map' = seen'[cur_action_group' + 1]  BY <2>1, <2>2, <2>4
  <2>6. Linked(action_groups', seen')  BY <2>2 DEF EditInv
  <2> QED  BY <1>0, <2>1, <2>5, <2>6 DEF EditInv
<1>4. CASE RedoCommand
  <2>1. /\ map' = seen[cur_action_group + 2] /\ WellFormed(map')
        BY <1>4, RedoResult, LeadsTyped
  <2>2. UNCHANGED <<action_groups, seen>> /\ cur_action_group' = cur_action_group + 1
        BY <1>4 DEF RedoCommand
  <2>3. cur_action_group \in Nat  BY LenIsNat DEF EditInv, IndInv, HistoryBounds
  <2>4. cur_action_group' + 1 = cur_action_group + 2  BY <2>2, <2>3
  <2>5. map' = seen'[cur_action_group' + 1]  BY <2>1, <2>2, <2>4
  <2>6. Linked(action_groups', seen')  BY <2>2 DEF EditInv
  <2> QED  BY <1>0, <2>1, <2>5, <2>6 DEF EditInv
<1>5. CASE UNCHANGED serverVars
  <2>1. UNCHANGED map /\ UNCHANGED action_groups /\ UNCHANGED cur_action_group /\ UNCHANGED seen
        BY <1>5 DEF serverVars
  <2>2. map' = seen'[cur_action_group' + 1] /\ Linked(action_groups', seen') /\ WellFormed(map')
        BY <2>1 DEF EditInv
  <2> QED  BY <1>0, <2>2 DEF EditInv
<1>6. ASSUME NEW c \in Client, Connect(c) \/ Auth(c) \/ Disconnect(c) \/ Update(c)
      PROVE  UNCHANGED serverVars
      BY <1>6 DEF Connect, Auth, Disconnect, Update
<1> QED  BY <1>1, <1>2, <1>3, <1>4, <1>5, <1>6 DEF Next, vars

(***************************************************************************)
(* What a client still has to handle: a part it may handle before the map  *)
(* arrives, and messages that lead from there to the server's map.         *)
(***************************************************************************)
NoMap(q) == \A i \in 1 .. Len(q) : q[i].type # "Map"
MapFirst(q) == \A i \in 2 .. Len(q) : q[i].type # "Map"

Parts(q, a, b, x, m) ==
    /\ q = Cat(a, b)
    /\ NoMap(a) /\ MapFirst(b)
    /\ a # <<>> => b # <<>> /\ b[1].type = "Map"
    /\ Trail(b, x, m)

Following(q, x, m) == \E S : \E a, b \in Seq(S) : Parts(q, a, b, x, m)

LEMMA NoMapAppended ==
    ASSUME NEW q, IsSeq(q), NoMap(q), NEW e, e.type # "Map"
    PROVE  NoMap(Append(q, e))
<1>1. PICK t : t = Append(q, e)  OBVIOUS
<1>2. Len(q) \in Nat /\ Len(t) = Len(q) + 1 /\ t[Len(q) + 1] = e /\ \A i \in 1 .. Len(q) : t[i] = q[i]
      BY <1>1, LenIsNat, AppendIsSeq, AppendElements
<1>3. ASSUME NEW i \in 1 .. Len(t) PROVE t[i].type # "Map"
  <2>1. CASE i = Len(q) + 1  BY <1>2, <2>1
  <2>2. CASE i # Len(q) + 1
    <3>1. i \in 1 .. Len(q)  BY <1>2, <2>2
    <3> QED  BY <1>2, <3>1 DEF NoMap
  <2> QED  BY <2>1, <2>2
<1> QED  BY <1>1, <1>3 DEF NoMap

LEMMA NoMapTail ==
    ASSUME NEW q, IsSeq(q), Len(q) > 0, MapFirst(q)
    PROVE  NoMap(Tail(q))
<1>1. PICK t : t = Tail(q)  OBVIOUS
<1>2. Len(q) \in Nat /\ Len(t) = Len(q) - 1 /\ \A i \in 1 .. Len(q) - 1 : t[i] = q[i + 1]
      BY <1>1, LenIsNat, TailIsSeq, TailElements
<1>3. ASSUME NEW i \in 1 .. Len(t) PROVE t[i].type # "Map"
  <2>1. i + 1 \in 2 .. Len(q) /\ i \in 1 .. Len(q) - 1  BY <1>2
  <2> QED  BY <1>2, <2>1 DEF MapFirst
<1> QED  BY <1>1, <1>3 DEF NoMap

LEMMA NoMapIsFirst == ASSUME NEW q, NoMap(q) PROVE MapFirst(q)
<1>1. \A i \in 2 .. Len(q) : i \in 1 .. Len(q)  OBVIOUS
<1> QED  BY <1>1 DEF NoMap, MapFirst

LEMMA MapFirstAppended ==
    ASSUME NEW q, IsSeq(q), MapFirst(q), NEW e, e.type # "Map"
    PROVE  MapFirst(Append(q, e))
<1>1. PICK t : t = Append(q, e)  OBVIOUS
<1>2. Len(q) \in Nat /\ Len(t) = Len(q) + 1 /\ t[Len(q) + 1] = e /\ \A i \in 1 .. Len(q) : t[i] = q[i]
      BY <1>1, LenIsNat, AppendIsSeq, AppendElements
<1>3. ASSUME NEW i \in 2 .. Len(t) PROVE t[i].type # "Map"
  <2>1. CASE i = Len(q) + 1  BY <1>2, <2>1
  <2>2. CASE i # Len(q) + 1
    <3>1. i \in 1 .. Len(q) /\ i \in 2 .. Len(q)  BY <1>2, <2>2
    <3> QED  BY <1>2, <3>1 DEF MapFirst
  <2> QED  BY <2>1, <2>2
<1> QED  BY <1>1, <1>3 DEF MapFirst

LEMMA EmptyHasNoMap == NoMap(<<>>) /\ IsSeq(<<>>) /\ Len(<<>>) = 0
<1>1. Len(<<>>) = 0 /\ <<>> \in Seq({})  BY EmptySeq
<1> QED  BY <1>1 DEF NoMap, IsSeq

\* The map is sent: what is before it does not matter.
LEMMA FollowMap ==
    ASSUME NEW q, IsSeq(q), NoMap(q), NEW e, e.type = "Map", NEW x, NEW m, e.map = m
    PROVE  Following(Append(q, e), x, m)
<1>1. PICK S : q \in Seq(S) /\ e \in S
  <2>1. PICK S : q \in Seq(S)  BY DEF IsSeq
  <2>2. q \in Seq(S \cup {e}) /\ e \in S \cup {e}  BY <2>1
  <2> QED  BY <2>2
<1>2. PICK b : b = <<e>>  OBVIOUS
<1>3. b \in Seq(S) /\ Len(b) = 1 /\ b[1] = e  BY <1>1, <1>2
<1>4. Append(q, e) = Cat(q, b)  BY <1>1, <1>2, AppendIsConcat DEF Cat
<1>5. MapFirst(b)  BY <1>3 DEF MapFirst
<1>6. MessageLeads(e, x, m)  BY DEF MessageLeads
<1>7. PICK g : g = [k \in 0 .. 1 |-> IF k = 0 THEN x ELSE m]  OBVIOUS
<1>8. g[0] = x /\ g[1] = m /\ 1 - 1 = 0  BY <1>7
<1>9. \A k \in 1 .. 1 : MessageLeads(b[k], g[k - 1], g[k])  BY <1>3, <1>6, <1>8
<1>10. TrailOver(b, g, x, m)  BY <1>3, <1>8, <1>9 DEF TrailOver
<1>11. Trail(b, x, m)  BY <1>10 DEF Trail
<1>12. b # <<>>
  <2>1. Len(b) # 0  BY <1>3
  <2> QED  BY <2>1, EmptySeq
<1>13. Parts(Append(q, e), q, b, x, m)  BY <1>3, <1>4, <1>5, <1>11, <1>12 DEF Parts
<1> QED  BY <1>1, <1>3, <1>13 DEF Following

\* One more message is sent.
LEMMA FollowAppend ==
    ASSUME NEW q, NEW x, NEW m, Following(q, x, m),
           NEW e, e.type # "Map", NEW p, MessageLeads(e, m, p)
    PROVE  Following(Append(q, e), x, p)
<1>1. PICK R : \E a, b \in Seq(R) : Parts(q, a, b, x, m)  BY DEF Following
<1>2. PICK a, b \in Seq(R) : Parts(q, a, b, x, m)  BY <1>1
<1>3. PICK S : S = R \cup {e}  OBVIOUS
<1>4. a \in Seq(S) /\ b \in Seq(S) /\ e \in S  BY <1>2, <1>3
<1>5. PICK d : d = Append(b, e)  OBVIOUS
<1>6. d \in Seq(S) /\ d # <<>>  BY <1>4, <1>5, AppendProperties
<1>7. Append(q, e) = Cat(a, d)
  <2>0. PICK o : o = <<e>>  OBVIOUS
  <2>1. o \in Seq(S)  BY <1>4, <2>0
  <2>2. d = Cat(b, o)  BY <1>4, <1>5, <2>0, AppendIsConcat DEF Cat
  <2>3. q = Cat(a, b) /\ q \in Seq(S)  BY <1>2, <1>4, CatProperties DEF Parts
  <2>4. Append(q, e) = Cat(q, o)  BY <1>4, <2>0, <2>3, AppendIsConcat DEF Cat
  <2>5. Cat(Cat(a, b), o) = Cat(a, Cat(b, o))  BY <1>4, <2>1, CatAssociative
  <2> QED  BY <2>2, <2>3, <2>4, <2>5
<1>8. MapFirst(d)  BY <1>2, <1>5, MapFirstAppended DEF Parts, IsSeq
<1>9. ASSUME b # <<>>, b[1].type = "Map" PROVE d[1].type = "Map"
  <2>1. Len(b) \in Nat /\ Len(b) # 0  BY <1>4, <1>9, EmptySeq, LenProperties
  <2>2. 1 \in 1 .. Len(b)  BY <2>1
  <2>3. IsSeq(b)  BY <1>4 DEF IsSeq
  <2> QED  BY <1>5, <1>9, <2>2, <2>3, AppendElements
<1>10. Trail(d, x, p)  BY <1>2, <1>4, <1>5, TrailAppend DEF Parts
<1>11. Parts(Append(q, e), a, d, x, p)  BY <1>2, <1>6, <1>7, <1>8, <1>9, <1>10 DEF Parts
<1> QED  BY <1>4, <1>6, <1>11 DEF Following

LEMMA TailOfCat ==
    ASSUME NEW S, NEW a \in Seq(S), NEW b \in Seq(S), a # <<>>
    PROVE  Tail(Cat(a, b)) = Cat(Tail(a), b)
<1>1. PICK u : u = Cat(a, b)  OBVIOUS
<1>2. PICK i, j : i = Len(a) /\ j = Len(b)  OBVIOUS
<1>3. i \in Nat /\ j \in Nat /\ i >= 1  BY <1>2, LenProperties, EmptySeq
<1>4. /\ u \in Seq(S) /\ Len(u) = i + j
      /\ \A k \in 1 .. i : u[k] = a[k]
      /\ \A k \in 1 .. j : u[i + k] = b[k]
      BY <1>1, <1>2, CatElements DEF Cat
<1>5. PICK c : c = Tail(a)  OBVIOUS
<1>6. c \in Seq(S) /\ Len(c) = i - 1 /\ \A k \in 1 .. i - 1 : c[k] = a[k + 1]
      BY <1>2, <1>5, HeadTailProperties
<1>7. PICK v : v = Cat(c, b)  OBVIOUS
<1>8. /\ v \in Seq(S) /\ Len(v) = (i - 1) + j
      /\ \A k \in 1 .. i - 1 : v[k] = c[k]
      /\ \A k \in 1 .. j : v[(i - 1) + k] = b[k]
  <2>1. PICK l : l = Len(c)  OBVIOUS
  <2>2. /\ v \in Seq(S) /\ Len(v) = l + j
        /\ \A k \in 1 .. l : v[k] = c[k]
        /\ \A k \in 1 .. j : v[l + k] = b[k]
        BY <1>2, <1>6, <1>7, <2>1, CatElements DEF Cat
  <2>3. l = i - 1  BY <1>6, <2>1
  <2> QED  BY <2>2, <2>3
<1>9. PICK t : t = Tail(u)  OBVIOUS
<1>10. u # <<>>  BY <1>3, <1>4, EmptySeq
<1>11. t \in Seq(S) /\ Len(t) = (i + j) - 1 /\ \A k \in 1 .. (i + j) - 1 : t[k] = u[k + 1]
       BY <1>4, <1>9, <1>10, HeadTailProperties
<1>12. ASSUME NEW k \in 1 .. (i + j) - 1 PROVE t[k] = v[k]
  <2>1. PICK l : l = k + 1  OBVIOUS
  <2>2. t[k] = u[l]  BY <1>11, <2>1
  <2>3. CASE k <= i - 1
    <3>1. k \in 1 .. i - 1 /\ l \in 1 .. i  BY <1>3, <2>1, <2>3
    <3> QED  BY <1>4, <1>6, <1>8, <2>1, <2>2, <3>1
  <2>4. CASE k > i - 1
    <3>1. PICK h : h = l - i  OBVIOUS
    <3>2. h \in 1 .. j /\ i + h = l /\ (i - 1) + h = k  BY <1>3, <2>1, <2>4, <3>1
    <3> QED  BY <1>4, <1>8, <2>2, <3>2
  <2> QED  BY <1>3, <2>3, <2>4
<1>13. Len(t) = Len(v)  BY <1>3, <1>8, <1>11
<1>14. t = v  BY <1>8, <1>11, <1>12, <1>13, SeqEqual
<1> QED  BY <1>1, <1>5, <1>7, <1>9, <1>14

\* A message is handled.
LEMMA FollowTail ==
    ASSUME NEW q, q # <<>>, NEW x, NEW m, Following(q, x, m),
           NEW y, Handled(Open(x), Head(q)) = Open(y)
    PROVE  Following(Tail(q), y, m)
<1>1. PICK S : \E a, b \in Seq(S) : Parts(q, a, b, x, m)  BY DEF Following
<1>2. PICK a, b \in Seq(S) : Parts(q, a, b, x, m)  BY <1>1
<1>3. CASE a = <<>>
  <2>1. q = b  BY <1>2, <1>3, ConcatEmptySeq DEF Parts, Cat
  <2>2. PICK z : MessageLeads(Head(q), x, z) /\ Trail(Tail(q), z, m)
        BY <1>2, <2>1, TrailTail DEF Parts
  <2>3. Open(z) = Open(y)  BY <2>2, MessageHandled
  <2>4. z = y
    <3>1. Open(z).map = z /\ Open(y).map = y  BY DEF Open
    <3> QED  BY <2>3, <3>1
  <2>5. PICK t : t = Tail(q)  OBVIOUS
  <2>6. IsSeq(q) /\ Len(q) > 0
    <3>1. Len(q) \in Nat /\ Len(q) # 0  BY <1>2, <2>1, EmptySeq, LenProperties
    <3> QED  BY <1>2, <2>1, <3>1 DEF IsSeq
  <2>7. NoMap(t) /\ MapFirst(t)  BY <1>2, <2>1, <2>5, <2>6, NoMapTail, NoMapIsFirst DEF Parts
  <2>8. t \in Seq(S)  BY <1>2, <2>1, <2>5, HeadTailProperties
  <2>9. a \in Seq(S) /\ NoMap(a) /\ t = Cat(a, t)
        BY <1>2, <1>3, <2>8, ConcatEmptySeq, EmptyHasNoMap DEF Cat
  <2>10. Parts(t, a, t, y, m)  BY <1>3, <2>2, <2>4, <2>5, <2>7, <2>9 DEF Parts
  <2> QED  BY <2>5, <2>8, <2>9, <2>10 DEF Following
<1>4. CASE a # <<>>
  <2>1. PICK c : c = Tail(a)  OBVIOUS
  <2>2. c \in Seq(S)  BY <1>2, <1>4, <2>1, HeadTailProperties
  <2>3. IsSeq(a) /\ Len(a) > 0
    <3>1. Len(a) \in Nat /\ Len(a) # 0  BY <1>2, <1>4, EmptySeq, LenProperties
    <3> QED  BY <1>2, <3>1 DEF IsSeq
  <2>4. NoMap(c)  BY <1>2, <2>1, <2>3, NoMapTail, NoMapIsFirst DEF Parts
  <2>5. Tail(q) = Cat(c, b)  BY <1>2, <1>4, <2>1, TailOfCat DEF Parts
  <2>6. b # <<>> /\ b[1].type = "Map"  BY <1>2, <1>4 DEF Parts
  <2>7. Trail(b, y, m)  BY <1>2, <2>6, TrailFromMap DEF Parts
  <2>8. Parts(Tail(q), c, b, y, m)  BY <1>2, <2>4, <2>5, <2>6, <2>7 DEF Parts
  <2> QED  BY <1>2, <2>2, <2>8 DEF Following
<1> QED  BY <1>3, <1>4

\* Of what is pending, the messages from the map on are handled: they lead to m.
LEMMA PendingLeads ==
    ASSUME NEW c, NEW x, NEW m, Following(inbox[c], x, m)
    PROVE  FoldLeft(Handled, Open(x), Pending(c)) = Open(m)
<1>1. PICK q : q = inbox[c]  OBVIOUS
<1>2. PICK S : \E a, b \in Seq(S) : Parts(q, a, b, x, m)  BY <1>1 DEF Following
<1>3. PICK a, b \in Seq(S) : Parts(q, a, b, x, m)  BY <1>2
<1>4. PICK i, j : i = Len(a) /\ j = Len(b)  OBVIOUS
<1>5. i \in Nat /\ j \in Nat  BY <1>3, <1>4, LenProperties
<1>6. /\ q \in Seq(S) /\ Len(q) = i + j
      /\ \A k \in 1 .. i : q[k] = a[k]
      /\ \A k \in 1 .. j : q[i + k] = b[k]
      BY <1>3, <1>4, CatElements DEF Parts, Cat
<1>7. DOMAIN q = 1 .. i + j  BY <1>6, LenProperties
<1>8. PICK maps : maps = {k \in DOMAIN q : q[k].type = "Map"}  OBVIOUS
<1>9. PICK first : first = IF maps = {} THEN 1 ELSE CHOOSE k \in maps : TRUE  OBVIOUS
<1>10. Pending(c) = SubSeq(q, first, Len(q))  BY <1>1, <1>8, <1>9 DEF Pending
<1>11. ASSUME NEW k \in maps PROVE k = i + 1 /\ j >= 1 /\ b[1].type = "Map"
  <2>1. k \in 1 .. i + j /\ q[k].type = "Map"  BY <1>7, <1>8
  <2>2. ~(k <= i)
    <3> SUFFICES ASSUME k <= i PROVE FALSE  OBVIOUS
    <3>1. k \in 1 .. i  BY <1>5, <2>1
    <3> QED  BY <1>3, <1>4, <1>6, <2>1, <3>1 DEF Parts, NoMap
  <2>3. PICK l : l = k - i  OBVIOUS
  <2>4. l \in 1 .. j /\ i + l = k  BY <1>5, <2>1, <2>2, <2>3
  <2>5. b[l].type = "Map"  BY <1>6, <2>1, <2>4
  <2>6. ~(l \in 2 .. j)  BY <1>3, <1>4, <2>5 DEF Parts, MapFirst
  <2>7. l = 1  BY <1>5, <2>4, <2>6
  <2> QED  BY <1>5, <2>4, <2>5, <2>7
<1>12. Pending(c) = b
  <2>1. CASE maps = {}
    <3>1. a = <<>>
      <4> SUFFICES ASSUME a # <<>> PROVE FALSE  OBVIOUS
      <4>1. b # <<>> /\ b[1].type = "Map"  BY <1>3 DEF Parts
      <4>2. j # 0  BY <1>3, <1>4, <4>1, EmptySeq
      <4>3. 1 \in 1 .. j /\ i + 1 \in DOMAIN q  BY <1>5, <1>7, <4>2
      <4>4. q[i + 1].type = "Map"  BY <1>6, <4>1, <4>3
      <4> QED  BY <1>8, <2>1, <4>3, <4>4
    <3>2. q = b  BY <1>3, <3>1, ConcatEmptySeq DEF Parts, Cat
    <3>3. first = 1  BY <1>9, <2>1
    <3> QED  BY <1>6, <1>10, <3>2, <3>3, SubSeqFull
  <2>2. CASE maps # {}
    <3>1. first \in maps  BY <1>9, <2>2
    <3>2. first = i + 1  BY <1>11, <3>1
    <3>3. SubSeq(Cat(a, b), Len(a) + 1, Len(a) + Len(b)) = b  BY <1>3, PartsOfTwo
    <3>4. q = Cat(a, b)  BY <1>3 DEF Parts
    <3> QED  BY <1>4, <1>6, <1>10, <3>2, <3>3, <3>4
  <2> QED  BY <2>1, <2>2
<1>13. Trail(b, x, m)  BY <1>3 DEF Parts
<1> QED  BY <1>3, <1>12, <1>13, TrailHandled

(***************************************************************************)
(* The clients' part of the invariant.                                     *)
(***************************************************************************)
Served(status, q, t, m) ==
    /\ IsSeq(q)
    /\ status # "authed" => NoMap(q)
    /\ t.state = "open" => t = Open(t.map)
    /\ status = "authed" /\ t.state = "open" => Following(q, t.map, m)

PerClient(f) == f = [c \in Client |-> f[c]]

ClientsInv ==
    /\ PerClient(clients) /\ PerClient(inbox) /\ PerClient(tab)
    /\ \A c \in Client : Served(clients[c], inbox[c], tab[c], map)

LEMMA ServedTold ==
    ASSUME NEW status, NEW q, NEW t, NEW m, Served(status, q, t, m),
           NEW e, e.type # "Map", NEW p, MessageLeads(e, m, p)
    PROVE  Served(status, Append(q, e), t, p)
<1>1. IsSeq(Append(q, e))  BY AppendIsSeq DEF Served
<1>2. status # "authed" => NoMap(Append(q, e))  BY NoMapAppended DEF Served
<1>3. status = "authed" /\ t.state = "open" => Following(Append(q, e), t.map, p)
      BY FollowAppend DEF Served
<1> QED  BY <1>1, <1>2, <1>3 DEF Served

LEMMA ServedHandled ==
    ASSUME NEW status, NEW q, NEW t, NEW m, Served(status, q, t, m), t.state = "open", q # <<>>
    PROVE  Served(status, Tail(q), Handled(t, Head(q)), m)
<1>1. PICK x, u : x = t.map /\ u = Handled(t, Head(q))  OBVIOUS
<1>2. t = Open(x)  BY <1>1 DEF Served
<1>3. IsSeq(q) /\ Len(q) > 0
  <2>1. PICK S : q \in Seq(S)  BY DEF Served, IsSeq
  <2>2. Len(q) \in Nat /\ Len(q) # 0  BY <2>1, EmptySeq, LenProperties
  <2> QED  BY <2>1, <2>2 DEF IsSeq
<1>4. IsSeq(Tail(q))  BY <1>3, TailIsSeq
<1>5. status # "authed" => NoMap(Tail(q))  BY <1>3, NoMapTail, NoMapIsFirst DEF Served
<1>6. u.state = "open" => u = Open(u.map)
  <2>1. t = [state |-> "open", map |-> x]  BY <1>2 DEF Open
  <2>2. \A z : [t EXCEPT !.map = z] = Open(z) /\ Open(z).map = z  BY <2>1 DEF Open
  <2>3. [t EXCEPT !.state = "failed"].state # "open"  BY <2>1
  <2>4. (\E z : u = [t EXCEPT !.map = z]) \/ u = [t EXCEPT !.state = "failed"]
        BY <1>1 DEF Handled
  <2> QED  BY <2>2, <2>3, <2>4
<1>7. ASSUME status = "authed", u.state = "open" PROVE Following(Tail(q), u.map, m)
  <2>1. PICK y : y = u.map  OBVIOUS
  <2>2. Handled(Open(x), Head(q)) = Open(y)  BY <1>1, <1>2, <1>6, <1>7, <2>1
  <2>3. Following(q, x, m)  BY <1>1, <1>7 DEF Served
  <2> QED  BY <2>1, <2>2, <2>3, FollowTail
<1>8. Served(status, Tail(q), u, m)  BY <1>4, <1>5, <1>6, <1>7 DEF Served
<1> QED  BY <1>1, <1>8

\* Everybody is told what the server did to its map.
LEMMA AllServed ==
    ASSUME ClientsInv, NEW e, e.type # "Map", MessageLeads(e, map, map'),
           inbox' = Told(e), UNCHANGED clientVars
    PROVE  ClientsInv'
<1>1. clients' = clients /\ tab' = tab  BY DEF clientVars
<1>2. inbox' = [c \in Client |-> IF clients[c] # "gone" THEN Append(inbox[c], e) ELSE inbox[c]]
      BY DEF Told
<1>3. PerClient(inbox')
  <2>1. \A c \in Client : inbox'[c] = IF clients[c] # "gone" THEN Append(inbox[c], e) ELSE inbox[c]
        BY <1>2
  <2> QED  BY <1>2, <2>1 DEF PerClient
<1>4. ASSUME NEW c \in Client PROVE Served(clients[c], inbox'[c], tab[c], map')
  <2>1. Served(clients[c], inbox[c], tab[c], map)  BY DEF ClientsInv
  <2>2. CASE clients[c] # "gone"
    <3>1. inbox'[c] = Append(inbox[c], e)  BY <1>2, <2>2
    <3> QED  BY <2>1, <3>1, ServedTold
  <2>3. CASE clients[c] = "gone"
    <3>1. inbox'[c] = inbox[c]  BY <1>2, <2>3
    <3> QED  BY <2>1, <2>3, <3>1 DEF Served
  <2> QED  BY <2>2, <2>3
<1> QED  BY <1>1, <1>3, <1>4 DEF ClientsInv

LEMMA Messages ==
    \A t, s : Msg(t, s).type = t /\ Msg(t, s).actions = s
BY DEF Msg

LEMMA DoServes ==
    ASSUME ExactRequests, EditInv, ClientsInv, NEW m, NEW request \in Request, Do(m, request)
    PROVE  ClientsInv'
<1>1. PICK valid : LeadsAll(valid, map, map') /\ inbox' = Told(Msg("RedoAction", valid))
      BY DoResult
<1>2. UNCHANGED clientVars  BY DEF Do
<1>3. PICK e : e = Msg("RedoAction", valid)  OBVIOUS
<1>4. e.type = "RedoAction" /\ MessageLeads(e, map, map')  BY <1>1, <1>3, Messages DEF MessageLeads
<1>5. e.type # "Map"  BY <1>4
<1> QED  BY <1>1, <1>2, <1>3, <1>4, <1>5, AllServed

LEMMA InitServes == Init => ClientsInv
<1> SUFFICES ASSUME Init PROVE ClientsInv  OBVIOUS
<1>1. PerClient(clients) /\ PerClient(inbox) /\ PerClient(tab)  BY DEF Init, PerClient
<1>2. ASSUME NEW c \in Client PROVE Served(clients[c], inbox[c], tab[c], map)
  <2>1. clients[c] = "gone" /\ inbox[c] = <<>> /\ tab[c].state = "none"  BY DEF Init, NoTab
  <2> QED  BY <2>1, EmptyHasNoMap DEF Served
<1> QED  BY <1>1, <1>2 DEF ClientsInv

\* What one client does concerns nobody else.
LEMMA OneServed ==
    ASSUME ClientsInv, NEW c \in Client, UNCHANGED map,
           NEW status, NEW q, NEW t, Served(status, q, t, map),
           clients' = [clients EXCEPT ![c] = status],
           inbox' = [inbox EXCEPT ![c] = q],
           tab' = [tab EXCEPT ![c] = t]
    PROVE  ClientsInv'
<1>0. \A f, e : PerClient(f) => /\ PerClient([f EXCEPT ![c] = e])
                               /\ [f EXCEPT ![c] = e][c] = e
                               /\ \A d \in Client \ {c} : [f EXCEPT ![c] = e][d] = f[d]
      BY DEF PerClient
<1>1. PerClient(clients') /\ PerClient(inbox') /\ PerClient(tab')  BY <1>0 DEF ClientsInv
<1>2. ASSUME NEW d \in Client PROVE Served(clients'[d], inbox'[d], tab'[d], map')
  <2>1. CASE d = c
    <3>1. \A f, e : PerClient(f) => [f EXCEPT ![c] = e][d] = e  BY <1>0, <2>1
    <3>2. PerClient(clients) /\ PerClient(inbox) /\ PerClient(tab)  BY DEF ClientsInv
    <3>3. clients'[d] = status  BY <3>1, <3>2
    <3>4. inbox'[d] = q  BY <3>1, <3>2
    <3>5. tab'[d] = t  BY <3>1, <3>2
    <3> QED  BY <3>3, <3>4, <3>5
  <2>2. CASE d # c
    <3>1. clients'[d] = clients[d] /\ inbox'[d] = inbox[d] /\ tab'[d] = tab[d]  BY <1>0, <2>2 DEF ClientsInv
    <3> QED  BY <3>1 DEF ClientsInv
  <2> QED  BY <2>1, <2>2
<1> QED  BY <1>1, <1>2 DEF ClientsInv

LEMMA StepServes == ExactRequests /\ EditInv /\ ClientsInv /\ [Next]_vars => ClientsInv'
<1> SUFFICES ASSUME ExactRequests, EditInv, ClientsInv, [Next]_vars PROVE ClientsInv'  OBVIOUS
<1>0. \A c \in Client : /\ Served(clients[c], inbox[c], tab[c], map)
                        /\ clients = [clients EXCEPT ![c] = clients[c]]
                        /\ inbox = [inbox EXCEPT ![c] = inbox[c]]
                        /\ tab = [tab EXCEPT ![c] = tab[c]]
  <2>1. \A f : PerClient(f) => \A c \in Client : f = [f EXCEPT ![c] = f[c]]  BY DEF PerClient
  <2> QED  BY <2>1 DEF ClientsInv
<1>1. CASE HostRequest  BY <1>1, DoServes DEF HostRequest
<1>2. ASSUME NEW c \in Client, ClientRequest(c) PROVE ClientsInv'
      BY <1>2, DoServes DEF ClientRequest
<1>3. CASE UndoCommand
  <2>1. PICK s : s = action_groups[cur_action_group].actions  OBVIOUS
  <2>2. LeadsAll(s, map', map)  BY <1>3, <2>1, UndoResult
  <2>3. inbox' = Told(Msg("UndoAction", s)) /\ UNCHANGED clientVars  BY <1>3, <2>1 DEF UndoCommand
  <2>4. PICK e : e = Msg("UndoAction", s)  OBVIOUS
  <2>5. e.type = "UndoAction" /\ MessageLeads(e, map, map')  BY <2>2, <2>4, Messages DEF MessageLeads
  <2>6. e.type # "Map"  BY <2>5
  <2> QED  BY <2>3, <2>4, <2>5, <2>6, AllServed
<1>4. CASE RedoCommand
  <2>1. PICK s : s = action_groups[cur_action_group + 1].actions  OBVIOUS
  <2>2. LeadsAll(s, map, map')  BY <1>4, <2>1, RedoResult
  <2>3. inbox' = Told(Msg("RedoAction", s)) /\ UNCHANGED clientVars  BY <1>4, <2>1 DEF RedoCommand
  <2>4. PICK e : e = Msg("RedoAction", s)  OBVIOUS
  <2>5. e.type = "RedoAction" /\ MessageLeads(e, map, map')  BY <2>2, <2>4, Messages DEF MessageLeads
  <2>6. e.type # "Map"  BY <2>5
  <2> QED  BY <2>3, <2>4, <2>5, <2>6, AllServed
<1>5. ASSUME NEW c \in Client, Connect(c) PROVE ClientsInv'
  <2>1. PICK t : t = [state |-> "open", map |-> BlankMap]  OBVIOUS
  <2>2. t.state = "open" /\ t = Open(t.map)  BY <2>1 DEF Open
  <2>3. IsSeq(inbox[c]) /\ NoMap(inbox[c])  BY <1>0, <1>5 DEF Connect, Served
  <2>4. Served("connected", inbox[c], t, map)  BY <2>2, <2>3 DEF Served
  <2>5. /\ clients' = [clients EXCEPT ![c] = "connected"] /\ inbox' = inbox
        /\ tab' = [tab EXCEPT ![c] = t] /\ UNCHANGED map
        BY <1>5, <2>1 DEF Connect, serverVars
  <2> QED  BY <1>0, <2>4, <2>5, OneServed
<1>6. ASSUME NEW c \in Client, Auth(c) PROVE ClientsInv'
  <2>1. PICK e : e = [type |-> "Map", map |-> map]  OBVIOUS
  <2>2. e.type = "Map" /\ e.map = map  BY <2>1
  <2>3. PICK q : q = Append(inbox[c], e)  OBVIOUS
  <2>4. IsSeq(inbox[c]) /\ NoMap(inbox[c])  BY <1>0, <1>6 DEF Auth, Served
  <2>5. IsSeq(q) /\ Following(q, tab[c].map, map)  BY <2>2, <2>3, <2>4, AppendIsSeq, FollowMap
  <2>6. Served("authed", q, tab[c], map)  BY <1>0, <2>5 DEF Served
  <2>7. /\ clients' = [clients EXCEPT ![c] = "authed"] /\ inbox' = [inbox EXCEPT ![c] = q]
        /\ tab' = tab /\ UNCHANGED map
        BY <1>6, <2>1, <2>3 DEF Auth, serverVars
  <2> QED  BY <1>0, <2>6, <2>7, OneServed
<1>7. ASSUME NEW c \in Client, Disconnect(c) PROVE ClientsInv'
  <2>1. PICK q : q = <<>>  OBVIOUS
  <2>2. Served("gone", q, NoTab, map)  BY <2>1, EmptyHasNoMap DEF Served, NoTab
  <2>3. /\ clients' = [clients EXCEPT ![c] = "gone"] /\ inbox' = [inbox EXCEPT ![c] = q]
        /\ tab' = [tab EXCEPT ![c] = NoTab] /\ UNCHANGED map
        BY <1>7, <2>1 DEF Disconnect, serverVars
  <2> QED  BY <2>2, <2>3, OneServed
<1>8. ASSUME NEW c \in Client, Update(c) PROVE ClientsInv'
  <2>1. PICK q, t : q = Tail(inbox[c]) /\ t = Handled(tab[c], Head(inbox[c]))  OBVIOUS
  <2>2. Served(clients[c], q, t, map)  BY <1>0, <1>8, <2>1, ServedHandled DEF Update
  <2>3. /\ clients' = clients /\ inbox' = [inbox EXCEPT ![c] = q]
        /\ tab' = [tab EXCEPT ![c] = t] /\ UNCHANGED map
        BY <1>8, <2>1 DEF Update, serverVars
  <2> QED  BY <1>0, <2>2, <2>3, OneServed
<1>9. CASE UNCHANGED vars
      BY <1>9 DEF vars, serverVars, clientVars, ClientsInv, PerClient
<1> QED  BY <1>1, <1>2, <1>3, <1>4, <1>5, <1>6, <1>7, <1>8, <1>9 DEF Next

(***************************************************************************)
(* The theorems about whole behaviours                                     *)
(***************************************************************************)
EditorInv == EditInv /\ ClientsInv

LEMMA InvHolds ==
    ASSUME ExactRequests
    PROVE  Spec => []EditorInv
<1>1. Init => EditorInv  BY InitEdits, InitServes DEF EditorInv
<1>2. EditorInv /\ [Next]_vars => EditorInv'  BY StepEdits, StepServes DEF EditorInv
<1> QED  BY <1>1, <1>2, PTL DEF Spec

\* The server's map stays well-formed: every layer has its tiles, every physics layer
\* its size and its place, every file is listed once (the checks of do_action).
THEOREM MapStaysWellFormed ==
    ASSUME ExactRequests
    PROVE  Spec => []MapIsWellFormed
<1>1. EditorInv => MapIsWellFormed  BY DEF EditorInv, EditInv, MapIsWellFormed
<1> QED  BY <1>1, InvHolds, PTL

\* Drawing the map never indexes past the end of a list of images, sounds or
\* animations.
THEOREM ReferencesStayInBounds ==
    ASSUME ExactRequests
    PROVE  Spec => []ReferencesInBounds
<1>1. ASSUME NEW m, WellFormed(m) PROVE RefsInBounds(m, MapRefs(m))
  <2>1. m \in Map(InBounds(m.lists))  BY <1>1 DEF WellFormed
  <2>2. PICK Q : Q = InBounds(m.lists)  OBVIOUS
  <2>3. Q \subseteq Ref  BY <2>2 DEF InBounds
  <2>4. m \in Map(Ref)  BY <2>1, <2>2, <2>3, MapsGrow
  <2>5. MapRefs(m) \subseteq InBounds(m.lists)  BY <2>1, <2>4, InBoundsOf
  <2> QED  BY <2>5 DEF RefsInBounds, InBounds
<1>2. EditorInv => ReferencesInBounds  BY <1>1 DEF EditorInv, EditInv, ReferencesInBounds
<1> QED  BY <1>2, InvHolds, PTL

\* The undo and the redo command never fail: the error the server reports as
\* "probably indicates a bug in the code" (server.rs:556) is never met.
THEOREM HistoryAlwaysApplies ==
    ASSUME ExactRequests
    PROVE  Spec => []HistoryApplies
<1>1. EditorInv => HistoryApplies
  <2> SUFFICES ASSUME EditorInv PROVE HistoryApplies  OBVIOUS
  <2>1. PICK k : k = cur_action_group  OBVIOUS
  <2>2. ASSUME k > 0 PROVE Undo(action_groups[k].actions, map).ok
    <3>1. PICK s, x : s = action_groups[k].actions /\ x = seen[k]  OBVIOUS
    <3>2. LeadsAll(s, x, map)  BY <2>1, <2>2, <3>1, CurrentGroup DEF EditorInv
    <3>3. Undo(s, map) = [ok |-> TRUE, map |-> x]  BY <3>2, UndoLeads
    <3> QED  BY <3>1, <3>3
  <2>3. ASSUME k < Len(action_groups) PROVE Redo(action_groups[k + 1].actions, map).ok
    <3>1. PICK s, x : s = action_groups[k + 1].actions /\ x = seen[k + 2]  OBVIOUS
    <3>2. LeadsAll(s, map, x)  BY <2>1, <2>3, <3>1, CurrentGroup DEF EditorInv
    <3>3. Redo(s, map) = [ok |-> TRUE, map |-> x]  BY <3>2, RedoLeads
    <3> QED  BY <3>1, <3>3
  <2> QED  BY <2>1, <2>2, <2>3 DEF HistoryApplies
<1> QED  BY <1>1, InvHolds, PTL

\* Every authenticated client that handles what was sent to it has the server's map
\* and meets no error, however many messages are on the way and whatever was sent to
\* it before the map (client.rs, the tab's update).
THEOREM ClientsAlwaysFollow ==
    ASSUME ExactRequests
    PROVE  Spec => []ClientsFollow
<1>1. EditorInv => ClientsFollow
  <2> SUFFICES ASSUME EditorInv, NEW c \in Client, clients[c] = "authed", tab[c].state = "open"
               PROVE  FoldLeft(Handled, tab[c], Pending(c)) = [state |-> "open", map |-> map]
      BY DEF ClientsFollow
  <2>1. PICK x : x = tab[c].map  OBVIOUS
  <2>2. tab[c] = Open(x) /\ Following(inbox[c], x, map)
        BY <2>1 DEF EditorInv, ClientsInv, Served
  <2>3. FoldLeft(Handled, Open(x), Pending(c)) = Open(map)  BY <2>2, PendingLeads
  <2> QED  BY <2>2, <2>3 DEF Open
<1> QED  BY <1>1, InvHolds, PTL

(***************************************************************************)
(* The refinement                                                          *)
(***************************************************************************)
LEMMA DoRefines ==
    ASSUME ExactRequests, EditInv, NEW m, NEW request \in Request, Do(m, request)
    PROVE  History!NewEdit \/ History!SameEdit
<1>1. PICK valid :
        LET groups == Recorded(valid, request.identifier)
            grown == Append(SubSeq(seen, 1, Len(groups)), map')
        IN  /\ action_groups' = Trim(groups)
            /\ cur_action_group' = Len(Trim(groups))
            /\ seen' = IF Len(groups) > MaxHistory THEN Tail(grown) ELSE grown
      BY DoResult
<1>2. PICK groups : groups = Recorded(valid, request.identifier)  OBVIOUS
<1>3. PICK grown : grown = Append(SubSeq(seen, 1, Len(groups)), map')  OBVIOUS
<1>4. /\ cur_action_group' = Len(Trim(groups))
      /\ seen' = IF Len(groups) > MaxHistory THEN Tail(grown) ELSE grown
      BY <1>1, <1>2, <1>3
<1>5. PICK k : k = cur_action_group  OBVIOUS
<1>6. /\ IsSeq(groups) /\ Len(groups) > 0 /\ Len(groups) \in {k, k + 1}
      /\ Joins(SubSeq(action_groups, 1, k), request.identifier) => Len(groups) = k
      /\ ~Joins(SubSeq(action_groups, 1, k), request.identifier) => Len(groups) = k + 1
  <2>1. IsSeq(groups) /\ Len(groups) > 0 /\ Len(groups) \in {k, k + 1}
        BY <1>2, <1>5, RecordedLength DEF EditInv
  <2>2. PICK kept : kept = SubSeq(action_groups, 1, k)  OBVIOUS
  <2>3. IsSeq(kept) /\ Len(kept) = k /\ k \in Nat
        BY <1>5, <2>2, FrontIsSeq, LenIsNat DEF EditInv, IndInv, HistoryBounds
  <2>4. PICK e, g : /\ e = [Last(kept) EXCEPT !.actions = MergeActions(@ \o valid)]
                    /\ g = [actions |-> valid, identifier |-> request.identifier]
        OBVIOUS
  <2>5. groups = IF Joins(kept, request.identifier) THEN [kept EXCEPT ![Len(kept)] = e]
                                                    ELSE Append(kept, g)
        BY <1>2, <1>5, <2>2, <2>4 DEF Recorded
  <2>6. ASSUME Joins(kept, request.identifier) PROVE Len(groups) = k
    <3>1. kept # <<>>  BY <2>6 DEF Joins
    <3>2. PICK S : kept \in Seq(S)  BY <2>3 DEF IsSeq
    <3>3. Len(kept) # 0  BY <3>1, <3>2, EmptySeq
    <3>4. Len(kept) \in 1 .. Len(kept)  BY <2>3, <3>3
    <3>5. groups = [kept EXCEPT ![Len(kept)] = e]  BY <2>5, <2>6
    <3> QED  BY <2>3, <3>4, <3>5, ReplaceIsSeq
  <2>7. ASSUME ~Joins(kept, request.identifier) PROVE Len(groups) = k + 1
    <3>1. groups = Append(kept, g)  BY <2>5, <2>7
    <3> QED  BY <2>3, <3>1, AppendIsSeq
  <2> QED  BY <2>1, <2>2, <2>6, <2>7
<1>7. /\ IsSeq(seen) /\ Len(seen) = Len(action_groups) + 1
      /\ Len(action_groups) \in Nat /\ Len(action_groups) <= MaxHistory
      /\ k \in 0 .. Len(action_groups) /\ MaxHistory \in Nat \ {0}
      BY <1>5, LenIsNat, MaxHistoryAssumption DEF EditInv, IndInv, HistoryBounds
<1>8. IsSeq(grown) /\ Len(grown) = Len(groups) + 1
  <2>1. Len(groups) \in 0 .. Len(seen)  BY <1>6, <1>7
  <2> QED  BY <1>3, <1>7, <2>1, GrownElements
<1>9. CASE Len(groups) = k + 1
  <2>1. History!Kept = SubSeq(seen, 1, k + 1)  BY <1>5 DEF History!Kept
  <2>2. grown = Append(History!Kept, map')  BY <1>3, <1>9, <2>1
  <2>3. seen' = History!Forget(grown)
    <3>1. Len(grown) > MaxHistory + 1 <=> Len(groups) > MaxHistory  BY <1>7, <1>8, <1>9
    <3> QED  BY <1>4, <3>1 DEF History!Forget
  <2>4. cur_action_group' + 1 = Len(seen')
    <3>1. CASE Len(groups) > MaxHistory
      <4>1. Trim(groups) = Tail(groups) /\ seen' = Tail(grown)  BY <1>4, <3>1 DEF Trim
      <4>2. Len(Tail(groups)) = Len(groups) - 1  BY <1>6, TailIsSeq
      <4>3. Len(Tail(grown)) = Len(grown) - 1  BY <1>7, <1>8, <1>9, TailIsSeq
      <4> QED  BY <1>4, <1>7, <1>8, <1>9, <4>1, <4>2, <4>3
    <3>2. CASE ~(Len(groups) > MaxHistory)
      <4>1. Trim(groups) = groups /\ seen' = grown  BY <1>4, <3>2 DEF Trim
      <4> QED  BY <1>4, <1>8, <4>1
    <3> QED  BY <3>1, <3>2
  <2> QED  BY <2>2, <2>3, <2>4 DEF History!NewEdit
<1>10. CASE Len(groups) = k
  <2>1. k \in 1 .. Len(action_groups) /\ ~(Len(groups) > MaxHistory)  BY <1>6, <1>7, <1>10
  <2>2. seen' = grown /\ cur_action_group' = k  BY <1>4, <1>10, <2>1 DEF Trim
  <2>3. PICK l : l = k + 1  OBVIOUS
  <2>4. PICK kept : kept = SubSeq(seen, 1, l)  OBVIOUS
  <2>5. IsSeq(kept) /\ Len(kept) = l /\ \A i \in 1 .. l : kept[i] = seen[i]
        BY <1>7, <2>1, <2>3, <2>4, FrontIsSeq, FrontElements
  <2>6. PICK t : t = [kept EXCEPT ![l] = map']  OBVIOUS
  <2>7. IsSeq(t) /\ Len(t) = l
    <3>1. l \in 1 .. Len(kept)  BY <1>7, <2>1, <2>3, <2>5
    <3> QED  BY <2>5, <2>6, <3>1, ReplaceIsSeq
  <2>8. \A i \in 1 .. l : t[i] = IF i = l THEN map' ELSE seen[i]
    <3>1. PICK S : kept \in Seq(S)  BY <2>5 DEF IsSeq
    <3>2. DOMAIN kept = 1 .. l  BY <2>5, <3>1, LenProperties
    <3> QED  BY <2>5, <2>6, <3>2
  <2>9. Len(grown) = l /\ grown[l] = map' /\ \A i \in 1 .. k : grown[i] = seen[i]
    <3>1. k \in 0 .. Len(seen)  BY <1>7
    <3> QED  BY <1>3, <1>7, <1>10, <2>3, <3>1, GrownElements
  <2>10. t = grown
    <3>1. PICK S : t \in Seq(S)  BY <2>7 DEF IsSeq
    <3>2. PICK R : grown \in Seq(R)  BY <1>8 DEF IsSeq
    <3>3. ASSUME NEW i \in 1 .. l PROVE t[i] = grown[i]
      <4>1. CASE i = l  BY <2>8, <2>9, <4>1
      <4>2. CASE i # l
        <5>1. i \in 1 .. k  BY <1>7, <2>3, <4>2
        <5> QED  BY <2>8, <2>9, <4>2, <5>1
      <4> QED  BY <4>1, <4>2
    <3>4. PICK U : U = S \cup R  OBVIOUS
    <3>5. t \in Seq(U) /\ grown \in Seq(U)  BY <3>1, <3>2, <3>4
    <3> QED  BY <2>7, <2>9, <3>3, <3>5, SeqEqual
  <2>11. History!Kept = kept  BY <1>5, <2>3, <2>4 DEF History!Kept
  <2>12. seen' = [History!Kept EXCEPT ![cur_action_group + 1] = map']
         BY <1>5, <2>2, <2>3, <2>6, <2>10, <2>11
  <2>13. cur_action_group + 1 > 1 /\ cur_action_group' + 1 = cur_action_group + 1
         BY <1>5, <1>7, <2>1, <2>2
  <2> QED  BY <2>12, <2>13 DEF History!SameEdit
<1> QED  BY <1>6, <1>9, <1>10

LEMMA StepRefines ==
    ASSUME ExactRequests, EditorInv, [Next]_vars
    PROVE  [History!Next]_(History!vars)
<1>0. EditInv /\ cur_action_group \in Nat /\ Len(seen) = Len(action_groups) + 1 /\ Len(action_groups) \in Nat
      BY LenIsNat DEF EditorInv, EditInv, IndInv, HistoryBounds
<1>1. CASE HostRequest
  <2>1. PICK r \in Request : Do(map, r)  BY <1>1 DEF HostRequest
  <2> QED  BY <1>0, <2>1, DoRefines DEF History!Next
<1>2. ASSUME NEW c \in Client, ClientRequest(c) PROVE [History!Next]_(History!vars)
  <2>1. PICK r \in Request : Do(tab[c].map, r)  BY <1>2 DEF ClientRequest
  <2> QED  BY <1>0, <2>1, DoRefines DEF History!Next
<1>3. CASE UndoCommand
  <2>1. /\ map' = seen[cur_action_group] /\ cur_action_group > 0
        /\ cur_action_group' = cur_action_group - 1 /\ UNCHANGED seen
        BY <1>0, <1>3, UndoResult DEF UndoCommand
  <2>2. /\ cur_action_group + 1 > 1 /\ cur_action_group' + 1 = cur_action_group
        /\ cur_action_group' + 1 = (cur_action_group + 1) - 1
        BY <1>0, <2>1
  <2>3. History!UndoEdit  BY <2>1, <2>2 DEF History!UndoEdit
  <2> QED  BY <2>3 DEF History!Next
<1>4. CASE RedoCommand
  <2>1. /\ map' = seen[cur_action_group + 2] /\ cur_action_group < Len(action_groups)
        /\ cur_action_group' = cur_action_group + 1 /\ UNCHANGED seen
        BY <1>0, <1>4, RedoResult DEF RedoCommand
  <2>2. /\ cur_action_group + 1 < Len(seen) /\ cur_action_group' + 1 = cur_action_group + 2
        /\ cur_action_group' + 1 = (cur_action_group + 1) + 1
        BY <1>0, <2>1
  <2>3. History!RedoEdit  BY <2>1, <2>2 DEF History!RedoEdit
  <2> QED  BY <2>3 DEF History!Next
<1>5. CASE UNCHANGED serverVars  BY <1>5 DEF serverVars, History!vars
<1>6. ASSUME NEW c \in Client, Connect(c) \/ Auth(c) \/ Disconnect(c) \/ Update(c)
      PROVE  UNCHANGED serverVars
      BY <1>6 DEF Connect, Auth, Disconnect, Update
<1> QED  BY <1>1, <1>2, <1>3, <1>4, <1>5, <1>6 DEF Next, vars

\* The server's action groups implement an undo list: whatever its clients do, undo
\* and redo go back and forth between the very maps there were.
THEOREM ServerImplementsUndoList ==
    ASSUME ExactRequests
    PROVE  Spec => ImplementsUndoList
<1>1. Init => History!Init  BY DEF Init, History!Init
<1>2. EditorInv /\ [Next]_vars => [History!Next]_(History!vars)  BY StepRefines
<1> QED  BY <1>1, <1>2, InvHolds, PTL DEF Spec, ImplementsUndoList, History!Spec
=============================================================================
