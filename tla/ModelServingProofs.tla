------------------------- MODULE ModelServingProofs -------------------------
(***************************************************************************)
(* Proofs about model serving. ModelServing, for every number of versions, *)
(* every size of the models and every limit: type correctness, that what   *)
(* is in production is what was promoted last, that nothing unpromoted     *)
(* answers, and that the session cache accounts for what it holds.         *)
(* InferenceWindows, for inputs of every length and every setting of the   *)
(* windows: type correctness, that no word is lost between two windows,    *)
(* that a word keeps the label of the window it is furthest inside of, and *)
(* that a window fits the model.                                           *)
(***************************************************************************)
EXTENDS ModelServing, InferenceWindows, FiniteSetTheorems, WellFoundedInduction, TLAPS

-----------------------------------------------------------------------------
(* Sums, by the functions that satisfy their recursive definition.         *)

\* A set of naturals that is not empty has a least element.
LEMMA Least ==
    ASSUME NEW S \in SUBSET Nat, S # {}
    PROVE  \E k \in S : \A l \in S : k <= l
<1> DEFINE R == OpToRel(<, Nat)
<1>1. PICK k \in S : \A l \in S : <<l, k>> \notin R
  <2>1. IsWellFoundedOn(R, Nat)
    BY NatLessThanWellFounded
  <2> HIDE DEF R
  <2>2. QED
    BY <2>1, WFMin
<1>2. \A l \in S : ~ (l < k)
  BY <1>1 DEF OpToRel
<1>3. QED
  BY <1>2

\* f is the account of what c has from a to before b.
Account(c, f, a, b) == f = [i \in a..b |-> IF i = a THEN 0 ELSE f[i - 1] + c[i - 1]]

\* Two accounts of the same agree: where they first differ they agree before.
LEMMA AccountsAgree ==
    ASSUME NEW c, NEW a \in Nat, NEW b \in Nat, NEW f, NEW g, Account(c, f, a, b), Account(c, g, a, b),
           NEW i \in a..b
    PROVE  f[i] = g[i]
<1> DEFINE T == {n \in Nat : n \in a..b /\ f[n] # g[n]}
<1>1. SUFFICES ASSUME T # {} PROVE FALSE
  OBVIOUS
<1>2. PICK n \in T : \A k \in T : n <= k
  <2>1. T \in SUBSET Nat
    OBVIOUS
  <2> HIDE DEF T
  <2>2. QED
    BY <1>1, <2>1, Least
<1>3. n \in Nat /\ n \in a..b /\ f[n] # g[n]
  BY <1>2
<1>4. n # a
  BY <1>3 DEF Account
<1>5. n - 1 \in Nat /\ n - 1 \in a..b
  BY <1>3, <1>4
<1>6. f[n] = f[n - 1] + c[n - 1] /\ g[n] = g[n - 1] + c[n - 1]
  BY <1>3, <1>4 DEF Account
<1>7. n - 1 \in T
  BY <1>3, <1>5, <1>6
<1>8. QED
  BY <1>2, <1>3, <1>7

\* The account of nothing.
LEMMA NoneAccounted ==
    ASSUME NEW c, NEW a \in Nat
    PROVE  \E f : Account(c, f, a, a) /\ f[a] = 0
<1> DEFINE f == [i \in a..a |-> 0]
<1>1. Account(c, f, a, a) /\ f[a] = 0
  BY DEF Account
<1>2. QED
  BY <1>1

\* The account of one more.
LEMMA OneMoreAccounted ==
    ASSUME NEW c, NEW a \in Nat, NEW b \in Nat, a <= b, NEW f, Account(c, f, a, b)
    PROVE  \E g : /\ Account(c, g, a, b + 1) /\ g[b + 1] = f[b] + c[b]
                /\ \A i \in a..b : g[i] = f[i]
<1> DEFINE g == [i \in a..(b + 1) |-> IF i = b + 1 THEN f[b] + c[b] ELSE f[i]]
<1>1. \A i \in a..b : f[i] = IF i = a THEN 0 ELSE f[i - 1] + c[i - 1]
  BY DEF Account
<1>2. ASSUME NEW i \in a..(b + 1)
      PROVE  g[i] = IF i = a THEN 0 ELSE g[i - 1] + c[i - 1]
  <2>1. CASE i = b + 1
    BY <2>1
  <2>2. CASE i # b + 1
    BY <1>1, <2>2
  <2>3. QED
    BY <2>1, <2>2
<1>3. g = [i \in a..(b + 1) |-> IF i = a THEN 0 ELSE g[i - 1] + c[i - 1]]
  BY <1>2
<1>4. g[b + 1] = f[b] + c[b] /\ \A i \in a..b : g[i] = f[i]
  OBVIOUS
<1>5. QED
  BY <1>3, <1>4 DEF Account

\* There is an account of any naturals: else a first end would have none.
LEMMA AccountExists ==
    ASSUME NEW c, NEW a \in Nat, NEW b \in Nat, a <= b, \A i \in a..(b - 1) : c[i] \in Nat
    PROVE  \E f : Account(c, f, a, b) /\ \A i \in a..b : f[i] \in Nat
<1> DEFINE Has(n) == \E f : Account(c, f, a, n) /\ \A i \in a..n : f[i] \in Nat
           T == {n \in Nat : n \in a..b /\ ~Has(n)}
<1>1. SUFFICES ASSUME T # {} PROVE FALSE
  <2>1. b \in a..b
    OBVIOUS
  <2>2. T = {} => Has(b)
    BY <2>1
  <2>3. QED
    BY <1>1, <2>2
<1>2. PICK n \in T : \A k \in T : n <= k
  <2>1. T \in SUBSET Nat
    OBVIOUS
  <2> HIDE DEF T
  <2>2. QED
    BY <1>1, <2>1, Least
<1>3. n \in Nat /\ n \in a..b /\ ~Has(n)
  BY <1>2
<1>4. Has(a)
  <2>1. PICK f : Account(c, f, a, a) /\ f[a] = 0
    BY NoneAccounted
  <2>2. \A i \in a..a : f[i] \in Nat
    BY <2>1
  <2>3. QED
    BY <2>1, <2>2
<1>5. n # a
  BY <1>3, <1>4
<1>6. n - 1 \in Nat /\ n - 1 \in a..b
  BY <1>3, <1>5
<1> HIDE DEF Has
<1>7. Has(n - 1)
  BY <1>2, <1>3, <1>6
<1>8. Has(n)
  <2>1. PICK f : Account(c, f, a, n - 1) /\ \A i \in a..(n - 1) : f[i] \in Nat
    BY <1>7 DEF Has
  <2>2. PICK g : /\ Account(c, g, a, n) /\ g[n] = f[n - 1] + c[n - 1]
                 /\ \A i \in a..(n - 1) : g[i] = f[i]
    BY <1>3, <1>6, <2>1, OneMoreAccounted
  <2>3. f[n - 1] \in Nat /\ c[n - 1] \in Nat
    BY <1>3, <1>6, <2>1
  <2>4. ASSUME NEW i \in a..n PROVE g[i] \in Nat
    BY <1>3, <2>1, <2>2, <2>3
  <2>5. QED
    BY <2>2, <2>4 DEF Has
<1>9. QED
  BY <1>3, <1>8

Places == {"grow", "back", "label", "done"}

LEMMA InitCutTypeOK == CutInit => CutTypeOK
<1> SUFFICES ASSUME CutInit PROVE CutTypeOK
  OBVIOUS
<1>1. NoWindow \in Window
  BY NAssumption DEF NoWindow, Window
<1>2. QED
  BY <1>1, NAssumption DEF CutInit, CutTypeOK

LEMMA StepCutTypeOK == CutTypeOK /\ [CutNext]_cutVars => CutTypeOK'
<1> SUFFICES ASSUME CutTypeOK, [CutNext]_cutVars PROVE CutTypeOK'
  OBVIOUS
<1>1. /\ counts \in [Words -> 0..MaxPieces] /\ \A word \in Words : counts[word] \in Nat
      /\ start \in 0..N /\ end \in start..N /\ back \in 0..N
      /\ used \in Nat /\ recovered \in Nat
      /\ windows \subseteq Window /\ unread \subseteq windows
      /\ best \in [Words -> Window] /\ at \in Places /\ N \in Nat
  BY NAssumption, PiecesAssumption DEF CutTypeOK, Places
<1>2. CASE Grow
  BY <1>1, <1>2 DEF Grow, CutTypeOK, Words, Places
<1>3. CASE Close
  BY <1>1, <1>3 DEF Close, CutTypeOK, Window, Places
<1>4. CASE Back
  <2>1. back - 1 \in Words /\ back - 1 \in 0..N
    BY <1>1, <1>4 DEF Back, Recovering, Words
  <2>2. recovered' \in Nat
    BY <1>1, <1>4, <2>1 DEF Back
  <2>3. QED
    BY <1>1, <1>4, <2>1, <2>2 DEF Back, CutTypeOK, Places
<1>5. CASE NextWindow
  BY <1>1, <1>5 DEF NextWindow, NewStart, CutTypeOK, Places
<1>6. ASSUME NEW w \in unread, Label(w) PROVE CutTypeOK'
  <2>1. PICK held : best' = [word \in Words |-> IF word \in held THEN w ELSE best[word]]
    <3>1. PICK surer : best' = [word \in Words |->
              IF word \in {x \in Words : w[1] <= x /\ x < w[2] /\ counts[x] > 0}
                 /\ (Better(w, word) \/ word \in surer) THEN w ELSE best[word]]
      BY <1>6 DEF Label
    <3> DEFINE held == {word \in Words : w[1] <= word /\ word < w[2] /\ counts[word] > 0
                                         /\ (Better(w, word) \/ word \in surer)}
    <3>2. best' = [word \in Words |-> IF word \in held THEN w ELSE best[word]]
      BY <3>1
    <3>3. QED
      BY <3>2
  <2>2. best' \in [Words -> Window]
    BY <1>1, <2>1
  <2>3. QED
    BY <1>1, <1>6, <2>2 DEF Label, CutTypeOK, Places
<1>7. CASE Finish
  BY <1>1, <1>7 DEF Finish, CutTypeOK, Places
<1>8. CASE Done \/ UNCHANGED cutVars
  BY <1>1, <1>8 DEF Done, cutVars, CutTypeOK, Places
<1>9. QED
  BY <1>2, <1>3, <1>4, <1>5, <1>6, <1>7, <1>8 DEF CutNext

\* Type correctness: the window at hand stays within the input.
THEOREM CutTypeCorrect == CutSpec => []CutTypeOK
BY InitCutTypeOK, StepCutTypeOK, PTL DEF CutSpec

-----------------------------------------------------------------------------
(* Cutting.                                                                *)

\* While a window grows there is a word for it, and on the way back over the
\* overlap the window is closed, has a word, and the new start is inside of it.
CutInv ==
    /\ at = "grow" => start < N
    /\ at = "back" => /\ start + 1 <= back /\ back <= end /\ end < N
                      /\ <<start, end>> \in windows
    /\ \A w \in windows : w[1] < w[2]
    /\ EveryWordInAWindow

LEMMA InitCut == CutInit => CutInv
BY NAssumption DEF CutInit, CutInv, EveryWordInAWindow, Words

\* Windows are only added, so a word in one stays in one.
LEMMA InSomeGrows ==
    ASSUME NEW ws, NEW vs, ws \subseteq vs, NEW word, InSome(word, ws)
    PROVE  InSome(word, vs)
BY DEF InSome

LEMMA StepCut == CutTypeOK /\ CutInv /\ [CutNext]_cutVars => CutInv'
<1> SUFFICES ASSUME CutTypeOK, CutInv, [CutNext]_cutVars PROVE CutInv'
  OBVIOUS
<1>1. start \in 0..N /\ end \in start..N /\ back \in 0..N /\ N \in Nat
  BY NAssumption DEF CutTypeOK
<1>2. CASE Grow
  BY <1>1, <1>2 DEF Grow, CutInv, EveryWordInAWindow
<1>3. CASE Close
  <2>1. start < end
    BY <1>1, <1>3 DEF Close, CutInv, Full
  <2>2. windows' = windows \cup {<<start, end>>} /\ UNCHANGED <<start, end>> /\ back' = end
    BY <1>3 DEF Close
  <2>3. \A word \in Words : word < start => InSome(word, windows')
    BY <2>2, InSomeGrows DEF CutInv, EveryWordInAWindow
  <2>4. \A w \in windows' : w[1] < w[2]
    BY <2>1, <2>2 DEF CutInv
  <2>5. CASE end < N
    BY <1>1, <1>3, <2>1, <2>2, <2>3, <2>4, <2>5 DEF Close, CutInv, EveryWordInAWindow
  <2>6. CASE ~ (end < N)
    <3>1. end = N /\ at' = "label"
      BY <1>1, <1>3, <2>6 DEF Close
    <3>2. ASSUME NEW word \in Words, ~ (word < start) PROVE InSome(word, windows')
      <4>1. <<start, end>> \in windows' /\ start <= word /\ word < end
        BY <1>1, <2>2, <3>1, <3>2 DEF Words
      <4>2. QED
        BY <4>1 DEF InSome
    <3>3. QED
      BY <2>2, <2>3, <2>4, <3>1, <3>2 DEF CutInv, EveryWordInAWindow
  <2>7. QED
    BY <2>5, <2>6
<1>4. CASE Back
  BY <1>1, <1>4 DEF Back, Recovering, CutInv, EveryWordInAWindow
<1>5. CASE NextWindow
  <2>1. /\ <<start, end>> \in windows /\ back <= end /\ end < N
        /\ start' = back /\ at' = "grow" /\ UNCHANGED windows
    BY <1>5 DEF NextWindow, NewStart, CutInv
  <2>2. ASSUME NEW word \in Words, word < back PROVE InSome(word, windows)
    <3>1. CASE word < start
      BY <3>1 DEF CutInv, EveryWordInAWindow
    <3>2. CASE ~ (word < start)
      <4>1. start <= word /\ word < end
        BY <1>1, <2>1, <2>2, <3>2 DEF Words
      <4>2. QED
        BY <2>1, <4>1 DEF InSome
    <3>3. QED
      BY <3>1, <3>2
  <2>3. QED
    BY <1>1, <2>1, <2>2 DEF CutInv, EveryWordInAWindow
<1>6. CASE (\E w \in unread : Label(w)) \/ Finish \/ Done \/ UNCHANGED cutVars
  <2>1. UNCHANGED <<windows, start>> /\ (at' = at \/ (at = "label" /\ at' = "done"))
    BY <1>6 DEF Label, Finish, Done, cutVars
  <2>2. at' # "back" \/ UNCHANGED <<end, back>>
    BY <1>6 DEF Label, Finish, Done, cutVars
  <2>3. QED
    BY <2>1, <2>2 DEF CutInv, EveryWordInAWindow
<1>7. QED
  BY <1>2, <1>3, <1>4, <1>5, <1>6 DEF CutNext

\* No word is lost between two windows, whatever the overlap recovers: the next
\* window starts inside of the one before it (_word_windows).
THEOREM EveryWord == CutSpec => []EveryWordInAWindow
<1>1. CutInv => EveryWordInAWindow
  BY DEF CutInv
<1>2. QED
  BY <1>1, InitCut, StepCut, InitCutTypeOK, StepCutTypeOK, PTL DEF CutSpec

-----------------------------------------------------------------------------
(* Labelling.                                                              *)

Holds(w, word) == w[1] <= word /\ word < w[2]

\* A word's window is one that was read, of those that hold the word the one it
\* is furthest inside of; before any was read, and for a word of no pieces, none.
BestOf(word, read, window) ==
    \/ window = NoWindow /\ (counts[word] = 0 \/ \A w \in read : ~ Holds(w, word))
    \/ /\ counts[word] > 0 /\ window \in read
       /\ \A w \in read : Holds(w, word) => Distance(w, word) <= Distance(window, word)

LabelInv ==
    /\ at \in {"grow", "back"} => best = [word \in Words |-> NoWindow]
    /\ at \in {"label", "done"} =>
          \A word \in Words : BestOf(word, windows \ unread, best[word])
    /\ at = "done" => unread = {}

LEMMA InitLabel == CutInit => LabelInv
BY NAssumption DEF CutInit, LabelInv, Words, BestOf

LEMMA DistanceType ==
    ASSUME NEW w \in Window, NEW word \in Words
    PROVE  Distance(w, word) \in Int
BY NAssumption DEF Distance, Lesser, Window, Words

\* One more window read: the word moves to it only when it is not less far inside
\* of it, and stays only when it is not further.
LEMMA OneMoreRead ==
    ASSUME NEW word \in Words, NEW read \in SUBSET Window, NoWindow \notin read,
           NEW w \in Window, NEW old \in Window, NEW new \in {old, w}, counts[word] \in Nat,
           BestOf(word, read, old),
           new = w => /\ counts[word] > 0
                      /\ old = NoWindow \/ Distance(w, word) >= Distance(old, word),
           new # w => \/ counts[word] = 0 \/ ~ Holds(w, word)
                      \/ old # NoWindow /\ Distance(w, word) <= Distance(old, word)
    PROVE  BestOf(word, read \cup {w}, new)
<1>1. /\ Distance(w, word) \in Int /\ Distance(old, word) \in Int
      /\ \A v \in read : Distance(v, word) \in Int
  BY DistanceType
<1>2. CASE new = w
  <2>1. ASSUME NEW v \in read, Holds(v, word) PROVE Distance(v, word) <= Distance(w, word)
    <3>1. old # NoWindow /\ Distance(v, word) <= Distance(old, word)
      BY <1>2, <2>1 DEF BestOf
    <3>2. QED
      BY <1>1, <1>2, <3>1
  <2>2. Distance(w, word) <= Distance(w, word)
    BY <1>1
  <2>3. QED
    BY <1>2, <2>1, <2>2 DEF BestOf
<1>3. CASE new # w
  <2>1. new = old
    BY <1>3
  <2>2. CASE counts[word] = 0
    BY <2>1, <2>2 DEF BestOf
  <2>3. CASE ~ Holds(w, word)
    BY <2>1, <2>3 DEF BestOf
  <2>4. CASE old # NoWindow /\ Distance(w, word) <= Distance(old, word)
    BY <2>1, <2>4 DEF BestOf
  <2>5. QED
    BY <1>3, <2>2, <2>3, <2>4
<1>4. QED
  BY <1>2, <1>3

LEMMA LabelStep ==
    ASSUME CutTypeOK, CutInv, LabelInv, NEW w \in unread, Label(w)
    PROVE  \A word \in Words : BestOf(word, windows \ (unread \ {w}), best'[word])
<1> DEFINE read == windows \ unread
           seen == {word \in Words : w[1] <= word /\ word < w[2] /\ counts[word] > 0}
           Equal(word) == best[word] # NoWindow /\ Distance(w, word) = Distance(best[word], word)
<1>1. /\ w \in Window /\ read \in SUBSET Window /\ best \in [Words -> Window]
      /\ windows \ (unread \ {w}) = read \cup {w}
      /\ \A word \in Words : counts[word] \in Nat
  BY PiecesAssumption DEF CutTypeOK
<1>2. NoWindow \notin read
  BY DEF CutInv, NoWindow
<1>3. PICK surer \in SUBSET {word \in seen : Equal(word)} :
          best' = [word \in Words |-> IF word \in seen /\ (Better(w, word) \/ word \in surer)
                                      THEN w ELSE best[word]]
  BY DEF Label
<1>4. ASSUME NEW word \in Words PROVE BestOf(word, read \cup {w}, best'[word])
  <2>1. BestOf(word, read, best[word])
    BY DEF LabelInv, Label
  <2>2. Distance(w, word) \in Int /\ Distance(best[word], word) \in Int
    BY <1>1, DistanceType
  <2>3. best'[word] = IF word \in seen /\ (Better(w, word) \/ word \in surer)
                      THEN w ELSE best[word]
    BY <1>3
  <2>4. best'[word] \in {best[word], w}
    BY <2>3
  <2>5. CASE word \in seen /\ (Better(w, word) \/ word \in surer)
    <3>1. counts[word] > 0 /\ best'[word] = w
      BY <2>3, <2>5
    <3>2. best[word] = NoWindow \/ Distance(w, word) >= Distance(best[word], word)
      BY <1>3, <2>2, <2>5 DEF Better
    <3>3. QED
      BY <1>1, <1>2, <2>1, <2>4, <3>1, <3>2, OneMoreRead
  <2>6. CASE ~ (word \in seen /\ (Better(w, word) \/ word \in surer))
    <3>1. best'[word] = best[word]
      BY <2>3, <2>6
    <3>2. \/ counts[word] = 0 \/ ~ Holds(w, word)
          \/ best[word] # NoWindow /\ Distance(w, word) <= Distance(best[word], word)
      BY <1>1, <2>2, <2>6 DEF Better, Holds
    <3>3. best[word] = w => w \in read
      BY <1>1, <2>1, <3>1 DEF BestOf, CutInv, CutTypeOK, NoWindow
    <3>4. w \notin read
      OBVIOUS
    <3>5. QED
      BY <1>1, <1>2, <2>1, <2>4, <3>1, <3>2, <3>3, <3>4, OneMoreRead
  <2>7. QED
    BY <2>5, <2>6
<1>5. QED
  BY <1>1, <1>4

LEMMA StepLabel == CutTypeOK /\ CutInv /\ LabelInv /\ [CutNext]_cutVars => LabelInv'
<1> SUFFICES ASSUME CutTypeOK, CutInv, LabelInv, [CutNext]_cutVars PROVE LabelInv'
  OBVIOUS
<1>1. CASE Grow \/ Back \/ NextWindow
  <2>1. UNCHANGED best /\ at \in {"grow", "back"} /\ at' \in {"grow", "back"}
    BY <1>1 DEF Grow, Back, NextWindow
  <2>2. QED
    BY <2>1 DEF LabelInv
<1>2. CASE Close
  <2>1. /\ best' = [word \in Words |-> NoWindow] /\ at' \in {"back", "label"}
        /\ at' = "label" => windows' \ unread' = {}
    BY <1>2 DEF Close, LabelInv
  <2>2. QED
    BY <2>1 DEF LabelInv, BestOf
<1>3. ASSUME NEW w \in unread, Label(w) PROVE LabelInv'
  <2>1. \A word \in Words : BestOf(word, windows \ (unread \ {w}), best'[word])
    BY <1>3, LabelStep
  <2>2. /\ unread' = unread \ {w} /\ at' = "label" /\ UNCHANGED <<windows, counts>>
    BY <1>3 DEF Label
  <2>3. QED
    BY <2>1, <2>2 DEF LabelInv, BestOf
<1>4. CASE Finish \/ Done \/ UNCHANGED cutVars
  BY <1>4 DEF Finish, Done, cutVars, LabelInv, BestOf
<1>5. QED
  BY <1>1, <1>2, <1>3, <1>4 DEF CutNext

\* Once the model was run, exactly the words of some pieces are labelled, each
\* from the window that shows most of its surroundings.
THEOREM BestLabels == CutSpec => []LabelsAreBest
<1>1. CutTypeOK /\ CutInv /\ LabelInv => LabelsAreBest
  <2> SUFFICES ASSUME CutTypeOK, CutInv, LabelInv, at = "done", NEW word \in Words
               PROVE  IF counts[word] = 0 THEN best[word] = NoWindow
                      ELSE /\ best[word] \in windows
                           /\ \A w \in windows : w[1] <= word /\ word < w[2]
                                  => Distance(w, word) <= Distance(best[word], word)
    BY DEF LabelsAreBest
  <2>1. BestOf(word, windows, best[word]) /\ counts[word] \in Nat
    BY PiecesAssumption DEF LabelInv, CutTypeOK
  <2>2. \E w \in windows : Holds(w, word)
    BY DEF CutInv, EveryWordInAWindow, InSome, Holds
  <2>3. QED
    BY <2>1, <2>2 DEF BestOf, Holds
<1>2. QED
  BY <1>1, InitCut, StepCut, InitLabel, StepLabel, InitCutTypeOK, StepCutTypeOK, PTL DEF CutSpec

-----------------------------------------------------------------------------
(* Windows fit.                                                            *)

\* The recursive sum is what any account comes to.
LEMMA PiecesAccounted ==
    ASSUME NEW w \in Window, w[1] <= w[2], NEW f, Account(counts, f, w[1], w[2])
    PROVE  PiecesOf(w) = f[w[2]]
<1> DEFINE sum == CHOOSE g : Account(counts, g, w[1], w[2])
<1>1. w[1] \in Nat /\ w[2] \in Nat /\ w[2] \in w[1]..w[2]
  BY NAssumption DEF Window
<1>2. Account(counts, sum, w[1], w[2])
  OBVIOUS
<1>3. PiecesOf(w) = sum[w[2]]
  BY DEF PiecesOf, Account
<1> HIDE DEF sum
<1>4. QED
  BY <1>1, <1>2, <1>3, AccountsAgree

\* The window at hand is accounted for by its pieces in use, and they are within the
\* budget once it has two words; so they were of every window when it was closed.
FitInv ==
    /\ at = "grow" =>
          /\ \E f : Account(counts, f, start, end) /\ f[end] = used
          /\ end <= start + 1 \/ used <= Budget
    /\ \A w \in windows : \/ w[2] = w[1] + 1
                          \/ \E f : Account(counts, f, w[1], w[2]) /\ f[w[2]] <= Budget

LEMMA InitFit == CutInit => FitInv
BY NoneAccounted DEF CutInit, FitInv

LEMMA StepFit == CutTypeOK /\ CutInv /\ FitInv /\ [CutNext]_cutVars => FitInv'
<1> SUFFICES ASSUME CutTypeOK, CutInv, FitInv, [CutNext]_cutVars PROVE FitInv'
  OBVIOUS
<1>1. /\ start \in Nat /\ end \in Nat /\ back \in Nat /\ start <= end
      /\ used \in Nat /\ Budget \in Int
  BY NAssumption, GeometryAssumption DEF CutTypeOK, Budget, Greater, Lesser
<1>2. CASE Grow
  <2>1. /\ at = "grow" /\ ~Full /\ used' = used + counts[end] /\ end' = end + 1
        /\ UNCHANGED <<counts, start, windows>>
    BY <1>2 DEF Grow
  <2>2. PICK f : Account(counts, f, start, end) /\ f[end] = used
    BY <2>1 DEF FitInv
  <2>3. \E g : Account(counts, g, start, end') /\ g[end'] = used'
    BY <1>1, <2>1, <2>2, OneMoreAccounted
  <2>4. end' <= start + 1 \/ used' <= Budget
    <3>1. counts[end] \in Nat
      <4>1. end \in Words
        BY <1>1, <1>2, NAssumption DEF Grow, Words
      <4>2. counts[end] \in 0..MaxPieces
        BY <4>1 DEF CutTypeOK
      <4>3. QED
        BY <4>2, PiecesAssumption
    <3>2. QED
      BY <1>1, <2>1, <3>1 DEF Full
  <2>5. QED
    BY <2>1, <2>3, <2>4 DEF FitInv, Account, Budget
<1>3. CASE Close
  <2>1. /\ at = "grow" /\ windows' = windows \cup {<<start, end>>} /\ at' # "grow"
        /\ counts' = counts
    BY <1>3 DEF Close
  <2>2. start < end
    BY <1>1, <1>3 DEF Close, CutInv, Full
  <2>3. end = start + 1 \/ \E f : Account(counts, f, start, end) /\ f[end] <= Budget
    BY <1>1, <2>1, <2>2 DEF FitInv
  <2>4. QED
    BY <2>1, <2>3 DEF FitInv, Account, Budget
<1>4. CASE NextWindow
  <2>1. UNCHANGED <<counts, windows>> /\ start' = back /\ end' = back /\ used' = 0
    BY <1>4 DEF NextWindow, NewStart
  <2>2. \E f : Account(counts, f, back, back) /\ f[back] = 0
    BY <1>1, NoneAccounted
  <2>3. QED
    BY <1>1, <2>1, <2>2 DEF FitInv, Account, Budget
<1>5. CASE Back \/ (\E w \in unread : Label(w)) \/ Finish \/ Done \/ UNCHANGED cutVars
  <2>1. UNCHANGED <<counts, windows, start, end, used>> /\ (at' = at \/ at' # "grow")
    BY <1>5 DEF Back, Label, Finish, Done, cutVars
  <2>2. QED
    BY <2>1 DEF FitInv, Account, Budget
<1>6. QED
  BY <1>2, <1>3, <1>4, <1>5 DEF CutNext

\* Every window is within the model's budget of pieces, or is one word that exceeds it
\* alone, whatever the words and the settings (_word_windows).
THEOREM EveryWindowFits == CutSpec => []WindowsFit
<1>1. CutTypeOK /\ CutInv /\ FitInv => WindowsFit
  <2> SUFFICES ASSUME CutTypeOK, CutInv, FitInv, NEW w \in windows, w[2] # w[1] + 1
               PROVE  w[1] < w[2] /\ PiecesOf(w) <= Budget /\ Budget <= Positions
    BY DEF WindowsFit
  <2>1. w \in Window /\ w[1] \in Int /\ w[2] \in Int /\ w[1] < w[2]
    BY NAssumption DEF CutTypeOK, CutInv, Window
  <2>2. PICK f : Account(counts, f, w[1], w[2]) /\ f[w[2]] <= Budget
    BY DEF FitInv
  <2>3. PiecesOf(w) = f[w[2]]
    BY <2>1, <2>2, PiecesAccounted
  <2>4. Budget <= Positions
    BY GeometryAssumption DEF Budget, Greater, Lesser
  <2>5. QED
    BY <2>1, <2>2, <2>3, <2>4
<1>2. QED
  BY <1>1, InitCut, StepCut, InitCutTypeOK, StepCutTypeOK, InitFit, StepFit, PTL DEF CutSpec

-----------------------------------------------------------------------------
(* The session cache.                                                      *)

Entry == [id : Models, model : Versions]
SizeAt(q) == [i \in 0..(Len(q) - 1) |-> Size[q[i + 1].model]]
ModelsOf(q) == {q[i].model : i \in DOMAIN q}
Unique(q) == \A i, j \in DOMAIN q : q[i].id = q[j].id => i = j

LEMMA EntryIs ==
    ASSUME NEW q \in Seq(Entry), NEW i \in DOMAIN q
    PROVE  /\ q[i] \in Entry /\ q[i].id \in Models /\ q[i].model \in Versions
           /\ Size[q[i].model] \in Nat /\ i \in 1..Len(q) /\ Len(q) \in Nat
<1>1. q[i] \in Entry /\ i \in 1..Len(q)
  OBVIOUS
<1>2. q[i].id \in Models /\ q[i].model \in Versions
  BY <1>1 DEF Entry
<1>3. QED
  BY <1>1, <1>2, SizeAssumption DEF Versions

\* The memory of a queue is what any account of it comes to, and there is one.
LEMMA MemoryIs ==
    ASSUME NEW q \in Seq(Entry), NEW f, Account(SizeAt(q), f, 0, Len(q))
    PROVE  Memory(q) = f[Len(q)]
<1> DEFINE Sums(g) == g = [i \in 0..Len(q) |-> IF i = 0 THEN 0 ELSE g[i - 1] + Size[q[i].model]]
           sum == CHOOSE g : Sums(g)
<1>1. Len(q) \in Nat /\ Len(q) \in 0..Len(q)
  OBVIOUS
<1>2. \A i \in 0..Len(q) : i # 0 => SizeAt(q)[i - 1] = Size[q[i].model]
  BY <1>1 DEF SizeAt
<1>3. \A g : Sums(g) <=> Account(SizeAt(q), g, 0, Len(q))
  <2>1. ASSUME NEW g
        PROVE  [i \in 0..Len(q) |-> IF i = 0 THEN 0 ELSE g[i - 1] + Size[q[i].model]] =
                   [i \in 0..Len(q) |-> IF i = 0 THEN 0 ELSE g[i - 1] + SizeAt(q)[i - 1]]
    BY <1>2
  <2>2. QED
    BY <2>1 DEF Account
<1>4. Memory(q) = sum[Len(q)]
  BY DEF Memory
<1> HIDE DEF Sums
<1>5. Sums(sum)
  BY <1>3
<1> HIDE DEF sum
<1>6. Account(SizeAt(q), sum, 0, Len(q))
  BY <1>3, <1>5
<1>7. sum[Len(q)] = f[Len(q)]
  BY <1>1, <1>6, AccountsAgree
<1>8. QED
  BY <1>4, <1>7

LEMMA MemoryExists ==
    ASSUME NEW q \in Seq(Entry)
    PROVE  /\ \E f : /\ Account(SizeAt(q), f, 0, Len(q)) /\ Memory(q) = f[Len(q)]
                     /\ \A i \in 0..Len(q) : f[i] \in Nat
           /\ Memory(q) \in Nat
<1>1. Len(q) \in Nat /\ 0 \in Nat /\ 0 <= Len(q)
  OBVIOUS
<1>2. ASSUME NEW i \in 0..(Len(q) - 1) PROVE SizeAt(q)[i] \in Nat
  <2>1. i + 1 \in DOMAIN q
    BY <1>1, <1>2
  <2>2. QED
    BY <2>1, EntryIs DEF SizeAt
<1>3. PICK f : Account(SizeAt(q), f, 0, Len(q)) /\ \A i \in 0..Len(q) : f[i] \in Nat
  BY <1>1, <1>2, AccountExists
<1>4. Memory(q) = f[Len(q)]
  BY <1>3, MemoryIs
<1>5. QED
  BY <1>1, <1>3, <1>4

LEMMA MemoryOfNone == Memory(<<>>) = 0
<1>1. PICK f : Account(SizeAt(<<>>), f, 0, 0) /\ f[0] = 0
  BY NoneAccounted
<1>2. <<>> \in Seq(Entry) /\ Len(<<>>) = 0
  OBVIOUS
<1>3. QED
  BY <1>1, <1>2, MemoryIs

\* What an account says, element by element.
LEMMA AccountAt ==
    ASSUME NEW q \in Seq(Entry), NEW f, Account(SizeAt(q), f, 0, Len(q))
    PROVE  f[0] = 0 /\ \A i \in 1..Len(q) : f[i] = f[i - 1] + Size[q[i].model]
<1>1. Len(q) \in Nat
  OBVIOUS
<1>2. \A i \in 0..Len(q) : f[i] = IF i = 0 THEN 0 ELSE f[i - 1] + SizeAt(q)[i - 1]
  BY <1>1 DEF Account
<1>3. \A i \in 1..Len(q) : SizeAt(q)[i - 1] = Size[q[i].model]
  BY <1>1 DEF SizeAt
<1>4. QED
  BY <1>1, <1>2, <1>3

\* And the other way round.
LEMMA AccountBy ==
    ASSUME NEW q \in Seq(Entry), NEW f, f = [i \in 0..Len(q) |-> f[i]],
           f[0] = 0, \A i \in 1..Len(q) : f[i] = f[i - 1] + Size[q[i].model]
    PROVE  Account(SizeAt(q), f, 0, Len(q))
<1>1. Len(q) \in Nat
  OBVIOUS
<1>2. \A i \in 1..Len(q) : SizeAt(q)[i - 1] = Size[q[i].model]
  BY <1>1 DEF SizeAt
<1>3. ASSUME NEW i \in 0..Len(q)
      PROVE  f[i] = IF i = 0 THEN 0 ELSE f[i - 1] + SizeAt(q)[i - 1]
  <2>1. CASE i = 0
    BY <2>1
  <2>2. CASE i # 0
    <3>1. i \in 1..Len(q)
      BY <1>1, <2>2
    <3>2. f[i] = f[i - 1] + Size[q[i].model] /\ SizeAt(q)[i - 1] = Size[q[i].model]
      BY <1>2, <3>1
    <3>3. QED
      BY <2>2, <3>2
  <2>3. QED
    BY <2>1, <2>2
<1>4. QED
  BY <1>3 DEF Account

LEMMA MemoryOfAppend ==
    ASSUME NEW q \in Seq(Entry), NEW e \in Entry
    PROVE  /\ Append(q, e) \in Seq(Entry)
           /\ Memory(Append(q, e)) = Memory(q) + Size[e.model]
<1> DEFINE p == Append(q, e)
<1>1. /\ p \in Seq(Entry) /\ Len(p) = Len(q) + 1 /\ Len(q) \in Nat /\ p[Len(p)] = e
      /\ \A i \in 1..Len(q) : p[i] = q[i]
  OBVIOUS
<1> HIDE DEF p
<1>2. PICK f : Account(SizeAt(q), f, 0, Len(q)) /\ Memory(q) = f[Len(q)]
  BY MemoryExists
<1> DEFINE g == [i \in 0..Len(p) |-> IF i = Len(p) THEN f[Len(q)] + Size[e.model] ELSE f[i]]
<1>3. f[0] = 0 /\ \A i \in 1..Len(q) : f[i] = f[i - 1] + Size[q[i].model]
  BY <1>2, AccountAt
<1>4. g[0] = 0
  BY <1>1, <1>3
<1>5. ASSUME NEW i \in 1..Len(p) PROVE g[i] = g[i - 1] + Size[p[i].model]
  <2>1. CASE i = Len(p)
    <3>1. g[i] = f[Len(q)] + Size[e.model] /\ g[i - 1] = f[Len(q)] /\ p[i] = e
      BY <1>1, <2>1
    <3>2. QED
      BY <3>1
  <2>2. CASE i # Len(p)
    <3>1. i \in 1..Len(q) /\ g[i] = f[i] /\ g[i - 1] = f[i - 1] /\ p[i] = q[i]
      BY <1>1, <2>2
    <3>2. QED
      BY <1>3, <3>1
  <2>3. QED
    BY <2>1, <2>2
<1>6. g = [i \in 0..Len(p) |-> g[i]] /\ g[Len(p)] = Memory(q) + Size[e.model]
  BY <1>1, <1>2
<1> HIDE DEF g
<1>7. Memory(p) = g[Len(p)]
  BY <1>1, <1>4, <1>5, <1>6, AccountBy, MemoryIs
<1>8. QED
  BY <1>1, <1>6, <1>7 DEF p

LEMMA RemoveIs ==
    ASSUME NEW q \in Seq(Entry), NEW n \in DOMAIN q
    PROVE  /\ RemoveAt(q, n) \in Seq(Entry) /\ Len(RemoveAt(q, n)) = Len(q) - 1
           /\ \A i \in 1..(Len(q) - 1) : RemoveAt(q, n)[i] = IF i < n THEN q[i] ELSE q[i + 1]
<1> DEFINE s == SubSeq(q, 1, n - 1)
           t == SubSeq(q, n + 1, Len(q))
<1>1. Len(q) \in Nat /\ n \in 1..Len(q)
  OBVIOUS
<1>2. s \in Seq(Entry) /\ Len(s) = n - 1 /\ \A i \in 1..(n - 1) : s[i] = q[i]
  BY <1>1
<1>3. /\ t \in Seq(Entry) /\ Len(t) = Len(q) - n
      /\ \A i \in 1..(Len(q) - n) : t[i] = q[n + i]
  BY <1>1
<1>4. RemoveAt(q, n) = s \o t
  BY DEF RemoveAt
<1> HIDE DEF s, t
<1>5. s \o t \in Seq(Entry) /\ Len(s \o t) = Len(q) - 1
  BY <1>1, <1>2, <1>3
<1>6. ASSUME NEW i \in 1..(Len(q) - 1)
      PROVE  (s \o t)[i] = IF i < n THEN q[i] ELSE q[i + 1]
  <2> DEFINE m == n - 1
  <2>0. Len(s) = m /\ m \in Nat /\ i \in Int /\ n = m + 1
    BY <1>1, <1>2
  <2>3. i \in 1..(Len(s) + Len(t))
    BY <1>1, <1>2, <1>3
  <2>4. (s \o t)[i] = IF i <= Len(s) THEN s[i] ELSE t[i - Len(s)]
    <3>1. s \in Seq(Entry) /\ t \in Seq(Entry)
      BY <1>2, <1>3
    <3>2. QED
      BY <2>3, <3>1
  <2> HIDE DEF m
  <2>1. CASE i < n
    <3>1. i <= Len(s) /\ i \in 1..(n - 1)
      BY <2>0, <2>1
    <3>2. QED
      BY <1>2, <2>1, <2>4, <3>1
  <2>2. CASE ~ (i < n)
    <3>1. (s \o t)[i] = t[i - (n - 1)]
      <4>1. ~ (i <= Len(s)) /\ Len(s) = n - 1
        BY <2>0, <2>2
      <4>2. QED
        BY <2>4, <4>1
    <3>2. i - (n - 1) \in 1..(Len(q) - n) /\ n + (i - (n - 1)) = i + 1
      BY <1>1, <2>2
    <3>3. QED
      BY <1>3, <2>2, <3>1, <3>2
  <2>5. QED
    BY <2>1, <2>2
<1>7. QED
  BY <1>4, <1>5, <1>6

LEMMA MemoryOfRemoved ==
    ASSUME NEW q \in Seq(Entry), NEW n \in DOMAIN q
    PROVE  Memory(RemoveAt(q, n)) = Memory(q) - Size[q[n].model]
<1> DEFINE p == RemoveAt(q, n)
           m == Size[q[n].model]
<1>1. /\ p \in Seq(Entry) /\ Len(p) = Len(q) - 1 /\ n \in 1..Len(q) /\ Len(q) \in Nat /\ m \in Nat
      /\ \A i \in 1..(Len(q) - 1) : p[i] = IF i < n THEN q[i] ELSE q[i + 1]
  BY RemoveIs, EntryIs
<1> HIDE DEF p
<1>2. PICK f : /\ Account(SizeAt(q), f, 0, Len(q)) /\ Memory(q) = f[Len(q)]
               /\ \A i \in 0..Len(q) : f[i] \in Nat
  BY MemoryExists
<1>3. f[0] = 0 /\ \A i \in 1..Len(q) : f[i] = f[i - 1] + Size[q[i].model]
  BY <1>2, AccountAt
<1>4. \A i \in 1..Len(q) : Size[q[i].model] \in Nat
  BY EntryIs
<1> DEFINE g == [i \in 0..Len(p) |-> IF i < n THEN f[i] ELSE f[i + 1] - m]
<1>5. g[0] = 0
  BY <1>1, <1>3
<1>6. ASSUME NEW i \in 1..Len(p) PROVE g[i] = g[i - 1] + Size[p[i].model]
  <2>1. CASE i < n
    <3>1. i \in 1..Len(q) /\ g[i] = f[i] /\ g[i - 1] = f[i - 1] /\ p[i] = q[i]
      BY <1>1, <2>1
    <3>2. QED
      BY <1>3, <3>1
  <2>2. CASE i = n
    <3>1. g[i] = f[i + 1] - m /\ g[i - 1] = f[i - 1] /\ p[i] = q[i + 1]
      BY <1>1, <2>2
    <3>2. f[i + 1] = f[i] + Size[q[i + 1].model] /\ f[i] = f[i - 1] + m
      BY <1>1, <1>3, <2>2
    <3>3. f[i - 1] \in Nat /\ Size[q[i + 1].model] \in Nat
      BY <1>1, <1>2, <1>4
    <3> HIDE DEF g, m
    <3>4. QED
      BY <1>1, <3>1, <3>2, <3>3
  <2>3. CASE i > n
    <3>1. g[i] = f[i + 1] - m /\ g[i - 1] = f[i] - m /\ p[i] = q[i + 1]
      BY <1>1, <2>3
    <3>2. f[i + 1] = f[i] + Size[q[i + 1].model]
      BY <1>1, <1>3, <2>3
    <3>3. f[i] \in Nat /\ Size[q[i + 1].model] \in Nat
      BY <1>1, <1>2, <1>4
    <3> HIDE DEF g, m
    <3>4. QED
      BY <1>1, <3>1, <3>2, <3>3
  <2>4. QED
    BY <1>1, <2>1, <2>2, <2>3
<1>7. g = [i \in 0..Len(p) |-> g[i]]
  OBVIOUS
<1>8. g[Len(p)] = f[Len(q)] - m
  <2>1. CASE n = Len(q)
    <3>1. g[Len(p)] = f[n - 1] /\ f[n] = f[n - 1] + m /\ f[n - 1] \in Nat
      BY <1>1, <1>2, <1>3, <2>1
    <3> HIDE DEF g, m
    <3>2. QED
      BY <1>1, <2>1, <3>1
  <2>2. CASE n # Len(q)
    BY <1>1, <2>2
  <2>3. QED
    BY <2>1, <2>2
<1> HIDE DEF g
<1>9. Memory(p) = g[Len(p)]
  BY <1>1, <1>5, <1>6, <1>7, AccountBy, MemoryIs
<1>10. QED
  BY <1>2, <1>8, <1>9 DEF p

LEMMA MemoryOfRest ==
    ASSUME NEW q \in Seq(Entry), NEW k \in 0..Len(q)
    PROVE  /\ SubSeq(q, 1, k) \in Seq(Entry) /\ SubSeq(q, k + 1, Len(q)) \in Seq(Entry)
           /\ Len(SubSeq(q, k + 1, Len(q))) = Len(q) - k
           /\ \A i \in 1..(Len(q) - k) : SubSeq(q, k + 1, Len(q))[i] = q[k + i]
           /\ Memory(SubSeq(q, k + 1, Len(q))) = Memory(q) - Memory(SubSeq(q, 1, k))
<1> DEFINE s == SubSeq(q, 1, k)
           t == SubSeq(q, k + 1, Len(q))
<1>1. Len(q) \in Nat /\ k \in Nat /\ k <= Len(q)
  OBVIOUS
<1>2. s \in Seq(Entry) /\ Len(s) = k /\ \A i \in 1..k : s[i] = q[i]
  BY <1>1
<1>3. /\ t \in Seq(Entry) /\ Len(t) = Len(q) - k
      /\ \A i \in 1..(Len(q) - k) : t[i] = q[k + i]
  BY <1>1
<1> HIDE DEF s, t
<1>4. PICK f : /\ Account(SizeAt(q), f, 0, Len(q)) /\ Memory(q) = f[Len(q)]
               /\ \A i \in 0..Len(q) : f[i] \in Nat
  BY MemoryExists
<1>5. f[0] = 0 /\ \A i \in 1..Len(q) : f[i] = f[i - 1] + Size[q[i].model]
  BY <1>4, AccountAt
<1>6. Memory(s) = f[k]
  <2> DEFINE g == [i \in 0..Len(s) |-> f[i]]
  <2>1. g[0] = 0 /\ g = [i \in 0..Len(s) |-> g[i]] /\ g[Len(s)] = f[k]
    BY <1>1, <1>2, <1>5
  <2>2. ASSUME NEW i \in 1..Len(s) PROVE g[i] = g[i - 1] + Size[s[i].model]
    <3>1. i \in 1..Len(q) /\ g[i] = f[i] /\ g[i - 1] = f[i - 1] /\ s[i] = q[i]
      BY <1>1, <1>2
    <3>2. QED
      BY <1>5, <3>1
  <2> HIDE DEF g
  <2>3. QED
    BY <1>2, <2>1, <2>2, AccountBy, MemoryIs
<1>7. Memory(t) = f[Len(q)] - f[k]
  <2> DEFINE g == [i \in 0..Len(t) |-> f[k + i] - f[k]]
  <2>1. f[k] \in Nat /\ f[Len(q)] \in Nat
    BY <1>1, <1>4
  <2>2. g[0] = 0 /\ g[Len(t)] = f[Len(q)] - f[k]
    BY <1>1, <1>3, <2>1
  <2>3. ASSUME NEW i \in 1..Len(t) PROVE g[i] = g[i - 1] + Size[t[i].model]
    <3>1. /\ k + i \in 1..Len(q) /\ g[i] = f[k + i] - f[k] /\ t[i] = q[k + i]
          /\ g[i - 1] = f[k + i - 1] - f[k]
      BY <1>1, <1>3
    <3>2. f[k + i] = f[k + i - 1] + Size[q[k + i].model]
      BY <1>5, <3>1
    <3>3. f[k + i - 1] \in Nat /\ Size[q[k + i].model] \in Nat
      BY <1>1, <1>4, <3>1, EntryIs
    <3> DEFINE x == f[k + i - 1]  y == Size[q[k + i].model]  z == f[k]
    <3>4. x \in Nat /\ y \in Nat /\ z \in Nat
      BY <2>1, <3>3
    <3>5. g[i] = (x + y) - z /\ g[i - 1] = x - z /\ Size[t[i].model] = y
      BY <3>1, <3>2
    <3> HIDE DEF g, x, y, z
    <3>6. QED
      BY <3>4, <3>5
  <2>4. g = [i \in 0..Len(t) |-> g[i]]
    OBVIOUS
  <2> HIDE DEF g
  <2>5. QED
    BY <1>3, <2>2, <2>3, <2>4, AccountBy, MemoryIs
<1>8. QED
  BY <1>2, <1>3, <1>4, <1>6, <1>7 DEF s, t

\* A cache: its entries, one for each id, what they take, and that this is within the
\* limit but for a single model.
Sound(q, m) ==
    /\ q \in Seq(Entry) /\ Unique(q)
    /\ m = Memory(q) /\ (m <= Limit \/ Len(q) = 1)

\* What is left without an id: one entry less, the others as they were.
LEMMA WithoutIs ==
    ASSUME NEW q, NEW m, Sound(q, m), NEW n \in DOMAIN q
    PROVE  /\ Place(q, q[n].id) = n
           /\ Without(q, q[n].id) = RemoveAt(q, n)
           /\ \A i \in DOMAIN RemoveAt(q, n) : RemoveAt(q, n)[i].id # q[n].id
           /\ ModelsOf(RemoveAt(q, n)) \subseteq ModelsOf(q)
           /\ Sound(RemoveAt(q, n), m - Size[q[n].model])
<1> DEFINE p == RemoveAt(q, n)
<1>1. Place(q, q[n].id) = n
  BY DEF Place, Sound, Unique
<1>2. Without(q, q[n].id) = RemoveAt(q, n)
  BY <1>1 DEF Without
<1>3. /\ q \in Seq(Entry) /\ p \in Seq(Entry) /\ Len(p) = Len(q) - 1
      /\ n \in 1..Len(q) /\ Len(q) \in Nat /\ Size[q[n].model] \in Nat
      /\ \A i \in 1..(Len(q) - 1) : p[i] = IF i < n THEN q[i] ELSE q[i + 1]
  BY RemoveIs, EntryIs DEF Sound
<1>4. Memory(p) = Memory(q) - Size[q[n].model] /\ Memory(q) \in Nat
  BY <1>3, MemoryOfRemoved, MemoryExists
<1> HIDE DEF p
<1> DEFINE At(i) == IF i < n THEN i ELSE i + 1
<1>5. ASSUME NEW i \in DOMAIN p
      PROVE  At(i) \in DOMAIN q /\ At(i) # n /\ p[i] = q[At(i)]
  BY <1>3
<1>6. ASSUME NEW i \in DOMAIN p, NEW j \in DOMAIN p, At(i) = At(j) PROVE i = j
  BY <1>3, <1>6
<1> HIDE DEF At
<1>7. Unique(p)
  BY <1>5, <1>6 DEF Sound, Unique
<1>8. \A i \in DOMAIN p : p[i].id # q[n].id
  BY <1>5 DEF Sound, Unique
<1>9. ModelsOf(p) \subseteq ModelsOf(q)
  BY <1>5 DEF ModelsOf
<1>10. m - Size[q[n].model] <= Limit \/ Len(p) = 1
  <2>1. CASE m <= Limit
    BY <1>3, <1>4, <2>1, SizeAssumption DEF Sound
  <2>2. CASE Len(q) = 1
    <3>1. p = <<>>
      BY <1>3, <2>2
    <3>2. m - Size[q[n].model] = 0
      BY <1>4, <3>1, MemoryOfNone DEF Sound
    <3>3. QED
      BY <3>2, SizeAssumption
  <2>3. QED
    BY <2>1, <2>2 DEF Sound
<1>11. Sound(p, m - Size[q[n].model])
  BY <1>3, <1>4, <1>7, <1>10 DEF Sound
<1>12. QED
  BY <1>1, <1>2, <1>8, <1>9, <1>11 DEF p

\* One entry more, for an id that has none, if there is room or nothing else.
LEMMA AppendSound ==
    ASSUME NEW q, q \in Seq(Entry), Unique(q), NEW e \in Entry,
           \A i \in DOMAIN q : q[i].id # e.id,
           NEW m, m = Memory(q) + Size[e.model], m <= Limit \/ Len(q) = 0
    PROVE  /\ Sound(Append(q, e), m)
           /\ ModelsOf(Append(q, e)) = ModelsOf(q) \cup {e.model}
<1> DEFINE p == Append(q, e)
<1>1. /\ Len(p) = Len(q) + 1 /\ Len(q) \in Nat /\ p[Len(p)] = e
      /\ \A i \in 1..Len(q) : p[i] = q[i]
      /\ DOMAIN p = 1..(Len(q) + 1) /\ DOMAIN q = 1..Len(q)
  OBVIOUS
<1>2. p \in Seq(Entry) /\ Memory(p) = m
  BY MemoryOfAppend
<1> HIDE DEF p
<1>3. Unique(p)
  <2> SUFFICES ASSUME NEW i \in DOMAIN p, NEW j \in DOMAIN p, p[i].id = p[j].id PROVE i = j
    BY DEF Unique
  <2>1. CASE i = Len(p) \/ j = Len(p)
    BY <1>1, <2>1
  <2>2. CASE i # Len(p) /\ j # Len(p)
    <3>1. i \in DOMAIN q /\ j \in DOMAIN q
      BY <1>1, <2>2
    <3>2. QED
      BY <1>1, <3>1 DEF Unique
  <2>3. QED
    BY <2>1, <2>2
<1>4. ModelsOf(p) = ModelsOf(q) \cup {e.model}
  <2>1. \A i \in DOMAIN p : i \in DOMAIN q \/ i = Len(p)
    BY <1>1
  <2>2. Len(p) \in DOMAIN p /\ DOMAIN q \subseteq DOMAIN p
    BY <1>1
  <2>3. QED
    BY <1>1, <2>1, <2>2 DEF ModelsOf
<1>5. m <= Limit \/ Len(p) = 1
  BY <1>1
<1>6. QED
  BY <1>2, <1>3, <1>4, <1>5 DEF Sound, p

\* What the cache returns for an id is what it held for it, and it stays sound.
LEMMA GetSound ==
    ASSUME Sound(sessions, accounted), NEW id, NEW g \in Get(id)
    PROVE  /\ Sound(g.q, accounted - g.freed)
           /\ ModelsOf(g.q) \subseteq ModelsOf(sessions)
           /\ g.hit => g.freed = 0 /\ HeldAs(id).model \in ModelsOf(sessions)
           /\ ~g.hit => \A i \in DOMAIN g.q : g.q[i].id # id
<1>1. sessions \in Seq(Entry) /\ accounted = Memory(sessions) /\ accounted \in Nat
  BY MemoryExists DEF Sound
<1>2. CASE id \notin Ids
  <2>1. g.q = sessions /\ g.freed = 0 /\ ~g.hit
    BY <1>2 DEF Get
  <2>2. accounted - g.freed = accounted
    BY <1>1, <2>1
  <2>3. QED
    BY <1>2, <2>1, <2>2 DEF Ids
<1>3. CASE id \in Ids
  <2>1. PICK n \in DOMAIN sessions : sessions[n].id = id
    BY <1>3 DEF Ids
  <2> DEFINE p == RemoveAt(sessions, n)
             e == sessions[n]
  <2>2. /\ HeldAs(id) = e /\ Without(sessions, id) = p
        /\ \A i \in DOMAIN p : p[i].id # id
        /\ ModelsOf(p) \subseteq ModelsOf(sessions)
        /\ Sound(p, accounted - Size[e.model])
    BY <2>1, WithoutIs DEF HeldAs
  <2>3. e \in Entry /\ e.model \in ModelsOf(sessions) /\ Size[e.model] \in Nat
    BY <1>1, EntryIs DEF ModelsOf
  <2>4. Len(p) = Len(sessions) - 1
    BY <1>1, RemoveIs
  <2> HIDE DEF p, e
  <2>5. CASE g = [q |-> Append(p, e), hit |-> TRUE, freed |-> 0]
    <3>1. p \in Seq(Entry) /\ Unique(p) /\ accounted - Size[e.model] = Memory(p) /\ Memory(p) \in Nat
      BY <2>2, MemoryExists DEF Sound
    <3>2. accounted = Memory(p) + Size[e.model]
      BY <1>1, <2>3, <3>1
    <3>3. accounted <= Limit \/ Len(p) = 0
      BY <2>4 DEF Sound
    <3>4. e.id = id
      BY <2>1 DEF e
    <3>5. Sound(Append(p, e), accounted) /\ ModelsOf(Append(p, e)) = ModelsOf(p) \cup {e.model}
      BY <2>2, <2>3, <3>1, <3>2, <3>3, <3>4, AppendSound
    <3>6. accounted - g.freed = accounted
      BY <1>1, <2>5
    <3>7. QED
      BY <2>2, <2>3, <2>5, <3>5, <3>6
  <2>6. CASE g = [q |-> p, hit |-> FALSE, freed |-> Size[e.model]]
    BY <2>2, <2>6
  <2>7. QED
    BY <1>3, <2>2, <2>5, <2>6 DEF Get
<1>4. QED
  BY <1>2, <1>3

\* put stores under an id that has no entry, and the cache stays sound.
LEMMA PutSound ==
    ASSUME NEW q, NEW held, Sound(q, held), NEW id \in Models, NEW model \in Versions,
           \A i \in DOMAIN q : q[i].id # id, Put(q, held, id, model)
    PROVE  /\ Sound(sessions', accounted')
           /\ ModelsOf(sessions') \subseteq ModelsOf(q) \cup {model}
<1> DEFINE Fits(k) == k = Len(q) \/ held - Memory(SubSeq(q, 1, k)) + Size[model] <= Limit
           over == CHOOSE k \in 0..Len(q) : Fits(k) /\ \A l \in 0..(k - 1) : ~Fits(l)
           rest == SubSeq(q, over + 1, Len(q))
           e == [id |-> id, model |-> model]
<1>1. /\ q \in Seq(Entry) /\ Unique(q) /\ held = Memory(q) /\ Len(q) \in Nat /\ Memory(q) \in Nat
  BY MemoryExists DEF Sound
<1>2. /\ sessions' = Append(Without(rest, id), e)
      /\ accounted' = held - Memory(SubSeq(q, 1, over)) + Size[model]
  BY DEF Put
<1>3. e \in Entry /\ e.id = id /\ e.model = model /\ Size[model] \in Nat
  BY SizeAssumption DEF Entry, Versions
<1> HIDE DEF Fits, e
<1>4. over \in 0..Len(q) /\ Fits(over)
  <2> DEFINE K == {k \in 0..Len(q) : Fits(k)}
  <2>1. Len(q) \in K
    BY <1>1 DEF Fits
  <2>2. K \in SUBSET Nat
    BY <1>1
  <2>3. PICK k \in K : \A l \in K : k <= l
    <3> HIDE DEF K
    <3>1. QED
      BY <2>1, <2>2, Least
  <2>4. k \in 0..Len(q) /\ Fits(k) /\ \A l \in 0..(k - 1) : ~Fits(l)
    BY <1>1, <2>3
  <2>5. QED
    BY <2>4
<1> HIDE DEF over
<1>5. /\ SubSeq(q, 1, over) \in Seq(Entry) /\ rest \in Seq(Entry) /\ Len(rest) = Len(q) - over
      /\ \A i \in 1..(Len(q) - over) : rest[i] = q[over + i]
      /\ Memory(rest) = Memory(q) - Memory(SubSeq(q, 1, over))
  BY <1>1, <1>4, MemoryOfRest
<1> HIDE DEF rest
<1>6. ASSUME NEW i \in DOMAIN rest PROVE over + i \in DOMAIN q /\ rest[i] = q[over + i]
  BY <1>1, <1>4, <1>5
<1>7. \A i \in DOMAIN rest : rest[i].id # id
  BY <1>6
<1>8. Without(rest, id) = rest
  BY <1>7 DEF Without
<1>9. Unique(rest)
  <2> SUFFICES ASSUME NEW i \in DOMAIN rest, NEW j \in DOMAIN rest, rest[i].id = rest[j].id
               PROVE  i = j
    BY DEF Unique
  <2>1. over + i = over + j
    BY <1>1, <1>6 DEF Unique
  <2>2. i \in Nat /\ j \in Nat /\ over \in Nat
    BY <1>4, <1>5
  <2>3. QED
    BY <2>1, <2>2
<1>10. accounted' = Memory(rest) + Size[e.model]
  BY <1>1, <1>2, <1>3, <1>5
<1>11. accounted' <= Limit \/ Len(rest) = 0
  BY <1>1, <1>2, <1>4, <1>5 DEF Fits
<1>12. Sound(sessions', accounted') /\ ModelsOf(sessions') = ModelsOf(rest) \cup {model}
  BY <1>2, <1>3, <1>5, <1>7, <1>8, <1>9, <1>10, <1>11, AppendSound
<1>13. ModelsOf(rest) \subseteq ModelsOf(q)
  BY <1>6 DEF ModelsOf
<1>14. QED
  BY <1>12, <1>13

-----------------------------------------------------------------------------
(* The types of ModelServing.                                              *)

RegistryOK ==
    /\ stage \in [Versions -> Stages] /\ path \in [Versions -> 0..MaxVersion]
    /\ object \in [Versions -> Models] /\ trained \subseteq Versions
    /\ cached \in [Versions -> Statuses]

\* Versions are numbered as they are registered. The training worker's numbers, which
\* are not those, run behind them, so that the next one names a path; only what is
\* registered has a row that caches it, and its artifacts lie under a path.
Made == Cardinality(Registered)
NumbersOK ==
    /\ Made \in 0..MaxVersion /\ Registered = 1..Made
    /\ trained \subseteq 1..Made
    /\ \A v \in Versions : cached[v] # "none" => v \in Registered
    /\ \A v \in Registered : path[v] \in Versions

RequestRow == [at : {"idle", "session", "labels", "answer"},
               version : Models, model : Models, label : Models]
ServingOK == Sound(sessions, accounted) /\ labels \in Models /\ request \in RequestRow
HistoryOK == chosen \in Models /\ everChosen \subseteq Models /\ overwritten \in BOOLEAN

TypeInv == RegistryOK /\ NumbersOK /\ ServingOK /\ HistoryOK

LEMMA TypeParts == TypeInv => TypeOK
<1> SUFFICES ASSUME TypeInv PROVE TypeOK
  OBVIOUS
<1>1. sessions \in Seq(Entry) /\ accounted \in Nat
  BY MemoryExists DEF TypeInv, ServingOK, Sound
<1>2. QED
  BY <1>1 DEF TypeInv, TypeOK, RegistryOK, ServingOK, HistoryOK, RequestRow, Entry

LEMMA Sets ==
    /\ MaxVersion \in Nat /\ 1 \in Versions /\ Base \in Models /\ Base \notin Versions
    /\ Versions = 1..MaxVersion /\ Versions \subseteq Models /\ Models = 0..MaxVersion
    /\ Idle \in RequestRow /\ Registered \subseteq Versions
    /\ Productions \subseteq Registered
BY VersionAssumption DEF Versions, Models, Base, Idle, RequestRow, Registered, Productions

\* The maximum of some numbers up to m.
LEMMA MaxIs ==
    ASSUME NEW m \in Nat, NEW S \in SUBSET (0..m), S # {}
    PROVE  Max(S) \in S /\ \A u \in S : u <= Max(S)
<1> DEFINE T == {n \in Nat : \A u \in S : u <= n}
<1>1. m \in T /\ T \in SUBSET Nat
  OBVIOUS
<1>2. PICK n \in T : \A k \in T : n <= k
  <2> HIDE DEF T
  <2>1. QED
    BY <1>1, Least
<1>3. n \in Nat /\ \A u \in S : u <= n
  BY <1>2
<1>4. n \in S
  <2> SUFFICES ASSUME n \notin S PROVE FALSE
    OBVIOUS
  <2>1. PICK u \in S : TRUE
    OBVIOUS
  <2>2. u \in Nat /\ u < n
    BY <1>3
  <2>3. n - 1 \in Nat /\ \A w \in S : w <= n - 1
    BY <1>3, <2>2
  <2>4. n - 1 \in T
    BY <2>3
  <2>5. QED
    BY <1>2, <1>3, <2>4
<1>5. QED
  BY <1>3, <1>4 DEF Max

LEMMA InitType == Init => TypeInv
<1> SUFFICES ASSUME Init PROVE TypeInv
  OBVIOUS
<1>1. RegistryOK
  BY Sets DEF Init, RegistryOK, Stages, Statuses
<1>2. Registered = {} /\ Made = 0
  <2>1. Registered = {}
    BY DEF Init, Registered
  <2>2. QED
    BY <2>1, FS_EmptySet DEF Made
<1>3. NumbersOK
  BY <1>2, Sets DEF Init, NumbersOK
<1>4. Sound(<<>>, 0)
  BY MemoryOfNone, SizeAssumption DEF Sound, Unique
<1>5. ServingOK /\ HistoryOK
  BY <1>4, Sets DEF Init, ServingOK, HistoryOK
<1>6. QED
  BY <1>1, <1>3, <1>5 DEF TypeInv

\* What is told is in production, or promoted by its row, or the base model.
LEMMA ActiveIs ==
    ASSUME TypeInv, NEW v \in Active
    PROVE  /\ v = Base \/ v \in Productions \/ (v \in Versions /\ cached[v] = "promoted")
           /\ v \in Models /\ (v # Base => v \in Registered)
           /\ Artifacts(v) \in Models
<1>1. v = Base \/ v \in Productions \/ (v \in Versions /\ cached[v] = "promoted")
  <2>1. Productions # {} => Max(Productions) \in Productions
    <3>1. Productions \in SUBSET (0..MaxVersion)
      BY Sets
    <3>2. QED
      BY <3>1, Sets, MaxIs
  <2>2. QED
    BY <2>1 DEF Active
<1>2. v # Base => v \in Registered
  BY <1>1, Sets DEF TypeInv, NumbersOK
<1>3. Artifacts(v) \in Models
  BY <1>2, Sets DEF TypeInv, NumbersOK, RegistryOK, Artifacts
<1>4. QED
  BY <1>1, <1>2, <1>3, Sets

\* One row is written, with the status of a stage, or none.
LEMMA CacheRowIs ==
    ASSUME NEW rows \in [Versions -> Statuses], NEW v \in Versions, NEW s,
           NEW r \in CacheRow(rows, v, s)
    PROVE  /\ r \in [Versions -> Statuses]
           /\ \A w \in Versions : r[w] = rows[w] \/ (w = v /\ r[w] = StatusOf(s))
BY DEF CacheRow, StatusOf, Statuses

\* A step of model serving leaves the registry alone but for a row of the table.
Tells ==
    /\ UNCHANGED <<stage, path, object, trained, history>>
    /\ cached' = cached \/ \E v \in Productions : cached' \in CacheRow(cached, v, "Production")

LEMMA ToldIs == ASSUME NEW v, Told(v), UNCHANGED history PROVE Tells
BY DEF Told, Tells

Serves == \/ \E v \in Versions : WarmUp(v)
          \/ Resolve \/ Session \/ Labels \/ FallsBack \/ Answer \/ LabelsExpire \/ Restart

LEMMA ServesTells == Serves => Tells
<1>1. ASSUME NEW v \in Versions, WarmUp(v) PROVE Tells
  BY <1>1, ToldIs DEF WarmUp
<1>2. CASE Resolve \/ Session
  BY <1>2, ToldIs DEF Resolve, Session
<1>3. CASE Labels
  <2>1. UNCHANGED history
    BY <1>3 DEF Labels
  <2>2. CASE UNCHANGED registry
    BY <2>1, <2>2 DEF registry, Tells
  <2>3. CASE \E v \in Active : Told(v)
    BY <2>1, <2>3, ToldIs
  <2>4. QED
    BY <1>3, <2>2, <2>3 DEF Labels
<1>4. CASE FallsBack \/ Answer \/ LabelsExpire \/ Restart
  BY <1>4 DEF FallsBack, Answer, LabelsExpire, Restart, registry, Tells
<1>5. QED
  BY <1>1, <1>2, <1>3, <1>4 DEF Serves

\* The number the worker gives a training: it runs behind the registry's.
LEMMA NextNumberIs ==
    ASSUME TypeInv
    PROVE  NextNumber \in 1..(Made + 1) /\ Made \in Nat
<1> DEFINE S == {0} \cup trained \cup {v \in Versions : cached[v] # "none"}
<1>1. Made \in Nat /\ S \in SUBSET (0..Made) /\ S # {}
  <2>1. /\ Made \in Nat /\ Registered = 1..Made /\ trained \subseteq 1..Made
        /\ \A v \in Versions : cached[v] # "none" => v \in 1..Made
    BY VersionAssumption DEF TypeInv, NumbersOK
  <2>2. 0 \in 0..Made /\ 1..Made \subseteq 0..Made
    BY <2>1
  <2>3. QED
    BY <2>1, <2>2
<1> HIDE DEF S
<1>2. Max(S) \in 0..Made
  BY <1>1, MaxIs
<1>3. NextNumber = Max(S) + 1
  BY DEF NextNumber, S
<1>4. QED
  BY <1>1, <1>2, <1>3

\* A training registers one version more.
LEMMA TrainIs ==
    ASSUME TypeInv, NEW recorded \in BOOLEAN, Train(recorded)
    PROVE  /\ Made + 1 \in Versions /\ Made + 1 \notin Registered
           /\ NextNumber \in Versions /\ NextNumber \in 1..(Made + 1)
           /\ stage' = [stage EXCEPT ![Made + 1] = "None"]
           /\ path' = [path EXCEPT ![Made + 1] = NextNumber]
           /\ object' = [object EXCEPT ![NextNumber] = Made + 1]
           /\ Registered' = 1..(Made + 1) /\ Made' = Made + 1 /\ Made' \in 0..MaxVersion
<1>1. /\ Made \in Nat /\ Registered = 1..Made /\ NextNumber \in 1..(Made + 1)
      /\ stage \in [Versions -> Stages]
  BY NextNumberIs DEF TypeInv, NumbersOK, RegistryOK
<1>2. /\ Made + 1 \in Versions /\ stage' = [stage EXCEPT ![Made + 1] = "None"]
      /\ path' = [path EXCEPT ![Made + 1] = NextNumber]
      /\ object' = [object EXCEPT ![NextNumber] = Made + 1]
  BY DEF Train, Made
<1>3. NextNumber \in Versions /\ Made + 1 \in 0..MaxVersion
  BY <1>1, <1>2, Sets
<1>4. Registered' = Registered \cup {Made + 1}
  BY <1>1, <1>2 DEF Registered
<1>5. Registered' = 1..(Made + 1)
  BY <1>1, <1>4
<1>6. Made' = Made + 1
  <2>1. Cardinality(1..(Made + 1)) = (Made + 1) - 1 + 1
    BY <1>1, FS_Interval
  <2>2. Made' = Cardinality(1..(Made + 1))
    BY <1>5 DEF Made
  <2>3. QED
    BY <1>1, <2>1, <2>2
<1>7. QED
  BY <1>1, <1>2, <1>3, <1>5, <1>6

LEMMA RegistryStep ==
    ASSUME [Next]_vars
    PROVE  \/ \E recorded \in BOOLEAN : Train(recorded)
           \/ \E v \in Versions : Promote(v) \/ PromoteFails(v) \/ Demote(v)
           \/ ListVersions
           \/ Tells
<1>1. CASE UNCHANGED vars
  BY <1>1 DEF vars, registry, history, Tells
<1>2. QED
  BY <1>1, ServesTells DEF Next, Serves

\* Promotions, their failures and demotions keep every version registered.
LEMMA StageIs ==
    ASSUME TypeInv, NEW v \in Versions, Promote(v) \/ PromoteFails(v) \/ Demote(v)
    PROVE  /\ stage' \in [Versions -> Stages] /\ Registered' = Registered /\ v \in Registered
           /\ UNCHANGED <<path, object, trained>>
           /\ Promote(v) => stage'[v] = "Production" /\ Productions' = {v}
           /\ PromoteFails(v) => Productions' = {}
           /\ Demote(v) => Productions' = Productions \ {v}
<1>1. stage \in [Versions -> Stages]
  BY DEF TypeInv, RegistryOK
<1>2. CASE Promote(v)
  <2>1. v \in Registered /\ stage' = AfterPromotion(v) /\ UNCHANGED <<path, object, trained>>
    BY <1>2 DEF Promote
  <2>2. stage' \in [Versions -> Stages]
    BY <1>1, <2>1 DEF AfterPromotion, Stages
  <2>3. \A w \in Versions : /\ stage'[w] = "Production" <=> w = v
                            /\ stage'[w] = "absent" <=> (w # v /\ stage[w] = "absent")
    BY <1>1, <2>1 DEF AfterPromotion, Productions
  <2>4. Registered' = Registered /\ Productions' = {v}
    BY <2>1, <2>3 DEF Registered, Productions
  <2>5. ~PromoteFails(v)
    BY <1>1, <2>3 DEF PromoteFails, Productions
  <2>6. ~Demote(v)
    BY <1>1, <2>1, <2>3 DEF Demote
  <2>7. QED
    BY <2>1, <2>2, <2>3, <2>4, <2>5, <2>6
<1>3. CASE PromoteFails(v)
  <2>1. /\ v \in Registered /\ UNCHANGED <<path, object, trained>>
        /\ stage' = [w \in Versions |-> IF w \in Productions THEN "Archived" ELSE stage[w]]
    BY <1>3 DEF PromoteFails
  <2>2. stage' \in [Versions -> Stages]
    BY <1>1, <2>1 DEF Stages
  <2>3. \A w \in Versions : /\ stage'[w] # "Production"
                            /\ stage'[w] = "absent" <=> stage[w] = "absent"
    BY <1>1, <2>1 DEF Productions
  <2>4. Registered' = Registered /\ Productions' = {}
    BY <2>3 DEF Registered, Productions
  <2>5. ~Promote(v)
    BY <2>1, <2>3 DEF Promote, AfterPromotion
  <2>6. Demote(v) => Productions \ {v} = {}
    BY <1>1, <2>3 DEF Demote, Productions
  <2>7. QED
    BY <2>1, <2>2, <2>4, <2>5, <2>6
<1>4. CASE Demote(v)
  <2>1. /\ v \in Registered /\ UNCHANGED <<path, object, trained>>
        /\ stage' = [stage EXCEPT ![v] = "Staging"]
    BY <1>4 DEF Demote
  <2>2. stage' \in [Versions -> Stages]
    BY <1>1, <2>1 DEF Stages
  <2>3. Registered' = Registered /\ Productions' = Productions \ {v}
    BY <1>1, <2>1 DEF Registered, Productions
  <2>4. ~Promote(v)
    BY <1>1, <2>1 DEF Promote, AfterPromotion
  <2>5. PromoteFails(v) => Productions' = {}
    BY <1>1 DEF PromoteFails, Productions
  <2>6. QED
    BY <2>1, <2>2, <2>3, <2>4, <2>5
<1>5. QED
  BY <1>2, <1>3, <1>4

\* A row is written only for what is registered, and as promoted only for what the
\* registry has in production by then.
LEMMA CachedIs ==
    ASSUME TypeInv, [Next]_vars
    PROVE  /\ cached' \in [Versions -> Statuses]
           /\ \A w \in Versions :
                 \/ cached'[w] = cached[w]
                 \/ w \in Registered /\ (cached'[w] = "promoted" => w \in Productions')
<1>1. cached \in [Versions -> Statuses] /\ stage \in [Versions -> Stages]
  BY DEF TypeInv, RegistryOK
<1>2. CASE \E recorded \in BOOLEAN : Train(recorded)
  BY <1>1, <1>2 DEF Train
<1>3. ASSUME NEW v \in Versions, Promote(v) \/ PromoteFails(v) \/ Demote(v)
      PROVE  /\ cached' \in [Versions -> Statuses]
             /\ \A w \in Versions :
                   \/ cached'[w] = cached[w]
                   \/ w \in Registered /\ (cached'[w] = "promoted" => w \in Productions')
  <2>1. CASE Promote(v)
    <3>1. cached' \in CacheRow(cached, v, "Production") /\ v \in Registered /\ v \in Productions'
      BY <2>1, StageIs DEF Promote
    <3>2. QED
      BY <1>1, <3>1, CacheRowIs
  <2>2. CASE PromoteFails(v)
    BY <1>1, <2>2 DEF PromoteFails
  <2>3. CASE Demote(v)
    <3>1. cached' \in CacheRow(cached, v, "Staging") /\ v \in Registered
      BY <2>3 DEF Demote
    <3>2. StatusOf("Staging") # "promoted"
      BY DEF StatusOf
    <3>3. QED
      BY <1>1, <3>1, <3>2, CacheRowIs
  <2>4. QED
    BY <1>3, <2>1, <2>2, <2>3
<1>4. CASE ListVersions
  <2>1. PICK done \in SUBSET Registered :
           cached' = [v \in Versions |-> IF v \in done THEN StatusOf(stage[v]) ELSE cached[v]]
    BY <1>4 DEF ListVersions
  <2>2. /\ \A s : StatusOf(s) \in Statuses
        /\ \A w \in Versions : StatusOf(stage[w]) = "promoted" => stage[w] = "Production"
    BY DEF StatusOf, Statuses
  <2>3. Productions' = Productions
    BY <1>4 DEF ListVersions, Productions
  <2>4. QED
    BY <1>1, <2>1, <2>2, <2>3 DEF Productions
<1>5. CASE Tells
  <2>1. Productions' = Productions /\ Productions \subseteq Registered /\ Productions \subseteq Versions
    BY <1>5, Sets DEF Tells, Productions
  <2>2. CASE cached' = cached
    BY <1>1, <2>2
  <2>3. ASSUME NEW v \in Productions, cached' \in CacheRow(cached, v, "Production")
        PROVE  /\ cached' \in [Versions -> Statuses]
               /\ \A w \in Versions : cached'[w] = cached[w] \/ w = v
    BY <1>1, <2>1, <2>3, CacheRowIs
  <2>4. QED
    BY <1>5, <2>1, <2>2, <2>3 DEF Tells
<1>6. QED
  BY <1>2, <1>3, <1>4, <1>5, RegistryStep

LEMMA StepRegistry == TypeInv /\ [Next]_vars => RegistryOK' /\ NumbersOK'
<1> SUFFICES ASSUME TypeInv, [Next]_vars PROVE RegistryOK' /\ NumbersOK'
  OBVIOUS
<1>1. /\ stage \in [Versions -> Stages] /\ path \in [Versions -> 0..MaxVersion]
      /\ object \in [Versions -> Models] /\ trained \subseteq Versions
      /\ Made \in 0..MaxVersion /\ Registered = 1..Made
      /\ trained \subseteq 1..Made /\ \A v \in Versions : cached[v] # "none" => v \in Registered
      /\ \A v \in Registered : path[v] \in Versions
  BY DEF TypeInv, RegistryOK, NumbersOK
<1>2. /\ cached' \in [Versions -> Statuses]
      /\ \A v \in Versions : cached'[v] # "none" => v \in Registered
  BY <1>1, CachedIs
<1>3. ASSUME NEW recorded \in BOOLEAN, Train(recorded) PROVE RegistryOK' /\ NumbersOK'
  <2>1. /\ Made + 1 \in Versions /\ NextNumber \in Versions /\ NextNumber \in 1..(Made + 1)
        /\ stage' = [stage EXCEPT ![Made + 1] = "None"]
        /\ path' = [path EXCEPT ![Made + 1] = NextNumber]
        /\ object' = [object EXCEPT ![NextNumber] = Made + 1]
        /\ Registered' = 1..(Made + 1) /\ Made' = Made + 1 /\ Made' \in 0..MaxVersion
    BY <1>3, TrainIs
  <2>2. trained' \subseteq trained \cup {NextNumber}
    BY <1>3 DEF Train
  <2>3. stage' \in [Versions -> Stages]
    BY <1>1, <2>1 DEF Stages
  <2>4. path' \in [Versions -> 0..MaxVersion] /\ object' \in [Versions -> Models]
    BY <1>1, <2>1, Sets
  <2>5. trained' \subseteq Versions /\ trained' \subseteq 1..Made'
    BY <1>1, <2>1, <2>2
  <2>6. Registered \subseteq Registered'
    BY <1>1, <2>1
  <2>7. \A v \in Registered' : path'[v] \in Versions
    <3>1. \A v \in Registered' : v = Made + 1 \/ v \in Registered
      BY <1>1, <2>1
    <3>2. QED
      BY <1>1, <2>1, <3>1, Sets
  <2>8. QED
    BY <1>2, <2>1, <2>3, <2>4, <2>5, <2>6, <2>7 DEF RegistryOK, NumbersOK
<1>4. ASSUME stage' \in [Versions -> Stages], Registered' = Registered,
             UNCHANGED <<path, object, trained>>
      PROVE  RegistryOK' /\ NumbersOK'
  <2>1. Made' = Made
    BY <1>4 DEF Made
  <2>2. QED
    BY <1>1, <1>2, <1>4, <2>1 DEF RegistryOK, NumbersOK
<1>5. ASSUME NEW v \in Versions, Promote(v) \/ PromoteFails(v) \/ Demote(v)
      PROVE  RegistryOK' /\ NumbersOK'
  BY <1>4, <1>5, StageIs
<1>6. CASE ListVersions \/ Tells
  <2>1. UNCHANGED <<stage, path, object, trained>>
    BY <1>6 DEF ListVersions, Tells
  <2>2. Registered' = Registered
    BY <2>1 DEF Registered
  <2>3. QED
    BY <1>1, <1>4, <2>1, <2>2
<1>7. QED
  BY <1>3, <1>5, <1>6, RegistryStep

\* The models a step may bring into a request or into the cache.
Sources == ModelsOf(sessions) \cup ({Artifacts(v) : v \in Active} \ {Base})

LEMMA SourcesAre == TypeInv => Sources \subseteq Versions
<1> SUFFICES ASSUME TypeInv PROVE Sources \subseteq Versions
  OBVIOUS
<1>1. ModelsOf(sessions) \subseteq Versions
  BY EntryIs DEF TypeInv, ServingOK, Sound, ModelsOf
<1>2. \A v \in Active : Artifacts(v) \in Models
  BY ActiveIs
<1>3. QED
  BY <1>1, <1>2 DEF Sources, Models

\* What a step does to the caches and to the request.
Served ==
    /\ Sound(sessions', accounted') /\ ModelsOf(sessions') \subseteq Sources
    /\ labels' \in {Base, labels} \cup Active
    /\ request' \in RequestRow
    /\ request'.model \in {Base, request.model} \cup Sources
    /\ request'.label \in {Base, request.label, labels'}

\* A model is loaded: a hit, or one that is stored under its id.
LEMMA LoadIs ==
    ASSUME TypeInv, NEW id \in Models, NEW a \in Active, Artifacts(a) # Base, NEW g \in Get(id),
           ~g.hit, Put(g.q, accounted - g.freed, id, Artifacts(a))
    PROVE  Sound(sessions', accounted') /\ ModelsOf(sessions') \subseteq Sources
<1>1. /\ Sound(g.q, accounted - g.freed) /\ ModelsOf(g.q) \subseteq ModelsOf(sessions)
      /\ \A i \in DOMAIN g.q : g.q[i].id # id
  BY GetSound DEF TypeInv, ServingOK
<1>2. Artifacts(a) \in Versions /\ Artifacts(a) \in Sources
  BY ActiveIs DEF Models, Sources
<1>3. Sound(sessions', accounted') /\ ModelsOf(sessions') \subseteq ModelsOf(g.q) \cup {Artifacts(a)}
  BY <1>1, <1>2, PutSound
<1>4. QED
  BY <1>1, <1>2, <1>3 DEF Sources

\* And what the cache returns or drops.
LEMMA GetIs ==
    ASSUME TypeInv, NEW id, NEW g \in Get(id), sessions' = g.q, accounted' = accounted - g.freed
    PROVE  Sound(sessions', accounted') /\ ModelsOf(sessions') \subseteq Sources
<1>1. Sound(g.q, accounted - g.freed) /\ ModelsOf(g.q) \subseteq ModelsOf(sessions)
  BY GetSound DEF TypeInv, ServingOK
<1>2. QED
  BY <1>1 DEF Sources

LEMMA StepServed == TypeInv /\ [Next]_vars => Served
<1> SUFFICES ASSUME TypeInv, [Next]_vars PROVE Served
  OBVIOUS
<1>1. /\ Sound(sessions, accounted) /\ accounted \in Nat /\ labels \in Models
      /\ request \in RequestRow /\ Base \in Models
  BY MemoryExists, Sets DEF TypeInv, ServingOK, Sound
<1>2. ASSUME UNCHANGED <<sessions, accounted>>
      PROVE  Sound(sessions', accounted') /\ ModelsOf(sessions') \subseteq Sources
  BY <1>1, <1>2 DEF Sources
<1>3. ASSUME UNCHANGED serving PROVE Served
  BY <1>1, <1>2, <1>3 DEF serving, Served
<1>4. ASSUME NEW id, NEW g \in Get(id), g.hit, sessions' = g.q, accounted' = accounted
      PROVE  /\ Sound(sessions', accounted') /\ ModelsOf(sessions') \subseteq Sources
             /\ HeldAs(id).model \in Sources
  <2>1. g.freed = 0 /\ HeldAs(id).model \in ModelsOf(sessions)
    BY <1>1, <1>4, GetSound
  <2>2. accounted' = accounted - g.freed
    BY <1>1, <1>4, <2>1
  <2>3. QED
    BY <1>4, <2>1, <2>2, GetIs DEF Sources
<1>5. ASSUME NEW v \in Versions, WarmUp(v) PROVE Served
  <2>1. PICK a \in Active : Artifacts(a) # Base /\ Load(v, Artifacts(a))
    BY <1>5 DEF WarmUp
  <2>2. PICK g \in Get(v) : IF g.hit THEN sessions' = g.q /\ accounted' = accounted
                            ELSE Put(g.q, accounted - g.freed, v, Artifacts(a))
    BY <2>1 DEF Load
  <2>3. Sound(sessions', accounted') /\ ModelsOf(sessions') \subseteq Sources
    BY <1>4, <2>1, <2>2, LoadIs, Sets
  <2>4. UNCHANGED <<labels, request>>
    BY <1>5 DEF WarmUp
  <2>5. QED
    BY <1>1, <2>3, <2>4 DEF Served
<1>6. CASE Resolve
  <2>1. PICK v \in Active :
            request' = [Idle EXCEPT !.at = IF v = Base THEN "answer" ELSE "session", !.version = v]
    BY <1>6 DEF Resolve
  <2>2. v \in Models
    BY ActiveIs
  <2>3. request' \in RequestRow /\ request'.model = Base /\ request'.label = Base
    BY <1>1, <2>1, <2>2 DEF Idle, RequestRow
  <2>4. UNCHANGED <<sessions, accounted, labels>>
    BY <1>6 DEF Resolve
  <2>5. QED
    BY <1>2, <2>3, <2>4 DEF Served
<1>7. CASE Session
  <2>1. PICK v \in Active : \E g \in Get(v) :
            IF g.hit
            THEN /\ sessions' = g.q /\ accounted' = accounted
                 /\ request' = [request EXCEPT !.at = "labels", !.model = HeldAs(v).model]
            ELSE IF Artifacts(v) = Base
            THEN /\ sessions' = g.q /\ accounted' = accounted - g.freed
                 /\ request' = [request EXCEPT !.at = "answer"]
            ELSE /\ Put(g.q, accounted - g.freed, v, Artifacts(v))
                 /\ request' = [request EXCEPT !.at = "labels", !.model = Artifacts(v)]
    BY <1>7 DEF Session
  <2>2. PICK g \in Get(v) :
            IF g.hit
            THEN /\ sessions' = g.q /\ accounted' = accounted
                 /\ request' = [request EXCEPT !.at = "labels", !.model = HeldAs(v).model]
            ELSE IF Artifacts(v) = Base
            THEN /\ sessions' = g.q /\ accounted' = accounted - g.freed
                 /\ request' = [request EXCEPT !.at = "answer"]
            ELSE /\ Put(g.q, accounted - g.freed, v, Artifacts(v))
                 /\ request' = [request EXCEPT !.at = "labels", !.model = Artifacts(v)]
    BY <2>1
  <2>3. v \in Models /\ labels' = labels
    BY <1>7, ActiveIs DEF Session
  <2>4. Sources \subseteq Models
    BY SourcesAre, Sets
  <2>5. ASSUME NEW m \in Sources, request' = [request EXCEPT !.at = "labels", !.model = m]
        PROVE  /\ request' \in RequestRow /\ request'.model \in Sources
               /\ request'.label = request.label
    BY <1>1, <2>4, <2>5 DEF RequestRow
  <2>6. CASE g.hit
    <3>1. /\ Sound(sessions', accounted') /\ ModelsOf(sessions') \subseteq Sources
          /\ HeldAs(v).model \in Sources
      BY <1>4, <2>2, <2>6
    <3>2. QED
      BY <2>2, <2>3, <2>5, <2>6, <3>1 DEF Served
  <2>7. CASE ~g.hit /\ Artifacts(v) = Base
    <3>1. Sound(sessions', accounted') /\ ModelsOf(sessions') \subseteq Sources
      BY <2>2, <2>7, GetIs
    <3>2. /\ request' \in RequestRow /\ request'.model = request.model
          /\ request'.label = request.label
      BY <1>1, <2>2, <2>7 DEF RequestRow
    <3>3. QED
      BY <2>3, <3>1, <3>2 DEF Served
  <2>8. CASE ~g.hit /\ Artifacts(v) # Base
    <3>1. Sound(sessions', accounted') /\ ModelsOf(sessions') \subseteq Sources
      BY <2>2, <2>3, <2>8, LoadIs
    <3>2. Artifacts(v) \in Sources
      BY <2>8 DEF Sources
    <3>3. QED
      BY <2>2, <2>3, <2>5, <2>8, <3>1, <3>2 DEF Served
  <2>9. QED
    BY <2>6, <2>7, <2>8
<1>8. CASE Labels
  <2>1. /\ labels' \in {labels} \cup Active /\ UNCHANGED <<sessions, accounted>>
        /\ request' = [request EXCEPT !.at = "answer", !.label = labels']
    BY <1>8 DEF Labels
  <2>2. labels' \in Models
    BY <1>1, <2>1, ActiveIs
  <2>3. request' \in RequestRow /\ request'.model = request.model /\ request'.label = labels'
    BY <1>1, <2>1, <2>2 DEF RequestRow
  <2>4. QED
    BY <1>2, <2>1, <2>3 DEF Served
<1>9. CASE FallsBack \/ Answer
  <2>1. /\ UNCHANGED <<sessions, accounted, labels>>
        /\ request' = Idle \/ request' = [Idle EXCEPT !.at = "answer"]
    BY <1>9 DEF FallsBack, Answer
  <2>2. request' \in RequestRow /\ request'.model = Base /\ request'.label = Base
    BY <1>1, <2>1 DEF RequestRow, Idle
  <2>3. QED
    BY <1>2, <2>1, <2>2 DEF Served
<1>10. CASE LabelsExpire
  BY <1>1, <1>2, <1>10 DEF LabelsExpire, Served
<1>11. CASE Restart
  <2>1. sessions' = <<>> /\ accounted' = 0 /\ labels' = Base /\ request' = Idle
    BY <1>11 DEF Restart
  <2>2. Sound(<<>>, 0) /\ ModelsOf(<<>>) = {}
    BY MemoryOfNone, SizeAssumption DEF Sound, Unique, ModelsOf
  <2>3. request' \in RequestRow /\ request'.model = Base /\ request'.label = Base
    BY <1>1, <2>1 DEF RequestRow, Idle
  <2>4. QED
    BY <2>1, <2>2, <2>3 DEF Served
<1>12. CASE \/ \E recorded \in BOOLEAN : Train(recorded)
            \/ \E v \in Versions : Promote(v) \/ PromoteFails(v) \/ Demote(v)
            \/ ListVersions \/ UNCHANGED vars
  BY <1>3, <1>12 DEF Train, Promote, PromoteFails, Demote, ListVersions, vars
<1>13. QED
  BY <1>5, <1>6, <1>7, <1>8, <1>9, <1>10, <1>11, <1>12 DEF Next

LEMMA StepTypeInv == TypeInv /\ [Next]_vars => TypeInv'
<1> SUFFICES ASSUME TypeInv, [Next]_vars PROVE TypeInv'
  OBVIOUS
<1>1. RegistryOK' /\ NumbersOK'
  BY StepRegistry
<1>2. ServingOK'
  <2>1. Served
    BY StepServed
  <2>2. labels' \in Models
    BY <2>1, ActiveIs, Sets DEF Served, TypeInv, ServingOK
  <2>3. QED
    BY <2>1, <2>2 DEF Served, ServingOK
<1>3. HistoryOK'
  <2>1. chosen \in Models /\ everChosen \subseteq Models /\ overwritten \in BOOLEAN /\ Base \in Models
    BY Sets DEF TypeInv, HistoryOK
  <2>2. CASE \E recorded \in BOOLEAN : Train(recorded)
    BY <2>1, <2>2 DEF Train, HistoryOK
  <2>3. ASSUME NEW v \in Versions, Promote(v) \/ PromoteFails(v) \/ Demote(v) PROVE HistoryOK'
    BY <2>1, <2>3, Sets DEF Promote, PromoteFails, Demote, HistoryOK
  <2>4. CASE ListVersions \/ Tells
    BY <2>1, <2>4 DEF ListVersions, Tells, history, HistoryOK
  <2>5. QED
    BY <2>2, <2>3, <2>4, RegistryStep
<1>4. QED
  BY <1>1, <1>2, <1>3 DEF TypeInv

\* Type correctness: in particular what is loaded is a model, and the training worker's
\* next number names a path, although it runs behind the registry's.
THEOREM TypeCorrect == Spec => []TypeOK
BY InitType, StepTypeInv, TypeParts, PTL DEF Spec

\* The session cache's account is what it holds, and within the limit but for a single
\* model: through hits, expiries, evictions and restarts (ModelCache).
THEOREM AccountHolds == Spec => []AccountedIsHeld
<1>1. TypeInv => AccountedIsHeld
  BY DEF TypeInv, ServingOK, Sound, AccountedIsHeld
<1>2. QED
  BY <1>1, InitType, StepTypeInv, PTL DEF Spec

-----------------------------------------------------------------------------
(* What the registry has in production, and what answers.                  *)

LEMMA InitServesLast == Init => ServesLastPromoted
BY DEF Init, ServesLastPromoted, Productions

LEMMA StepServesLast == TypeInv /\ ServesLastPromoted /\ [Next]_vars => ServesLastPromoted'
<1> SUFFICES ASSUME TypeInv, ServesLastPromoted, [Next]_vars PROVE Productions' = {chosen'} \ {Base}
  BY DEF ServesLastPromoted
<1>1. Productions = {chosen} \ {Base} /\ stage \in [Versions -> Stages]
  BY DEF ServesLastPromoted, TypeInv, RegistryOK
<1>2. ASSUME NEW recorded \in BOOLEAN, Train(recorded) PROVE Productions' = {chosen'} \ {Base}
  <2>1. /\ Made + 1 \notin Registered /\ stage' = [stage EXCEPT ![Made + 1] = "None"]
        /\ chosen' = chosen
    BY <1>2, TrainIs DEF Train
  <2>2. Made + 1 \notin Productions
    BY <2>1, Sets
  <2>3. Productions' = Productions
    BY <1>1, <2>1, <2>2 DEF Productions
  <2>4. QED
    BY <1>1, <2>1, <2>3
<1>3. ASSUME NEW v \in Versions, Promote(v) \/ PromoteFails(v) \/ Demote(v)
      PROVE  Productions' = {chosen'} \ {Base}
  <2>1. v # Base
    BY Sets
  <2>2. CASE Promote(v)
    BY <2>1, <2>2, StageIs DEF Promote
  <2>3. CASE PromoteFails(v)
    BY <2>3, StageIs DEF PromoteFails
  <2>4. CASE Demote(v)
    <3>1. Productions' = Productions \ {v} /\ chosen' = IF chosen = v THEN Base ELSE chosen
      BY <2>4, StageIs DEF Demote
    <3>2. QED
      BY <1>1, <3>1
  <2>5. QED
    BY <1>3, <2>2, <2>3, <2>4
<1>4. CASE ListVersions \/ Tells
  <2>1. stage' = stage /\ chosen' = chosen
    BY <1>4 DEF ListVersions, Tells, history
  <2>2. QED
    BY <1>1, <2>1 DEF Productions
<1>5. QED
  BY <1>2, <1>3, <1>4, RegistryStep

\* What the registry has in production is what was promoted last and not demoted since,
\* and nothing else: for any number of versions, whatever failed half-way and whatever
\* the rows a promotion or a demotion went by said (promote_model, demote_model).
THEOREM LastPromoted == Spec => []ServesLastPromoted
BY InitType, StepTypeInv, InitServesLast, StepServesLast, PTL DEF Spec

\* Whoever could be told as active was promoted: what is in production, the rows that
\* say promoted, the labels cached. As long as no training wrote over another's
\* artifacts, what lies under a version's path is its own model.
GateInv ==
    /\ {Base, chosen, labels} \subseteq everChosen
    /\ \A v \in Versions : cached[v] = "promoted" => v \in everChosen
    /\ ~overwritten => /\ \A v \in Registered : object[path[v]] = v
                       /\ {request.model, request.label} \subseteq everChosen
                       /\ ModelsOf(sessions) \subseteq everChosen

LEMMA InitGate == Init => GateInv
<1> SUFFICES ASSUME Init PROVE GateInv
  OBVIOUS
<1>1. Registered = {} /\ ModelsOf(sessions) = {}
  BY DEF Init, Registered, ModelsOf
<1>2. QED
  BY <1>1 DEF Init, GateInv, Idle

\* What can be told, and what can be loaded of it.
LEMMA ToldWasChosen ==
    ASSUME TypeInv, ServesLastPromoted, GateInv
    PROVE  /\ Active \subseteq everChosen
           /\ ~overwritten => Sources \subseteq everChosen
<1>1. Productions \subseteq everChosen /\ Base \in everChosen
  BY DEF ServesLastPromoted, GateInv
<1>2. \A v \in Active : v \in everChosen
  BY <1>1, ActiveIs DEF GateInv
<1>3. ASSUME ~overwritten, NEW v \in Active PROVE Artifacts(v) \in everChosen
  <2>1. CASE v = Base
    BY <1>1, <2>1 DEF Artifacts
  <2>2. CASE v # Base
    <3>1. object[path[v]] = v
      BY <1>3, <2>2, ActiveIs DEF GateInv
    <3>2. QED
      BY <1>2, <2>2, <3>1 DEF Artifacts
  <2>3. QED
    BY <2>1, <2>2
<1>4. QED
  BY <1>2, <1>3 DEF GateInv, Sources

\* A training that finds nothing under its path leaves each version its own model.
LEMMA StepObjects ==
    ASSUME TypeInv, GateInv, [Next]_vars, ~overwritten'
    PROVE  ~overwritten /\ \A v \in Registered' : object'[path'[v]] = v
<1>1. /\ object \in [Versions -> Models] /\ path \in [Versions -> 0..MaxVersion]
      /\ Registered = 1..Made /\ Made \in Nat
      /\ \A v \in Registered : path[v] \in Versions
  BY NextNumberIs DEF TypeInv, RegistryOK, NumbersOK
<1>2. ASSUME NEW recorded \in BOOLEAN, Train(recorded)
      PROVE  ~overwritten /\ \A v \in Registered' : object'[path'[v]] = v
  <2>1. /\ Made + 1 \in Versions /\ NextNumber \in Versions
        /\ path' = [path EXCEPT ![Made + 1] = NextNumber]
        /\ object' = [object EXCEPT ![NextNumber] = Made + 1]
        /\ Registered' = 1..(Made + 1)
    BY <1>2, TrainIs
  <2>2. ~overwritten /\ object[NextNumber] = Base
    BY <1>2 DEF Train
  <2>3. path'[Made + 1] = NextNumber /\ object'[NextNumber] = Made + 1
    BY <1>1, <2>1
  <2>4. ASSUME NEW v \in Registered' PROVE object'[path'[v]] = v
    <3>1. CASE v = Made + 1
      BY <2>3, <3>1
    <3>2. CASE v # Made + 1
      <4>1. v \in Registered
        BY <1>1, <2>1, <3>2
      <4>2. object[path[v]] = v /\ v # Base
        BY <2>2, <4>1, Sets DEF GateInv
      <4>3. path[v] # NextNumber
        BY <2>2, <4>2
      <4>4. path'[v] = path[v]
        BY <1>1, <2>1, <3>2, <4>1, Sets
      <4>5. QED
        BY <1>1, <2>1, <4>1, <4>2, <4>3, <4>4
    <3>3. QED
      BY <3>1, <3>2
  <2>5. QED
    BY <2>2, <2>4
<1>3. ASSUME NEW v \in Versions, Promote(v) \/ PromoteFails(v) \/ Demote(v)
      PROVE  Registered' = Registered /\ UNCHANGED <<path, object, overwritten>>
  BY <1>3, StageIs DEF Promote, PromoteFails, Demote
<1>4. CASE ListVersions \/ Tells
  BY <1>4 DEF ListVersions, Tells, history, Registered, GateInv
<1>5. QED
  BY <1>2, <1>3, <1>4, RegistryStep DEF GateInv

LEMMA StepGate ==
    TypeInv /\ ServesLastPromoted /\ GateInv /\ [Next]_vars => GateInv'
<1> SUFFICES ASSUME TypeInv, ServesLastPromoted, GateInv, [Next]_vars PROVE GateInv'
  OBVIOUS
<1>1. everChosen \subseteq everChosen' /\ chosen' \in everChosen'
  <2>1. CASE \E recorded \in BOOLEAN : Train(recorded)
    BY <2>1 DEF Train, GateInv
  <2>2. ASSUME NEW v \in Versions, Promote(v) \/ PromoteFails(v) \/ Demote(v)
        PROVE  everChosen \subseteq everChosen' /\ chosen' \in everChosen'
    BY <2>2 DEF Promote, PromoteFails, Demote, GateInv
  <2>3. CASE ListVersions \/ Tells
    BY <2>3 DEF ListVersions, Tells, history, GateInv
  <2>4. QED
    BY <2>1, <2>2, <2>3, RegistryStep
<1>2. Base \in everChosen /\ labels \in everChosen
  BY DEF GateInv
<1>3. Served /\ Active \subseteq everChosen
  BY StepServed, ToldWasChosen
<1>4. labels' \in everChosen
  BY <1>2, <1>3 DEF Served
<1>5. ASSUME NEW v \in Versions, cached'[v] = "promoted" PROVE v \in everChosen'
  <2>1. CASE cached'[v] = cached[v]
    BY <1>1, <1>5, <2>1 DEF GateInv
  <2>2. CASE cached'[v] # cached[v]
    <3>1. v \in Productions'
      BY <1>5, <2>2, CachedIs
    <3>2. Productions' = {chosen'} \ {Base}
      BY StepServesLast DEF ServesLastPromoted
    <3>3. QED
      BY <1>1, <3>1, <3>2
  <2>3. QED
    BY <2>1, <2>2
<1>6. ASSUME ~overwritten'
      PROVE  /\ \A v \in Registered' : object'[path'[v]] = v
             /\ {request'.model, request'.label} \subseteq everChosen
             /\ ModelsOf(sessions') \subseteq everChosen
  <2>1. ~overwritten /\ \A v \in Registered' : object'[path'[v]] = v
    BY <1>6, StepObjects
  <2>2. Sources \subseteq everChosen /\ {request.model, request.label} \subseteq everChosen
    BY <2>1, ToldWasChosen DEF GateInv
  <2>3. QED
    BY <1>2, <1>3, <1>4, <2>1, <2>2 DEF Served
<1>7. ModelsOf(sessions)' = ModelsOf(sessions')
  BY DEF ModelsOf
<1>8. QED
  BY <1>1, <1>2, <1>4, <1>5, <1>6, <1>7 DEF GateInv

\* No model answers a request, or labels its answer, that nobody promoted: through warm-ups
\* of other versions, rows that outlive a demotion and answers without the registry, unless
\* a training wrote its artifacts where another's lay (get_active_model,
\* _infer_with_onnx, _resolve_label_list).
THEOREM UnpromotedNeverServes == Spec => []NothingUnpromotedServes
<1>1. GateInv => NothingUnpromotedServes
  BY DEF GateInv, NothingUnpromotedServes
<1>2. QED
  BY <1>1, InitType, StepTypeInv, InitServesLast, StepServesLast, InitGate, StepGate, PTL DEF Spec
=============================================================================
