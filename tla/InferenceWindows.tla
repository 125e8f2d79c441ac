--------------------------- MODULE InferenceWindows ---------------------------
(***************************************************************************)
(* The windows model serving cuts a long input into (model_serving/        *)
(* services/inference_service), one iteration of a loop at a time: windows *)
(* of whole words that fit the model's budget of pieces and overlap, and,  *)
(* of the windows that label a word, the one it is furthest inside of.     *)
(***************************************************************************)
EXTENDS Integers

CONSTANTS
    N,           \* words of the input, numbered from 0
    MaxPieces,   \* bounds the pieces of a word; a word may have none
    WindowSize,  \* settings.inference_window_size
    Positions,   \* MODEL_MAX_POSITIONS - NUM_SPECIAL_TOKENS
    WindowOverlap

ASSUME NAssumption == N \in Nat
ASSUME PiecesAssumption == MaxPieces \in Nat
ASSUME GeometryAssumption ==
    WindowSize \in Int /\ WindowOverlap \in Int /\ Positions \in Nat \ {0}

VARIABLES
    counts,      \* pieces of each word
    start, end,  \* the window at hand
    used,        \* its pieces
    back,        \* new_start, on the way back over the overlap
    recovered,   \* and the pieces met on that way
    windows,     \* the windows so far, each from its first word to before its second
    unread,      \* those that the model has not been run on
    best,        \* of each word, the window its label is from
    at

cutVars == <<counts, start, end, used, back, recovered, windows, unread, best, at>>

-----------------------------------------------------------------------------
Words == 0..(N - 1)
Lesser(x, y) == IF x < y THEN x ELSE y
Greater(x, y) == IF x > y THEN x ELSE y

\* _window_geometry: at least one piece, at most what the model has positions for,
\* and an overlap that leaves progress.
Budget == Greater(Lesser(WindowSize, Positions), 1)
Overlap == Greater(0, Lesser(WindowOverlap, Budget - 1))

NoWindow == <<0, 0>>
\* How far inside of a window a word is.
Distance(w, word) == Lesser(word - w[1], (w[2] - 1) - word)

CutInit ==
    /\ counts \in [Words -> 0..MaxPieces]
    /\ start = 0 /\ end = 0 /\ used = 0 /\ back = 0 /\ recovered = 0
    /\ windows = {} /\ unread = {}
    /\ best = [word \in Words |-> NoWindow]
    /\ at = IF N = 0 THEN "done" ELSE "grow"

-----------------------------------------------------------------------------
\* A variant of Full: the piece too many is noticed once it is in.
FullLate == end > start /\ used > Budget
Full == end > start /\ used + counts[end] > Budget

Grow ==
    /\ at = "grow" /\ end < N /\ ~Full
    /\ used' = used + counts[end]
    /\ end' = end + 1
    /\ UNCHANGED <<counts, start, back, recovered, windows, unread, best, at>>

Close ==
    /\ at = "grow"
    /\ IF end < N THEN Full ELSE TRUE
    /\ windows' = windows \cup {<<start, end>>}
    /\ at' = IF end < N THEN "back" ELSE "label"
    /\ unread' = IF end < N THEN unread ELSE windows'
    /\ back' = end /\ recovered' = 0
    /\ UNCHANGED <<counts, start, end, used, best>>

\* A variant of Recovering: without the floor that guarantees progress.
RecoveringAll == back > 0 /\ recovered < Overlap
Recovering == back > start + 1 /\ recovered < Overlap

Back ==
    /\ at = "back" /\ Recovering
    /\ back' = back - 1
    /\ recovered' = recovered + counts[back - 1]
    /\ UNCHANGED <<counts, start, end, used, windows, unread, best, at>>

\* A variant of NewStart: off by one.
NewStartPast == back + 1
NewStart == back

NextWindow ==
    /\ at = "back" /\ ~Recovering
    /\ start' = NewStart /\ end' = NewStart /\ used' = 0 /\ at' = "grow"
    /\ UNCHANGED <<counts, back, recovered, windows, unread, best>>

\* A variant of Better: the first window to label a word keeps it.
BetterOnce(w, word) == best[word] = NoWindow
Better(w, word) == best[word] = NoWindow \/ Distance(w, word) > Distance(best[word], word)

\* Every word the tokenizer can represent gets a label from each of its windows. It
\* keeps the one it is further inside of; of equals, the one of more confidence.
Label(w) ==
    /\ at = "label" /\ w \in unread
    /\ \A v \in unread : w[1] <= v[1]
    /\ unread' = unread \ {w}
    /\ LET seen == {word \in Words : w[1] <= word /\ word < w[2] /\ counts[word] > 0}
           Equal(word) == best[word] # NoWindow /\ Distance(w, word) = Distance(best[word], word)
       IN \E surer \in SUBSET {word \in seen : Equal(word)} :
            best' = [word \in Words |-> IF word \in seen /\ (Better(w, word) \/ word \in surer)
                                        THEN w ELSE best[word]]
    /\ UNCHANGED <<counts, start, end, used, back, recovered, windows, at>>

Finish ==
    /\ at = "label" /\ unread = {}
    /\ at' = "done"
    /\ UNCHANGED <<counts, start, end, used, back, recovered, windows, unread, best>>

Done == at = "done" /\ UNCHANGED cutVars

CutNext == Grow \/ Close \/ Back \/ NextWindow \/ (\E w \in unread : Label(w)) \/ Finish \/ Done

CutSpec == CutInit /\ [][CutNext]_cutVars
CutFairSpec == CutSpec /\ WF_cutVars(CutNext)

-----------------------------------------------------------------------------
Window == (0..N) \X (0..N)

CutTypeOK ==
    /\ counts \in [Words -> 0..MaxPieces]
    /\ start \in 0..N /\ end \in start..N /\ back \in 0..N
    /\ used \in Nat /\ recovered \in Nat
    /\ windows \subseteq Window /\ unread \subseteq windows
    /\ best \in [Words -> Window]
    /\ at \in {"grow", "back", "label", "done"}

InSome(word, ws) == \E w \in ws : w[1] <= word /\ word < w[2]

\* No word is lost between two windows: what lies before the window at hand is in
\* one, and once the windows are cut every word is.
EveryWordInAWindow ==
    /\ \A word \in Words : word < start => InSome(word, windows)
    /\ at \in {"label", "done"} => \A word \in Words : InSome(word, windows)

\* A window fits the model, whatever size is set for it: its pieces are within the
\* budget and the model's positions, unless it is one word that is longer.
PiecesOf(w) ==
    LET sum[i \in w[1]..w[2]] == IF i = w[1] THEN 0 ELSE sum[i - 1] + counts[i - 1] IN sum[w[2]]
WindowsFit ==
    \A w \in windows : \/ w[2] = w[1] + 1
                       \/ w[1] < w[2] /\ PiecesOf(w) <= Budget /\ Budget <= Positions

\* Once the model was run, exactly the words it can represent are labelled, each from
\* the window that shows most of its surroundings, and not the first or the last to.
LabelsAreBest ==
    at = "done" => \A word \in Words :
        IF counts[word] = 0 THEN best[word] = NoWindow
        ELSE /\ best[word] \in windows
             /\ \A w \in windows : w[1] <= word /\ word < w[2]
                    => Distance(w, word) <= Distance(best[word], word)

\* The cutting ends, whatever the words and the settings.
Ends == <>(at = "done")
===============================================================================
