---------------------------- MODULE EntityPipeline ----------------------------
(***************************************************************************)
(* What the extraction worker makes of the labels of one document's words: *)
(* entities put together label by label (services/entity_normalizer), the  *)
(* invalid ones dropped, mentions of one fact collapsed, and, if the run   *)
(* asks for it, a language model's decisions about them validated, applied *)
(* one by one (services/entity_postprocessor) and collapsed again.         *)
(***************************************************************************)
EXTENDS Integers, FiniteSets, FiniteSetsExt, Sequences

CONSTANTS
    N,        \* words of the document, numbered from 1
    Types,    \* entity types of the tenant
    Texts,    \* what a word may read, but for punctuation
    Punct,    \* what a word of nothing but punctuation reads
    MaxGap,   \* settings.max_entity_word_gap
    ShortTexts, \* texts shorter than settings.min_entity_value_length
    ShortTypes, \* settings.entity_short_value_types
    Documents \* the documents at hand

ASSUME NAssumption == N \in Nat \ {0}
ASSUME GapAssumption == MaxGap \in Nat
ASSUME PunctAssumption == Punct \notin Texts
ASSUME ShortAssumption == ShortTexts \subseteq Texts

VARIABLES
    word,       \* label, text and page of each word
    aligned,    \* predictions name their word (word_index): a fine-tuned model's do,
                \* the base model's do not
    mode,       \* processing_mode of the run
    at,         \* what the worker does next
    read,       \* words whose labels were read
    open,       \* current_tokens, as the set of their words
    ents,       \* the list of entities
    near,       \* pairs that may be merged, as the list was when the model was asked
    todo,       \* candidates with a decision not yet applied
    dropped, absorbed,
    lost        \* history: mentions rejected, or merged into what was itself merged

pipeVars == <<word, aligned, mode, at, read, open, ents, near, todo, dropped, absorbed, lost>>

-----------------------------------------------------------------------------
Words == 1..N
Outside == [prefix |-> "O"]
Labels == {Outside} \cup [prefix : {"B", "I"}, type : Types]
Labelled == {i \in Words : word[i].label # Outside}

\* Page 0 stands for an unknown page.
Unknown == 0

\* Text runs on from page to page. No two words in a row are punctuation alone, so
\* that trimming and canonicalization strip the same.
IsDocument(w) ==
    /\ \/ \A i \in Words : w[i].page = Unknown
       \/ /\ w[1].page = 1
          /\ \A i \in 2..N : w[i].page \in {w[i - 1].page, w[i - 1].page + 1}
    /\ \A i \in 2..N : w[i].text = Punct => w[i - 1].text # Punct

ASSUME DocumentsAssumption ==
    /\ Documents \subseteq [Words -> [label : Labels, text : Texts \cup {Punct}, page : 0..N]]
    /\ \A w \in Documents : IsDocument(w)

\* The same of the labelled words: all that the base model's predictions tell.
LabelledApart ==
    \A i, j \in Labelled : i < j /\ {word[i].text, word[j].text} = {Punct} =>
        \E k \in Labelled : i < k /\ k < j /\ word[k].text # Punct

PipeInit ==
    /\ word \in Documents
    /\ aligned \in BOOLEAN /\ (aligned \/ LabelledApart)
    /\ mode \in {"bert", "bert_llm_postprocess"}
    /\ at = "read" /\ read = 0 /\ open = {} /\ ents = <<>>
    /\ near = {} /\ todo = {} /\ dropped = {} /\ absorbed = {} /\ lost = {}

-----------------------------------------------------------------------------
\* What is in s at the given places, in the order it is in.
Nth(places, n) == CHOOSE k \in places : Cardinality({j \in places : j <= k}) = n
Picked(s, places) == [n \in 1..Cardinality(places) |-> s[Nth(places, n)]]

\* The words from first to last, without the punctuation at either end. The unlabelled
\* ones in between are filled in where predictions are aligned.
Spanned(first, last) == {i \in first..last : aligned \/ i \in Labelled}
Kept(first, last) ==
    Spanned(first, last) \ {i \in {first, last} : word[i].text = Punct}
Trimmed(first, last) == Picked([i \in Words |-> word[i].text], Kept(first, last))

\* `mentions` is history: the first words of the mentions an entity stands for.
Entity(ws) ==
    [type |-> word[Min(ws)].label.type, value |-> Trimmed(Min(ws), Max(ws)),
     first |-> Min(ws), last |-> Max(ws), page |-> word[Min(ws)].page,
     count |-> 1, mentions |-> {Min(ws)}]

Flushed == IF open = {} THEN ents ELSE Append(ents, Entity(open))

\* A variant of Adjacent: pages are not consulted.
AnyPage(i, j) == aligned => j - i - 1 <= MaxGap
Adjacent(i, j) ==
    aligned =>
        /\ word[i].page = word[j].page
        /\ \/ j = i + 1
           \/ word[i].page # Unknown /\ j - i - 1 <= MaxGap

Continues(i) ==
    /\ open # {}
    /\ word[i].label.prefix = "I" /\ word[i].label.type = word[Min(open)].label.type
    /\ Adjacent(Max(open), i)

\* Model serving leaves out the words that are outside; what is left is read in order.
Read ==
    /\ at = "read" /\ read < N
    /\ read' = read + 1
    /\ LET i == read + 1
       IN IF word[i].label = Outside
          THEN UNCHANGED <<open, ents>>
          ELSE /\ ents' = IF Continues(i) THEN ents ELSE Flushed
               /\ open' = IF Continues(i) THEN open \cup {i} ELSE {i}
    /\ UNCHANGED <<word, aligned, mode, at, near, todo, dropped, absorbed, lost>>

-----------------------------------------------------------------------------
Valid(e) ==
    /\ e.value # <<>>
    /\ e.type \in ShortTypes \/ e.value \notin {<<t>> : t \in ShortTexts}
Fact(e) == <<e.type, e.value>>

Occurrences(s, k) == s[k].count + Cardinality({j \in (k + 1)..Len(s) : Fact(s[j]) = Fact(s[k])})

\* The first entity of each fact stays, and counts one more for each other.
IsFirst(s, k) == \A j \in 1..(k - 1) : Fact(s[j]) # Fact(s[k])
Joined(s, k) ==
    [s[k] EXCEPT !.count = Occurrences(s, k),
                 !.mentions = UNION {s[j].mentions : j \in {j \in 1..Len(s) : Fact(s[j]) = Fact(s[k])}}]
Collapsed(s) ==
    Picked([k \in 1..Len(s) |-> Joined(s, k)], {k \in 1..Len(s) : IsFirst(s, k)})

\* The last entity is closed; filter_valid_entities, then collapse_duplicates.
Settle ==
    /\ at = "read" /\ read = N
    /\ ents' = Collapsed(Picked(Flushed, {k \in 1..Len(Flushed) : Valid(Flushed[k])}))
    /\ open' = {}
    /\ at' = IF mode = "bert" THEN "stored" ELSE "ask"
    /\ UNCHANGED <<word, aligned, mode, read, near, todo, dropped, absorbed, lost>>

-----------------------------------------------------------------------------
\* An entity of the base model's predictions has no place in the document.
Mergeable(e, f) ==
    /\ aligned /\ e.type = f.type /\ e.page = f.page
    /\ LET stride == IF e.last <= f.first THEN f.first - e.last ELSE e.first - f.last
       IN stride > 0 /\ stride - 1 <= MaxGap

Neighbours(s) ==
    {p \in (1..Len(s)) \X (1..Len(s)) : p[1] # p[2] /\ Mergeable(s[p[1]], s[p[2]])}

\* select_candidates: an entity with a near neighbour, and any whose confidence, typed
\* value or length the settings doubt.
Ask ==
    /\ at = "ask"
    /\ near' = Neighbours(ents)
    /\ \E cs \in SUBSET (1..Len(ents)) :
          /\ {p[1] : p \in near'} \subseteq cs
          /\ todo' = cs
    /\ at' = "apply"
    /\ UNCHANGED <<word, aligned, mode, read, open, ents, dropped, absorbed, lost>>

\* The budget is spent, the provider fails or its answer is no answer: the entities are
\* stored as they are.
Degrade ==
    /\ at = "ask"
    /\ at' = "again"
    /\ UNCHANGED <<word, aligned, mode, read, open, ents, near, todo, dropped, absorbed, lost>>

\* A value must be in the words around the candidate, whatever page they are on, or in
\* its own where nobody knows which are around it.
Evidence(e) ==
    {r \in Words \X Words : /\ r[1] <= r[2]
                            /\ aligned \/ {r[1], r[2]} \subseteq Spanned(e.first, e.last)}

\* KEEP, or no decision that is valid.
Keep(c) ==
    /\ todo' = todo \ {c}
    /\ UNCHANGED <<ents, dropped, absorbed, lost>>

Reject(c) ==
    /\ dropped' = dropped \cup {c}
    /\ todo' = todo \ {c}
    /\ lost' = lost \cup ents[c].mentions
    /\ UNCHANGED <<ents, absorbed>>

Modify(c) ==
    /\ \/ \E r \in Evidence(ents[c]), t \in Types :
             ents' = [ents EXCEPT ![c].value = Trimmed(r[1], r[2]), ![c].type = t]
       \/ \E t \in Types : ents' = [ents EXCEPT ![c].type = t]
    /\ todo' = todo \ {c}
    /\ UNCHANGED <<dropped, absorbed, lost>>

\* A variant of Taken: an entity may be merged into two others.
TakenIfDropped(d) == d \in dropped
Taken(d) == d \in dropped \/ d \in absorbed

\* _extend_span
Extended(e, others) ==
    LET all == {e} \cup others
    IN [e EXCEPT !.first = Min({f.first : f \in all}),
                 !.last = Max({f.last : f \in all}),
                 !.count = Max({f.count : f \in all}),
                 !.mentions = UNION {f.mentions : f \in all}]

Merge(c) ==
    \E ds \in (SUBSET {p[2] : p \in {p \in near : p[1] = c}}) \ {{}} :
        /\ todo' = todo \ {c}
        /\ IF \E d \in ds : Taken(d)
           THEN UNCHANGED <<ents, absorbed, lost>>
           ELSE /\ \E r \in Evidence(ents[c]) :
                     ents' = [ents EXCEPT ![c] =
                        [Extended(ents[c], {ents[d] : d \in ds}) EXCEPT !.value = Trimmed(r[1], r[2])]]
                /\ absorbed' = absorbed \cup ds
                /\ lost' = IF c \in absorbed
                           THEN lost \cup UNION {ents[d].mentions : d \in ds} ELSE lost
        /\ UNCHANGED dropped

\* A decision at a time, in the order of the answer.
Decide ==
    /\ at = "apply"
    /\ \E c \in todo : Keep(c) \/ Reject(c) \/ Modify(c) \/ Merge(c)
    /\ UNCHANGED <<word, aligned, mode, at, read, open, near>>

\* The survivors go through collapse_duplicates a second time, and are stored.
Surviving(s) == Picked(s, (1..Len(s)) \ (dropped \cup absorbed))

\* A variant of SecondPass: what was changed is not compared with what was not.
SurvivorsOnly(s) == Surviving(s)
SecondPass(s) == Collapsed(Surviving(s))

StoreEntities ==
    /\ at = "again" \/ (at = "apply" /\ todo = {})
    /\ ents' = SecondPass(ents)
    /\ at' = "stored"
    /\ UNCHANGED <<word, aligned, mode, read, open, near, todo, dropped, absorbed, lost>>

Stored == at = "stored" /\ UNCHANGED pipeVars

PipeNext == Read \/ Settle \/ Ask \/ Degrade \/ Decide \/ StoreEntities \/ Stored

PipeSpec == PipeInit /\ [][PipeNext]_pipeVars
-----------------------------------------------------------------------------
EntityType ==
    [type : Types, value : Seq(Texts \cup {Punct}), first : Words, last : Words,
     page : 0..N, count : Nat, mentions : SUBSET Words]

PipeTypeOK ==
    /\ mode \in {"bert", "bert_llm_postprocess"} /\ aligned \in BOOLEAN
    /\ at \in {"read", "ask", "again", "apply", "stored"}
    /\ read \in 0..N /\ open \subseteq Labelled
    /\ \A k \in 1..Len(ents) : ents[k] \in EntityType
    /\ todo \subseteq 1..Len(ents) \/ at = "stored"
    /\ lost \subseteq Words

\* Where predictions are aligned an entity is of one place: its words are on one page,
\* no hole in it is wider than the gap allowed, and on an unknown page nothing the
\* labels alone made has a hole. (The base model's are joined over any distance and any
\* page: _is_adjacent has nothing to measure with.)
OfOnePlace ==
    aligned => \A k \in 1..Len(ents) :
        LET e == ents[k]
        IN /\ \A i \in e.first..e.last : word[i].page = e.page
           /\ \A i \in e.first..e.last :
                 i + MaxGap <= e.last => i..(i + MaxGap) \cap Labelled # {}
           /\ mode = "bert" /\ e.page = Unknown => e.first..e.last \subseteq Labelled

\* What the labels spell out, read off the document: a mention starts at a labelled
\* word that does not go on from the labelled word before, ends before the next such
\* word, and is worth a row unless nothing but punctuation is in it, or one word that
\* is too short for its type.
Before(i) == {j \in Labelled : j < i}
GoesOn(i) ==
    /\ word[i].label.prefix = "I" /\ Before(i) # {}
    /\ word[i].label.type = word[Max(Before(i))].label.type
    /\ Adjacent(Max(Before(i)), i)
Spells(i, j) ==
    /\ \A k \in Labelled : i < k /\ k <= j => GoesOn(k)
    /\ \A k \in Labelled : j \in Before(k) /\ Max(Before(k)) = j => ~GoesOn(k)
WorthARow(i, j) ==
    \E k \in Kept(i, j) :
        word[i].label.type \in ShortTypes \/ word[k].text \notin ShortTexts \/ Kept(i, j) # {k}
Mentions ==
    {i \in Labelled : ~GoesOn(i) /\ \E j \in Labelled : i <= j /\ Spells(i, j) /\ WorthARow(i, j)}

\* No mention is stored twice, and none disappears but at the model's word: it rejected
\* it, or merged it into an entity that it also merged into another.
EachMentionOnce ==
    at = "stored" => \A i \in Mentions :
        LET rows == {k \in 1..Len(ents) : i \in ents[k].mentions}
        IN Cardinality(rows) = 1 \/ (rows = {} /\ i \in lost)

\* A fact has one row, whatever the model made of its mentions, and its occurrence_count
\* is the number of them, or less once the model has merged some.
OneRowPerFact ==
    at = "stored" => \A k \in 1..Len(ents) :
        LET mentions == Cardinality(ents[k].mentions)
        IN /\ \A l \in 1..Len(ents) : Fact(ents[k]) = Fact(ents[l]) => k = l
           /\ IF mode = "bert" THEN ents[k].count = mentions ELSE ents[k].count \in 1..mentions

===============================================================================
