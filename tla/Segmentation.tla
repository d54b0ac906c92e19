---------------------------- MODULE Segmentation ----------------------------
(***************************************************************************)
(* How a user's message becomes facts: split_into_facts, is_substantive    *)
(* and classify_fragment (segment.py), and _user_fact_specs, the part of   *)
(* the middleware that puts them together (middleware.py).                 *)
(*                                                                         *)
(* The text is seen as the regular expressions see it.  A sentence is a    *)
(* sequence of parts between separators, with or without a label before a  *)
(* colon; of a part it matters where in it a verb of _CLAUSE_VERBS stands, *)
(* whether it has _MIN_FRAGMENT letters, a digit, a word of three letters, *)
(* and whether it opens like a question, an instruction or a goal.         *)
(***************************************************************************)
EXTENDS Naturals, Sequences, FiniteSets, SequencesExt

CONSTANTS
  PartKind,      \* kinds of parts, and of labels
  VerbAt,        \* VerbAt[k]: where the verbs of a part of kind k stand
  Long,          \* those of _MIN_FRAGMENT letters or more
  Digit,         \* those with a digit
  Word,          \* those with a word
  Ordinal,       \* those of digits and punctuation only, as "4."
  Opener,        \* those whose first word, a leading conjunction aside, is an
                 \* imperative or interrogative one
  Goal,          \* those that begin with the first words of a goal
  Joint,         \* separators
  Weak,          \* those that are a bare comma
  Conjunction,   \* those that have the word "and"
  SpaceBefore,   \* those that begin with a space, as " and "
  SpaceAfter,    \* those that end with a space, not with a line break
  Sentences,     \* bound: the sentences a message can hold
  More,          \* bound: the sentences that can follow its first one
  MaxSentences   \* bound: sentences of a message

\* Between two words of the part, its first or last word, or its only one.
Place == {"inside", "first", "last", "only"}

\* A label is one of at most three words, with text after its colon; it is set
\* off from that text by a space.
ASSUME SegmentationAssumption ==
  /\ VerbAt \in [PartKind -> SUBSET Place]
  /\ Long \cup Digit \cup Word \cup Ordinal \cup Opener \cup Goal \subseteq PartKind
  /\ \A k \in Ordinal : VerbAt[k] = {} /\ k \notin Word
  /\ "comma" \in Weak /\ "comma" \in SpaceAfter /\ "comma" \notin SpaceBefore
  /\ Weak \cup Conjunction \cup SpaceBefore \cup SpaceAfter \subseteq Joint
  /\ Weak \cap Conjunction = {}
  /\ More \subseteq Sentences
  /\ \A s \in Sentences :
       /\ s.label \in Seq(PartKind) /\ Len(s.label) <= 1
       /\ s.colon \in BOOLEAN /\ s.question \in BOOLEAN
       /\ s.parts \in Seq(PartKind) /\ s.joints \in Seq(Joint)
       /\ Len(s.parts) = Len(s.joints) + 1

VARIABLES
  text,     \* the message
  facts     \* its facts: _user_fact_specs

vars == <<text, facts>>

-----------------------------------------------------------------------------
(* split_into_facts.                                                       *)

Strong(s) == { i \in 1..Len(s.joints) : s.joints[i] \notin Weak }

\* "an explicit label, several separators, or one strong separator": any colon
\* counts as a label here.
Enumerates(s) ==
  \/ Len(s.joints) >= 2
  \/ Strong(s) # {}
  \/ s.colon /\ Len(s.joints) >= 1

\* A part that cannot stand alone, being short or without a verb (which, padded,
\* may stand at its end), is a continuation of the previous clause.
Continues(p) == VerbAt[p] = {} \/ p \notin Long

\* A fragment: the parts from..to of a sentence, the joints written between
\* them, after the label or without it.
Whole(n, s) ==
  [sentence |-> n, label |-> s.label, from |-> 1, to |-> Len(s.parts), joints |-> s.joints]

\* Mutant: a continuation starts no fragment and joins none.
DropContinuation(merged, i) == merged

\* merged[-1] = f"{merged[-1]}, {part}"
JoinToLast(merged, i) ==
  LET last == Last(merged)
  IN  [merged EXCEPT ![Len(merged)] =
        [last EXCEPT !.to = i, !.joints = Append(last.joints, "comma")]]

\* The label has been dropped.
Alone(n, i) == [sentence |-> n, label |-> <<>>, from |-> i, to |-> i, joints |-> <<>>]

MergePart(n, s, merged, i) ==
  IF merged # <<>> /\ Continues(s.parts[i]) THEN JoinToLast(merged, i)
  ELSE Append(merged, Alone(n, i))

\* The loop of _split_enumeration.
Merged(n, s) ==
  LET merged[i \in 0..Len(s.parts)] ==
        IF i = 0 THEN <<>> ELSE MergePart(n, s, merged[i - 1], i)
  IN  merged[Len(s.parts)]

SplitEnumeration(n, s) ==
  LET merged == Merged(n, s)
  IN  IF Len(merged) < 2 THEN <<Whole(n, s)>> ELSE merged

SplitSentence(n, s) == IF Enumerates(s) THEN SplitEnumeration(n, s) ELSE <<Whole(n, s)>>

SplitIntoFacts(t) == FlattenSeq([n \in 1..Len(t) |-> SplitSentence(n, t[n])])

-----------------------------------------------------------------------------
(* is_substantive and classify_fragment.                                   *)

PartsOf(t, f) == { t[f.sentence].parts[i] : i \in f.from..f.to }

\* What the text of a fragment is made of.
Content(t, f) == PartsOf(t, f) \cup { f.label[i] : i \in 1..Len(f.label) }

\* _REAL_WORD: the "and" of a separator is one.
HasWord(t, f) ==
  Content(t, f) \cap Word # {} \/ \E j \in 1..Len(f.joints) : f.joints[j] \in Conjunction

\* "4.", "3)".  The test only forestalls the two that follow it.
BareOrdinal(t, f) == f.label = <<>> /\ f.from = f.to /\ PartsOf(t, f) \subseteq Ordinal

\* Part i of f comes after, or before, a space: the text is padded at its ends,
\* within it the separators are what they are.
AfterSpace(f, i) == i > f.from => f.joints[i - f.from] \in SpaceAfter
BeforeSpace(f, i) == i < f.to => f.joints[i - f.from + 1] \in SpaceBefore

\* _looks_like_clause: a verb of _CLAUSE_VERBS occurs between two spaces.  One
\* that ends its part does not when a comma follows, one that ends the label
\* is followed by the colon.
Clause(t, f) ==
  \/ \E i \in f.from..f.to : \E v \in VerbAt[t[f.sentence].parts[i]] :
       /\ v \in {"first", "only"} => AfterSpace(f, i)
       /\ v \in {"last", "only"} => BeforeSpace(f, i)
  \/ f.label # <<>> /\ VerbAt[f.label[1]] \cap {"inside", "first"} # {}

\* Mutant: a measurement without a verb of the list is framing.
Asserts(t, f) == ~BareOrdinal(t, f) /\ Clause(t, f)

\* Mutant: any figure will do, a list marker and a bare "41ms" included.
HasFigure(t, f) == Clause(t, f) \/ Content(t, f) \cap Digit # {}

Substantive(t, f) ==
  /\ ~BareOrdinal(t, f)
  /\ \/ Clause(t, f)
     \/ Content(t, f) \cap Digit # {} /\ HasWord(t, f)

\* The label or the part that the text of f begins with.
Opening(t, f) == IF f.label # <<>> THEN f.label[1] ELSE t[f.sentence].parts[f.from]

\* All that comes before part i of f is digits and punctuation.
Unworded(t, f, i) ==
  /\ f.label # <<>> => f.label[1] \in Ordinal
  /\ \A j \in f.from..(i - 1) : t[f.sentence].parts[j] \in Ordinal

\* The separators with an "and" before part i of f.
Conjoined(f, i) == { j \in 1..(i - f.from) : f.joints[j] \in Conjunction }

\* The text begins with a directive, or past digits and punctuation its first
\* word is that of one.  One "and" before that is stripped, and then the text
\* begins behind it; the first words of a goal must begin the text.
OpensAsDirective(t, f) ==
  \/ Opening(t, f) \in Opener \cup Goal
  \/ \E i \in f.from..f.to :
       /\ Unworded(t, f, i)
       /\ \/ t[f.sentence].parts[i] \in Opener /\ Cardinality(Conjoined(f, i)) <= 1
          \/ t[f.sentence].parts[i] \in Goal /\ Conjoined(f, i) = {i - f.from}

IsDirective(t, f) ==
  LET s == t[f.sentence]
  IN  (s.question /\ f.to = Len(s.parts)) \/ OpensAsDirective(t, f)

-----------------------------------------------------------------------------
(* _user_fact_specs.                                                       *)

\* The whole message, under the key of the message: 0 stands for base_key.
Message == [key |-> 0, fragment |-> <<>>]

Keyed(fragments) ==
  [i \in 1..Len(fragments) |->
    [key |-> IF Len(fragments) = 1 THEN 0 ELSE i, fragment |-> fragments[i]]]

\* What is said or asked, without the framing.
Kept(t, specs) ==
  FlattenSeq([i \in 1..Len(specs) |->
    IF IsDirective(t, specs[i].fragment) \/ Substantive(t, specs[i].fragment)
      THEN <<specs[i]>> ELSE <<>>])

UserFactSpecs(t) ==
  LET kept == Kept(t, Keyed(SplitIntoFacts(t)))
  IN  IF kept = <<>> THEN <<Message>> ELSE kept

-----------------------------------------------------------------------------
Init == text = <<>> /\ facts = <<>>

\* The user writes a message ...
Write(s) ==
  /\ Len(text) < MaxSentences
  /\ text' = Append(text, s) /\ facts' = <<>>

\* ... and the middleware captures it.
Capture ==
  /\ text # <<>>
  /\ facts' = UserFactSpecs(text)
  /\ UNCHANGED text

Sayable == IF text = <<>> THEN Sentences ELSE More

Next == (\E s \in Sayable : Write(s)) \/ Capture

Spec == Init /\ [][Next]_vars

-----------------------------------------------------------------------------
Captured == facts # <<>>
Position(n, i) == <<n, i>>
Positions == UNION { { Position(n, i) : i \in 1..Len(text[n].parts) } : n \in 1..Len(text) }
Covers(f, p) == f.sentence = p[1] /\ f.from <= p[2] /\ p[2] <= f.to
Recorded(p) ==
  facts = <<Message>> \/ \E i \in 1..Len(facts) : facts[i] # Message /\ Covers(facts[i].fragment, p)

\* Splitting neither loses nor repeats a word: every part of the message is in
\* exactly one fragment, and the fragments are in the order of the text.
EveryPartOnce ==
  LET fs == SplitIntoFacts(text)
  IN  Captured =>
        /\ \A p \in Positions : Cardinality({ i \in 1..Len(fs) : Covers(fs[i], p) }) = 1
        /\ \A i, j \in 1..Len(fs) : i < j =>
             \/ fs[i].sentence < fs[j].sentence
             \/ fs[i].sentence = fs[j].sentence /\ fs[i].to < fs[j].from

\* Whatever part of a message has a verb that the text sets off by spaces on
\* both sides, or a figure and what it measures, is part of a fact; so is every
\* question and instruction.  A verb at the end of a part is not enough: "keep to
\* the budget we have" is a clause when the sentence is split, and none any more
\* when ", strictly" has been joined to it.  No message leaves no fact.
NothingStatedIsLost ==
  Captured =>
    \A p \in Positions :
      LET s == text[p[1]]
          part == s.parts[p[2]]
      IN  \/ "inside" \in VerbAt[part]
          \/ "first" \in VerbAt[part] /\ (p[2] > 1 => s.joints[p[2] - 1] \in SpaceAfter)
          \/ part \in Digit \cap Word
          \/ p[2] = 1 /\ part \in Opener \cup Goal /\ s.label = <<>>
          \/ p[2] = Len(s.parts) /\ s.question
          => Recorded(p)

\* Framing is not memory: a fact that is neither a directive nor the whole
\* message asserts something or names what it counts, a list marker does not.
NoFraming ==
  \A i \in 1..Len(facts) :
    facts[i] # Message =>
      LET f == facts[i].fragment
          s == text[f.sentence]
          said == Content(text, f)
      IN  \/ \E k \in said : VerbAt[k] # {}
          \/ said \cap Digit # {} /\ HasWord(text, f)
          \/ f.to = Len(s.parts) /\ s.question
          \/ said \cap (Opener \cup Goal) # {}
=============================================================================
