------------------------------ MODULE TextsProofs ------------------------------
(***************************************************************************)
(* The TEXT runtime with any number of variables, characters and frames:   *)
(* windows stay inside their frames, assignment copies, GETINT reads what  *)
(* PUTINT wrote, and every statement is one of shared texts.               *)
(*                                                                         *)
(* A storage h is what the runtime functions receive and leave: Sound says *)
(* that its descriptors fit their frames.  The first parts say what each   *)
(* function does to a sound storage; a statement then is one of Error,     *)
(* Binds and Writes (StepKinds), which is what invariance and refinement   *)
(* are proved from.                                                        *)
(***************************************************************************)
EXTENDS Texts, SequenceTheorems, FiniteSetTheorems, WellFoundedInduction, TLAPS

-----------------------------------------------------------------------------
(* The least element of a set of numbers.                                  *)

\* Every non-empty set of natural numbers has a least element, and Min is it.
LEMMA MinNat ==
    ASSUME NEW S \in SUBSET Nat, S # {}
    PROVE  /\ Min(S) \in S
           /\ \A n \in S : Min(S) <= n
<1>1. PICK m \in S : \A n \in S : ~ (<<n, m>> \in OpToRel(<, Nat))
  BY NatLessThanWellFounded, WFMin, Zenon
<1>2. ASSUME NEW n \in S, n < m
      PROVE  FALSE
  <2>1. <<n, m>> \in {r \in Nat \X Nat : r[1] < r[2]}
    BY <1>2
  <2> QED
    BY <1>1, <2>1, Zenon DEF OpToRel
<1>3. \A n \in S : m <= n
  BY <1>2
<1> QED
  BY <1>3 DEF Min

-----------------------------------------------------------------------------

Descriptors == [frame : Address, start : Int, length : Int, pos : Int, framelen : Int]

\* The window of t lies in its frame.
Fits(t, fr) ==
    /\ t.frame \in DOMAIN fr
    /\ t.framelen = Len(fr[t.frame])
    /\ t.start >= 0 /\ t.length >= 0
    /\ t.start + t.length <= t.framelen
    /\ t.pos \in 0 .. t.length

\* A storage as the runtime functions receive it and leave it.
Sound(h) ==
    /\ h = [frame |-> h.frame, text |-> h.text, res |-> h.res]
    /\ IsFiniteSet(DOMAIN h.frame) /\ IsFiniteSet(DOMAIN h.text)
    /\ DOMAIN h.frame \subseteq Address /\ DOMAIN h.text \subseteq Address
    /\ h.frame \in [DOMAIN h.frame -> Seq(Char)]
    /\ h.text \in [DOMAIN h.text -> Descriptors]
    /\ \A d \in DOMAIN h.text : Fits(h.text[d], h.frame)
    /\ h.res \in DOMAIN h.text \cup {NOTEXT}

SameWindow(t, u) == t.frame = u.frame /\ t.start = u.start /\ t.length = u.length

\* What h has is in g as well, perhaps with other cursors.
Grows(h, g) ==
    /\ DOMAIN h.frame \subseteq DOMAIN g.frame
    /\ \A f \in DOMAIN h.frame : g.frame[f] = h.frame[f]
    /\ DOMAIN h.text \subseteq DOMAIN g.text
    /\ \A d \in DOMAIN h.text : SameWindow(g.text[d], h.text[d])

\* The result of g is a text object that h does not have, with contents s.
Makes(h, g, s) ==
    /\ g.res \in DOMAIN g.text \ DOMAIN h.text
    /\ LET t == g.text[g.res]
       IN  /\ t.frame \in DOMAIN g.frame \ DOMAIN h.frame
           /\ g.frame[t.frame] = s
           /\ t.start = 0 /\ t.length = Len(s)

\* The result of g is a new view of the frame f of h.
Views(h, g, f, start, length) ==
    /\ g.frame = h.frame
    /\ g.res \in DOMAIN g.text \ DOMAIN h.text
    /\ LET t == g.text[g.res]
       IN  t.frame = f /\ t.start = start /\ t.length = length

-----------------------------------------------------------------------------
(* Numbers and addresses.                                                  *)

LEMMA MaxOfTwo ==
    ASSUME NEW a \in Int, NEW b \in Int
    PROVE  Max({a, b}) = IF a >= b THEN a ELSE b
BY DEF Max

LEMMA MinOfTwo ==
    ASSUME NEW a \in Int, NEW b \in Int
    PROVE  Min({a, b}) = IF a <= b THEN a ELSE b
BY DEF Min

\* Every non-empty set of numbers up to n has a greatest element.
LEMMA MaxUpTo ==
    ASSUME NEW n \in Nat, NEW S \in SUBSET (0 .. n), S # {}
    PROVE  /\ Max(S) \in S
           /\ \A i \in S : i <= Max(S)
<1> DEFINE T == {n - i : i \in S}
<1>1. T \in SUBSET Nat /\ T # {}
  <2>1. \A i \in S : i \in 0 .. n /\ n - i \in Nat
    OBVIOUS
  <2> QED
    BY <2>1
<1>2. Min(T) \in T /\ \A j \in T : Min(T) <= j
  BY <1>1, MinNat
<1>3. PICK m \in S : Min(T) = n - m
  BY <1>2
<1>4. \A i \in S : i <= m
  <2>1. \A i \in S : n - i \in T
    OBVIOUS
  <2> QED
    BY <1>2, <1>3, <2>1
<1> QED
  BY <1>4 DEF Max

LEMMA NewIsNew ==
    ASSUME NEW m, IsFiniteSet(DOMAIN m)
    PROVE  New(m) \in Address \ DOMAIN m
<1> DEFINE n == Cardinality(DOMAIN m)
           S == (1 .. n + 1) \ DOMAIN m
<1>1. n \in Nat
  BY FS_CardinalityType
<1>2. S # {}
  <2> SUFFICES ASSUME 1 .. n + 1 \subseteq DOMAIN m
               PROVE  FALSE
    OBVIOUS
  <2>1. Cardinality(1 .. n + 1) <= n
    BY FS_Subset
  <2>2. Cardinality(1 .. n + 1) = n + 1
    BY <1>1, FS_Interval
  <2> QED
    BY <1>1, <2>1, <2>2
<1>3. S \in SUBSET Nat
  OBVIOUS
<1>4. Min(S) \in S
  BY <1>2, <1>3, MinNat
<1> QED
  BY <1>4 DEF New, Address

ExtendedBy(x, m, a, v) ==
    /\ DOMAIN x = DOMAIN m \cup {a}
    /\ x[a] = v
    /\ \A b \in DOMAIN m : x[b] = m[b]
    /\ IsFiniteSet(DOMAIN m) => IsFiniteSet(DOMAIN x)

LEMMA ExtendedIs ==
    ASSUME NEW m, NEW a, NEW v, a \notin DOMAIN m
    PROVE  ExtendedBy(Extended(m, a, v), m, a, v)
<1>1. DOMAIN Extended(m, a, v) = DOMAIN m \cup {a}
  BY DEF Extended
<1> QED
  BY <1>1, FS_AddElement DEF Extended, ExtendedBy

-----------------------------------------------------------------------------
(* The two ways to make a descriptor.                                      *)

LEMMA FreshEffect ==
    ASSUME NEW h, Sound(h), NEW s \in Seq(Char)
    PROVE  /\ Sound(Fresh(h, s)) /\ Grows(h, Fresh(h, s)) /\ Makes(h, Fresh(h, s), s)
<1> DEFINE f == New(h.frame)
           d == New(h.text)
           u == Descriptor(f, 0, Len(s), Len(s))
           g == Fresh(h, s)
<1>1. f \in Address \ DOMAIN h.frame /\ d \in Address \ DOMAIN h.text
  BY NewIsNew DEF Sound
<1>2. /\ u \in Descriptors
      /\ u.frame = f /\ u.start = 0 /\ u.length = Len(s) /\ u.pos = 0
      /\ u.framelen = Len(s)
  BY <1>1 DEF Descriptor, Descriptors, Address
<1>3. /\ g = [frame |-> g.frame, text |-> g.text, res |-> g.res]
      /\ g.frame = Extended(h.frame, f, s)
      /\ g.text = Extended(h.text, d, u)
      /\ g.res = d
  BY DEF Fresh
<1> HIDE DEF f, d, u, g
<1>4. /\ DOMAIN g.frame = DOMAIN h.frame \cup {f} /\ g.frame[f] = s
      /\ \A b \in DOMAIN h.frame : g.frame[b] = h.frame[b]
      /\ IsFiniteSet(DOMAIN g.frame)
      /\ DOMAIN g.text = DOMAIN h.text \cup {d} /\ g.text[d] = u
      /\ \A b \in DOMAIN h.text : g.text[b] = h.text[b]
      /\ IsFiniteSet(DOMAIN g.text)
  <2>1. IsFiniteSet(DOMAIN h.frame) /\ IsFiniteSet(DOMAIN h.text)
    BY DEF Sound
  <2>2. \A m, a, v : a \notin DOMAIN m => ExtendedBy(Extended(m, a, v), m, a, v)
    BY ExtendedIs
  <2>3. ExtendedBy(g.frame, h.frame, f, s) /\ ExtendedBy(g.text, h.text, d, u)
    BY <1>1, <1>3, <2>2, Zenon
  <2> QED
    BY <2>1, <2>3 DEF ExtendedBy
<1>5. g.frame \in [DOMAIN g.frame -> Seq(Char)] /\ g.text \in [DOMAIN g.text -> Descriptors]
  BY <1>1, <1>2, <1>3 DEF Sound, Extended
<1>6. \A b \in DOMAIN g.text : Fits(g.text[b], g.frame)
  <2> SUFFICES ASSUME NEW b \in DOMAIN g.text
               PROVE  Fits(g.text[b], g.frame)
    OBVIOUS
  <2>1. CASE b = d
    BY <1>2, <1>4, <2>1 DEF Fits
  <2>2. CASE b # d
    <3>1. Fits(h.text[b], h.frame) /\ g.text[b] = h.text[b]
      BY <1>4, <2>2 DEF Sound
    <3> QED
      BY <1>4, <3>1 DEF Fits
  <2> QED
    BY <2>1, <2>2
<1>7. Sound(g)
  BY <1>1, <1>3, <1>4, <1>5, <1>6 DEF Sound
<1>8. Grows(h, g)
  BY <1>4 DEF Grows, SameWindow
<1>9. Makes(h, g, s)
  BY <1>1, <1>2, <1>3, <1>4 DEF Makes
<1> QED
  BY <1>7, <1>8, <1>9 DEF g

LEMMA AliasEffect ==
    ASSUME NEW h, Sound(h), NEW t \in Descriptors, Fits(t, h.frame),
           NEW start \in Nat, NEW length \in Nat, start + length <= t.framelen
    PROVE  /\ Sound(Alias(h, t, start, length)) /\ Grows(h, Alias(h, t, start, length))
           /\ Views(h, Alias(h, t, start, length), t.frame, start, length)
<1> DEFINE d == New(h.text)
           u == Descriptor(t.frame, start, length, t.framelen)
           g == Alias(h, t, start, length)
<1>1. d \in Address \ DOMAIN h.text
  BY NewIsNew DEF Sound
<1>2. /\ u \in Descriptors
      /\ u.frame = t.frame /\ u.start = start /\ u.length = length /\ u.pos = 0
      /\ u.framelen = t.framelen
  BY DEF Descriptor, Descriptors
<1>3. /\ g = [frame |-> g.frame, text |-> g.text, res |-> g.res]
      /\ g.frame = h.frame
      /\ g.text = Extended(h.text, d, u)
      /\ g.res = d
  BY DEF Alias
<1> HIDE DEF d, u, g
<1>4. /\ DOMAIN g.text = DOMAIN h.text \cup {d} /\ g.text[d] = u
      /\ \A b \in DOMAIN h.text : g.text[b] = h.text[b]
      /\ IsFiniteSet(DOMAIN g.text)
  <2>1. IsFiniteSet(DOMAIN h.text) /\ ExtendedBy(g.text, h.text, d, u)
    BY <1>1, <1>3, ExtendedIs DEF Sound
  <2> QED
    BY <2>1 DEF ExtendedBy
<1>5. g.text \in [DOMAIN g.text -> Descriptors]
  BY <1>1, <1>2, <1>3 DEF Sound, Extended
<1>6. \A b \in DOMAIN g.text : Fits(g.text[b], g.frame)
  BY <1>2, <1>3, <1>4 DEF Sound, Fits
<1>7. Sound(g)
  BY <1>1, <1>3, <1>4, <1>5, <1>6 DEF Sound
<1>8. Grows(h, g)
  BY <1>3, <1>4 DEF Grows, SameWindow
<1>9. Views(h, g, t.frame, start, length)
  BY <1>1, <1>2, <1>3, <1>4 DEF Views
<1> QED
  BY <1>7, <1>8, <1>9 DEF g

LEMMA SameEffect ==
    ASSUME NEW h, Sound(h), NEW d \in DOMAIN h.text \cup {NOTEXT}
    PROVE  /\ Sound(Same(h, d)) /\ Grows(h, Same(h, d))
           /\ Same(h, d).frame = h.frame /\ Same(h, d).text = h.text
           /\ Same(h, d).res = d
BY DEF Same, Sound, Grows, SameWindow

-----------------------------------------------------------------------------
(* Contents and cursors.                                                   *)

Reference(h) == DOMAIN h.text \cup {NOTEXT}

LEMMA ReferenceFacts ==
    ASSUME NEW h, Sound(h)
    PROVE  /\ NOTEXT \notin DOMAIN h.text
           /\ h.res \in Reference(h)
           /\ \A d \in Reference(h) : d # NOTEXT =>
                 /\ d \in DOMAIN h.text /\ h.text[d] \in Descriptors
                 /\ Fits(h.text[d], h.frame)
                 /\ h.frame[h.text[d].frame] \in Seq(Char)
                 /\ h.text[d].start \in Nat /\ h.text[d].length \in Nat
                 /\ h.text[d].pos \in 0 .. h.text[d].length
<1>1. NOTEXT \notin DOMAIN h.text
  BY TextsAssumption DEF Sound, Address
<1>2. ASSUME NEW d \in DOMAIN h.text
      PROVE  /\ h.text[d] \in Descriptors /\ Fits(h.text[d], h.frame)
             /\ h.frame[h.text[d].frame] \in Seq(Char)
             /\ h.text[d].start \in Nat /\ h.text[d].length \in Nat
             /\ h.text[d].pos \in 0 .. h.text[d].length
  <2>1. h.text[d] \in Descriptors /\ Fits(h.text[d], h.frame)
    BY DEF Sound
  <2>2. h.frame[h.text[d].frame] \in Seq(Char)
    BY <2>1 DEF Sound, Fits
  <2> QED
    BY <2>1, <2>2 DEF Fits, Descriptors
<1> QED
  BY <1>1, <1>2 DEF Sound, Reference

LEMMA ContentIs ==
    ASSUME NEW h, Sound(h), NEW d \in Reference(h)
    PROVE  /\ Content(h, d) \in Seq(Char)
           /\ Length(h, d) \in Nat
           /\ Len(Content(h, d)) = Length(h, d)
           /\ d # NOTEXT => \A i \in 1 .. Length(h, d) :
                 Content(h, d)[i] = h.frame[h.text[d].frame][h.text[d].start + i]
<1>1. CASE d = NOTEXT
  BY <1>1 DEF Content, Length
<1>2. CASE d # NOTEXT
  <2>1. PICK s \in Seq(Char) : s = h.frame[h.text[d].frame]
    BY <1>2, ReferenceFacts
  <2>2. PICK a \in Nat, n \in Nat : a = h.text[d].start /\ n = h.text[d].length
    BY <1>2, ReferenceFacts
  <2>3. a + n <= Len(s)
    BY <1>2, <2>1, <2>2, ReferenceFacts DEF Fits
  <2>4. /\ SubSeq(s, a + 1, a + n) \in Seq(Char)
        /\ Len(SubSeq(s, a + 1, a + n)) = n
        /\ \A i \in 1 .. n : SubSeq(s, a + 1, a + n)[i] = s[a + i]
    BY <2>3
  <2> QED
    BY <1>2, <2>1, <2>2, <2>4 DEF Content, Length
<1> QED
  BY <1>1, <1>2

LEMMA BlanksAre ==
    ASSUME NEW n \in Nat
    PROVE  /\ Blanks(n) \in Seq(Char) /\ Len(Blanks(n)) = n
           /\ \A i \in 1 .. n : Blanks(n)[i] = Blank
BY TextsAssumption DEF Blanks

\* The descriptors and frames are those of h, but for the cursors.
SameTexts(h, g) ==
    /\ DOMAIN g.text = DOMAIN h.text
    /\ \A d \in DOMAIN h.text : SameWindow(g.text[d], h.text[d])

LEMMA CursorMoves ==
    ASSUME NEW h, Sound(h), NEW d \in DOMAIN h.text, NEW p \in 0 .. h.text[d].length
    PROVE  LET g == [h EXCEPT !.text[d].pos = p]
           IN  Sound(g) /\ g.frame = h.frame /\ SameTexts(h, g) /\ g.res = h.res
<1> DEFINE g == [h EXCEPT !.text[d].pos = p]
           t == h.text[d]
           u == [t EXCEPT !.pos = p]
<1>1. h = [frame |-> h.frame, text |-> h.text, res |-> h.res]
  BY DEF Sound
<1>2. /\ g.frame = h.frame
      /\ g.text = [h.text EXCEPT ![d] = u]
      /\ g.res = h.res
      /\ g = [frame |-> g.frame, text |-> g.text, res |-> g.res]
  BY <1>1
<1>3. t \in Descriptors /\ Fits(t, h.frame)
  BY ReferenceFacts DEF Reference
<1>4. /\ u \in Descriptors /\ SameWindow(u, t) /\ u.framelen = t.framelen
      /\ u.pos = p
  <2>1. p \in Int
    BY <1>3 DEF Descriptors
  <2> QED
    BY <1>3, <2>1 DEF Descriptors, SameWindow
<1>5. Fits(u, h.frame)
  BY <1>3, <1>4 DEF Fits, SameWindow
<1> HIDE DEF g, u, t
<1>6. /\ DOMAIN g.text = DOMAIN h.text /\ g.text[d] = u
      /\ g.text \in [DOMAIN g.text -> Descriptors]
      /\ \A b \in DOMAIN h.text \ {d} : g.text[b] = h.text[b]
  BY <1>2, <1>4 DEF Sound
<1>7. SameTexts(h, g)
  BY <1>4, <1>6 DEF SameTexts, SameWindow, t
<1>8. Sound(g)
  BY <1>2, <1>5, <1>6 DEF Sound
<1> QED
  BY <1>2, <1>7, <1>8 DEF g

LEMMA GrowsTransitive ==
    ASSUME NEW a, NEW b, NEW c, Grows(a, b), Grows(b, c)
    PROVE  Grows(a, c)
BY DEF Grows, SameWindow

LEMMA SameGrows ==
    ASSUME NEW h, NEW g, SameTexts(h, g), g.frame = h.frame
    PROVE  Grows(h, g) /\ Reference(g) = Reference(h)
BY DEF SameTexts, Grows, Reference

-----------------------------------------------------------------------------
(* Text expressions.                                                       *)

\* The result is a view of a text of h, inside of that text or the whole frame.
PartOf(h, g) ==
    /\ g.frame = h.frame
    /\ g.res \in DOMAIN g.text
    /\ \E d \in DOMAIN h.text :
          LET t == h.text[d]
              u == g.text[g.res]
          IN  /\ u.frame = t.frame
              /\ \/ t.start <= u.start /\ u.start + u.length <= t.start + t.length
                 \/ u.start = 0 /\ u.length = Len(h.frame[t.frame])

Outcome(h, g) ==
    /\ Sound(g) /\ Grows(h, g)
    /\ \/ g.res = NOTEXT
       \/ \E s \in Seq(Char) : Makes(h, g, s)
       \/ PartOf(h, g)

LEMMA FreshOutcome ==
    ASSUME NEW h, Sound(h), NEW s \in Seq(Char)
    PROVE  Outcome(h, Fresh(h, s))
BY FreshEffect DEF Outcome

LEMMA CopyOutcome ==
    ASSUME NEW h, Sound(h), NEW d \in Reference(h)
    PROVE  Outcome(h, text_copy(h, d))
BY ContentIs, FreshOutcome DEF text_copy

LEMMA ConcatOutcome ==
    ASSUME NEW h, Sound(h), NEW a \in Reference(h), NEW b \in Reference(h)
    PROVE  Outcome(h, text_concat(h, a, b))
<1>1. Content(h, a) \o Content(h, b) \in Seq(Char)
  BY ContentIs
<1> QED
  BY <1>1, FreshOutcome DEF text_concat

LEMMA BlanksOutcome ==
    ASSUME NEW h, Sound(h), NEW n \in Int
    PROVE  Outcome(h, blanks(h, n))
<1>1. Max({n, 0}) \in Nat
  BY MaxOfTwo
<1> QED
  BY <1>1, BlanksAre, FreshOutcome DEF blanks

LEMMA VariableOutcome ==
    ASSUME NEW h, Sound(h), NEW d \in Reference(h)
    PROVE  Outcome(h, Same(h, d))
<1>1. CASE d = NOTEXT
  BY <1>1, SameEffect DEF Outcome, Reference
<1>2. CASE d # NOTEXT
  <2>1. d \in DOMAIN h.text /\ Sound(Same(h, d)) /\ Grows(h, Same(h, d))
    BY <1>2, SameEffect DEF Reference
  <2>2. h.text[d].start \in Nat /\ h.text[d].length \in Nat
    BY <2>1, ReferenceFacts DEF Reference
  <2>3. Same(h, d).frame = h.frame /\ Same(h, d).text = h.text /\ Same(h, d).res = d
    BY SameEffect DEF Reference
  <2>4. PartOf(h, Same(h, d))
    BY <2>1, <2>2, <2>3 DEF PartOf
  <2> QED
    BY <2>1, <2>4 DEF Outcome
<1> QED
  BY <1>1, <1>2

\* A view of part of a text, or of the whole frame of a text.
LEMMA ViewOutcome ==
    ASSUME NEW h, Sound(h), NEW d \in DOMAIN h.text, NEW start \in Nat, NEW length \in Nat,
           \/ /\ h.text[d].start <= start
              /\ start + length <= h.text[d].start + h.text[d].length
           \/ start = 0 /\ length = h.text[d].framelen
    PROVE  LET g == Alias(h, h.text[d], start, length)
           IN  Outcome(h, g) /\ PartOf(h, g) /\ Views(h, g, h.text[d].frame, start, length)
<1> DEFINE t == h.text[d]
           g == Alias(h, t, start, length)
<1>1. /\ t \in Descriptors /\ Fits(t, h.frame)
  BY ReferenceFacts DEF Reference
<1>2. start + length <= t.framelen
  BY <1>1 DEF Fits, Descriptors
<1>3. Sound(g) /\ Grows(h, g) /\ Views(h, g, t.frame, start, length)
  BY <1>1, <1>2, AliasEffect
<1>4. PartOf(h, g)
  BY <1>1, <1>3 DEF Views, PartOf, Fits
<1> QED
  BY <1>3, <1>4 DEF Outcome

LEMMA MainOutcome ==
    ASSUME NEW h, Sound(h), NEW d \in Reference(h)
    PROVE  Outcome(h, text_main(h, d))
<1>1. CASE d = NOTEXT
  BY <1>1, VariableOutcome DEF text_main
<1>2. CASE d # NOTEXT
  <2>1. d \in DOMAIN h.text /\ h.text[d].framelen \in Nat
    BY <1>2, ReferenceFacts DEF Reference, Fits
  <2>2. Outcome(h, Alias(h, h.text[d], 0, h.text[d].framelen))
    BY <2>1, ViewOutcome
  <2> QED
    BY <1>2, <2>2 DEF text_main
<1> QED
  BY <1>1, <1>2

\* STRIP looks at part of the text, and so does SUB.
Narrows(h, g, d) ==
    /\ Outcome(h, g)
    /\ IF d = NOTEXT THEN Makes(h, g, <<>>)
       ELSE /\ g.frame = h.frame
            /\ g.res \in DOMAIN g.text
            /\ LET t == h.text[d]
                   u == g.text[g.res]
               IN  /\ u.frame = t.frame /\ t.start <= u.start
                   /\ u.start + u.length <= t.start + t.length

LEMMA PartNarrows ==
    ASSUME NEW h, Sound(h), NEW d \in DOMAIN h.text, NEW start \in Nat, NEW length \in Nat,
           h.text[d].start <= start,
           start + length <= h.text[d].start + h.text[d].length
    PROVE  Narrows(h, Alias(h, h.text[d], start, length), d)
<1> DEFINE g == Alias(h, h.text[d], start, length)
<1>1. Outcome(h, g) /\ Views(h, g, h.text[d].frame, start, length)
  BY ViewOutcome
<1>2. d # NOTEXT
  BY ReferenceFacts
<1> HIDE DEF g
<1>3. Narrows(h, g, d)
  BY <1>1, <1>2 DEF Narrows, Views
<1> QED
  BY <1>3 DEF g

LEMMA EmptyNarrows ==
    ASSUME NEW h, Sound(h)
    PROVE  Narrows(h, Fresh(h, <<>>), NOTEXT)
<1>1. <<>> \in Seq(Char)
  OBVIOUS
<1> QED
  BY <1>1, FreshOutcome, FreshEffect DEF Narrows

LEMMA StripNarrows ==
    ASSUME NEW h, Sound(h), NEW d \in Reference(h)
    PROVE  Narrows(h, text_strip(h, d), d)
<1>1. CASE d = NOTEXT
  BY <1>1, EmptyNarrows DEF text_strip
<1>2. CASE d # NOTEXT
  <2> DEFINE c == Content(h, d)
             kept == Max({0} \cup {i \in DOMAIN c : c[i] # Blank})
  <2>1. /\ d \in DOMAIN h.text
        /\ h.text[d].start \in Nat /\ h.text[d].length \in Nat
    BY <1>2, ReferenceFacts DEF Reference
  <2>2. DOMAIN c = 1 .. h.text[d].length
    BY <1>2, ContentIs DEF Length
  <2>3. {0} \cup {i \in DOMAIN c : c[i] # Blank} \in SUBSET (0 .. h.text[d].length)
    BY <2>1, <2>2
  <2>4. kept \in 0 .. h.text[d].length
    BY <2>1, <2>3, MaxUpTo
  <2> HIDE DEF kept
  <2>5. Narrows(h, Alias(h, h.text[d], h.text[d].start, kept), d)
    <3>1. kept \in Nat /\ h.text[d].start <= h.text[d].start
          /\ h.text[d].start + kept <= h.text[d].start + h.text[d].length
      BY <2>1, <2>4
    <3> QED
      BY <2>1, <3>1, PartNarrows
  <2> QED
    BY <1>2, <2>5 DEF text_strip, kept
<1> QED
  BY <1>1, <1>2

LEMMA SubNarrows ==
    ASSUME NEW h, Sound(h), NEW d \in Reference(h), NEW i \in Int, NEW n \in Int,
           SubInside(h, d, i, n)
    PROVE  Narrows(h, text_sub(h, d, i, n), d)
<1>1. CASE d = NOTEXT
  BY <1>1, EmptyNarrows DEF text_sub
<1>2. CASE d # NOTEXT
  <2> DEFINE start == h.text[d].start + (i - 1)
  <2>1. /\ d \in DOMAIN h.text
        /\ h.text[d].start \in Nat /\ h.text[d].length \in Nat
    BY <1>2, ReferenceFacts DEF Reference
  <2>2. /\ start \in Nat /\ n \in Nat /\ h.text[d].start <= start
        /\ start + n <= h.text[d].start + h.text[d].length
    BY <1>2, <2>1 DEF SubInside, Length
  <2> HIDE DEF start
  <2>3. Narrows(h, Alias(h, h.text[d], start, n), d)
    BY <2>1, <2>2, PartNarrows
  <2> QED
    BY <1>2, <2>3 DEF text_sub, start
<1> QED
  BY <1>1, <1>2

\* INTEXT moves the cursor of the text it reads from and sees what it passed.
LEMMA IntextOutcome ==
    ASSUME NEW h, Sound(h), NEW d \in Reference(h), NEW n \in Int
    PROVE  Outcome(h, text_intext(h, d, n))
<1>1. CASE d = NOTEXT
  BY <1>1, EmptyNarrows DEF text_intext, Narrows
<1>2. CASE d # NOTEXT
  <2> DEFINE t == h.text[d]
             taken == Min({Max({n, 0}), t.length - t.pos})
             k == [h EXCEPT !.text[d].pos = t.pos + taken]
             g == Alias(k, t, t.start + t.pos, taken)
  <2>1. /\ d \in DOMAIN h.text /\ t \in Descriptors /\ Fits(t, h.frame)
        /\ t.start \in Nat /\ t.length \in Nat /\ t.pos \in 0 .. t.length
    BY <1>2, ReferenceFacts DEF Reference
  <2>2. taken \in 0 .. t.length - t.pos
    <3>1. Max({n, 0}) \in Nat
      BY MaxOfTwo
    <3>2. t.length - t.pos \in Nat
      BY <2>1
    <3> HIDE DEF t
    <3> QED
      BY <3>1, <3>2, MinOfTwo
  <2> HIDE DEF taken
  <2>3. t.pos + taken \in 0 .. t.length
    BY <2>1, <2>2
  <2>4. Sound(k) /\ k.frame = h.frame /\ SameTexts(h, k)
    BY <2>1, <2>3, CursorMoves
  <2>5. Grows(h, k)
    BY <2>4, SameGrows
  <2> HIDE DEF k
  <2>6. /\ t.start + t.pos \in Nat /\ taken \in Nat
        /\ t.start <= t.start + t.pos
        /\ t.start + t.pos + taken <= t.start + t.length
        /\ t.start + t.pos + taken <= t.framelen
    BY <2>1, <2>2 DEF Fits, Descriptors
  <2>7. Sound(g) /\ Grows(k, g) /\ Views(k, g, t.frame, t.start + t.pos, taken)
    BY <2>1, <2>4, <2>6, AliasEffect
  <2> HIDE DEF g
  <2>8. PartOf(h, g)
    BY <2>1, <2>4, <2>6, <2>7 DEF PartOf, Views
  <2>9. Outcome(h, g)
    BY <2>5, <2>7, <2>8, GrowsTransitive DEF Outcome
  <2>10. text_intext(h, d, n) = g
    BY <1>2 DEF text_intext, g, k, taken
  <2> QED
    BY <2>9, <2>10
<1> QED
  BY <1>1, <1>2

LEMMA EvalOutcome ==
    ASSUME NEW h, Sound(h), \A x \in Var : var[x] \in Reference(h),
           NEW e \in Expression,
           e.op = "SUB" => SubInside(h, var[e.of], e.i, e.n)
    PROVE  Outcome(h, Eval(h, e))
<1>1. CASE e \in [op : {"NOTEXT"}]
  <2>1. e.op = "NOTEXT" /\ NOTEXT \in Reference(h)
    BY <1>1 DEF Reference
  <2> QED
    BY <2>1, VariableOutcome DEF Eval
<1>2. CASE e \in [op : {"constant"}, s : Literal]
  <2>1. e.op = "constant" /\ e.s \in Seq(Char)
    BY <1>2, TextsAssumption
  <2> QED
    BY <2>1, FreshOutcome DEF Eval, text_dup
<1>3. CASE e \in [op : {"BLANKS"}, n : {-1, 1, MaxLength}]
  <2>1. e.op = "BLANKS" /\ e.n \in Int
    BY <1>3, TextsAssumption
  <2> QED
    BY <2>1, BlanksOutcome DEF Eval
<1>4. CASE e \in [op : {"variable", "COPY", "STRIP", "MAIN"}, of : Var]
  <2>1. e.op \in {"variable", "COPY", "STRIP", "MAIN"} /\ var[e.of] \in Reference(h)
    BY <1>4
  <2>2. CASE e.op = "variable"
    BY <2>1, <2>2, VariableOutcome DEF Eval
  <2>3. CASE e.op = "COPY"
    BY <2>1, <2>3, CopyOutcome DEF Eval
  <2>4. CASE e.op = "STRIP"
    BY <2>1, <2>4, StripNarrows DEF Eval, Narrows
  <2>5. CASE e.op = "MAIN"
    BY <2>1, <2>5, MainOutcome DEF Eval
  <2> QED
    BY <2>1, <2>2, <2>3, <2>4, <2>5
<1>5. CASE e \in [op : {"SUB"}, of : Var, i : 0 .. MaxLength + 1, n : -1 .. MaxLength]
  <2>1. e.op = "SUB" /\ var[e.of] \in Reference(h) /\ e.i \in Int /\ e.n \in Int
    BY <1>5, TextsAssumption
  <2> QED
    BY <2>1, SubNarrows DEF Eval, Narrows
<1>6. CASE e \in [op : {"INTEXT"}, of : Var, n : {-1, 1, MaxLength}]
  <2>1. e.op = "INTEXT" /\ var[e.of] \in Reference(h) /\ e.n \in Int
    BY <1>6, TextsAssumption
  <2> QED
    BY <2>1, IntextOutcome DEF Eval
<1>7. CASE e \in [op : {"&"}, of : Var, and : Var]
  <2>1. e.op = "&" /\ var[e.of] \in Reference(h) /\ var[e.and] \in Reference(h)
    BY <1>7
  <2> QED
    BY <2>1, ConcatOutcome DEF Eval
<1> QED
  BY <1>1, <1>2, <1>3, <1>4, <1>5, <1>6, <1>7 DEF Expression

-----------------------------------------------------------------------------
(* Writing.                                                                *)

\* g is h with other characters in the window of d, and perhaps other cursors.
Rewrites(h, g, d) ==
    /\ SameTexts(h, g)
    /\ DOMAIN g.frame = DOMAIN h.frame
    /\ \A f \in DOMAIN h.frame :
          /\ Len(g.frame[f]) = Len(h.frame[f])
          /\ \A i \in DOMAIN h.frame[f] :
                \/ /\ f = h.text[d].frame
                   /\ i \in h.text[d].start + 1 .. h.text[d].start + h.text[d].length
                \/ g.frame[f][i] = h.frame[f][i]

\* s is written in the window of d, from its character at + 1 on.
OverwrittenIn(h, g, d, at, s) ==
    /\ Sound(g) /\ g.text = h.text /\ g.res = h.res
    /\ DOMAIN g.frame = DOMAIN h.frame
    /\ \A f \in DOMAIN h.frame :
          /\ Len(g.frame[f]) = Len(h.frame[f])
          /\ \A i \in DOMAIN h.frame[f] :
                g.frame[f][i] =
                   IF f = h.text[d].frame
                      /\ i \in h.text[d].start + at + 1 .. h.text[d].start + at + Len(s)
                   THEN s[i - (h.text[d].start + at)]
                   ELSE h.frame[f][i]

LEMMA OverwrittenIs ==
    ASSUME NEW h, Sound(h), NEW d \in DOMAIN h.text, NEW at \in Nat, NEW s \in Seq(Char),
           at + Len(s) <= h.text[d].length
    PROVE  OverwrittenIn(h, Overwritten(h, h.text[d].frame, h.text[d].start + at, s),
                         d, at, s)
<1> DEFINE f == h.text[d].frame
           a == h.text[d].start + at
           c == h.frame[f]
           w == [i \in DOMAIN c |-> IF i \in a + 1 .. a + Len(s) THEN s[i - a] ELSE c[i]]
           g == Overwritten(h, f, a, s)
<1>1. h = [frame |-> h.frame, text |-> h.text, res |-> h.res]
  BY DEF Sound
<1>2. /\ g.frame = [h.frame EXCEPT ![f] = w]
      /\ g.text = h.text /\ g.res = h.res
      /\ g = [frame |-> g.frame, text |-> g.text, res |-> g.res]
  BY <1>1 DEF Overwritten
<1>3. /\ f \in DOMAIN h.frame /\ c \in Seq(Char) /\ a \in Nat
  BY ReferenceFacts DEF Reference, Fits
<1> HIDE DEF c, a, f
<1>4. /\ w \in Seq(Char) /\ Len(w) = Len(c) /\ DOMAIN w = DOMAIN c
      /\ \A i \in DOMAIN c : w[i] = IF i \in a + 1 .. a + Len(s) THEN s[i - a] ELSE c[i]
  <2>1. \A i \in 1 .. Len(c) : c[i] \in Char
    BY <1>3
  <2>2. \A i \in a + 1 .. a + Len(s) : s[i - a] \in Char
    BY <1>3
  <2>3. DOMAIN c = 1 .. Len(c) /\ Len(c) \in Nat
    BY <1>3
  <2> QED
    BY <2>1, <2>2, <2>3
<1> HIDE DEF w, g
<1>5. /\ DOMAIN g.frame = DOMAIN h.frame /\ g.frame[f] = w
      /\ g.frame \in [DOMAIN g.frame -> Seq(Char)]
      /\ \A b \in DOMAIN h.frame \ {f} : g.frame[b] = h.frame[b]
  BY <1>2, <1>3, <1>4 DEF Sound
<1>6. \A b \in DOMAIN h.frame : Len(g.frame[b]) = Len(h.frame[b])
  BY <1>4, <1>5 DEF c
<1>7. \A b \in DOMAIN g.text : Fits(g.text[b], g.frame)
  BY <1>2, <1>5, <1>6 DEF Sound, Fits
<1>8. Sound(g)
  BY <1>2, <1>5, <1>7 DEF Sound
<1>9. \A b \in DOMAIN h.frame : \A i \in DOMAIN h.frame[b] :
         g.frame[b][i] = IF b = f /\ i \in a + 1 .. a + Len(s)
                         THEN s[i - a] ELSE h.frame[b][i]
  BY <1>4, <1>5 DEF c
<1>10. OverwrittenIn(h, g, d, at, s)
  BY <1>2, <1>5, <1>6, <1>8, <1>9 DEF OverwrittenIn, f, a
<1> QED
  BY <1>10 DEF g, f, a

\* Character j of the text at p of frame f, after n characters were written.
WrittenAt(h, g, f, p, at, s, n, j) ==
    p + j \in DOMAIN h.frame[f] =>
        g.frame[f][p + j] = IF at < j /\ j <= at + n THEN s[j - at] ELSE h.frame[f][p + j]

LEMMA OverwrittenAt ==
    ASSUME NEW h, Sound(h), NEW d \in DOMAIN h.text, NEW at \in Nat, NEW s \in Seq(Char),
           NEW g, OverwrittenIn(h, g, d, at, s)
    PROVE  \A j \in Nat : WrittenAt(h, g, h.text[d].frame, h.text[d].start, at, s, Len(s), j)
<1>1. PICK f \in DOMAIN h.frame, p \in Nat, n \in Nat :
         f = h.text[d].frame /\ p = h.text[d].start /\ n = Len(s)
  BY ReferenceFacts DEF Reference, Fits
<1> SUFFICES ASSUME NEW j \in Nat, p + j \in DOMAIN h.frame[f]
             PROVE  g.frame[f][p + j] =
                       IF at < j /\ j <= at + n THEN s[j - at] ELSE h.frame[f][p + j]
  BY <1>1 DEF WrittenAt
<1>2. PICK i : i = p + j
  OBVIOUS
<1>3. g.frame[f][i] =
         IF i \in p + at + 1 .. p + at + n THEN s[i - (p + at)] ELSE h.frame[f][i]
  BY <1>1, <1>2 DEF OverwrittenIn
<1>4. i \in p + at + 1 .. p + at + n <=> at < j /\ j <= at + n
  BY <1>2
<1>5. i - (p + at) = j - at
  BY <1>2
<1> QED
  BY <1>2, <1>3, <1>4, <1>5

LEMMA OverwrittenRewrites ==
    ASSUME NEW h, Sound(h), NEW d \in DOMAIN h.text, NEW at \in Nat, NEW s \in Seq(Char),
           at + Len(s) <= h.text[d].length, NEW g, OverwrittenIn(h, g, d, at, s)
    PROVE  Rewrites(h, g, d)
<1>1. h.text[d].start \in Nat /\ h.text[d].length \in Nat
  BY ReferenceFacts DEF Reference
<1>2. PICK p \in Nat, l \in Nat, n \in Nat :
         p = h.text[d].start /\ l = h.text[d].length /\ n = Len(s) /\ at + n <= l
  BY <1>1
<1>3. ASSUME NEW i \in p + at + 1 .. p + at + n PROVE i \in p + 1 .. p + l
  BY <1>2, SMTT(30)
<1> QED
  BY <1>2, <1>3 DEF OverwrittenIn, Rewrites, SameTexts, SameWindow

\* What memcpy may take from n characters of the text e on its way to d: where
\* it makes no difference, the characters themselves.
LEMMA MovedIs ==
    ASSUME NEW h, Sound(h), NEW d \in DOMAIN h.text, NEW e \in DOMAIN h.text,
           NEW n \in Nat \ {0}, n <= h.text[d].length, n <= h.text[e].length,
           NEW s \in Moved(h, h.text[d].frame, h.text[d].start,
                           h.text[e].frame, h.text[e].start, n)
    PROVE  /\ s \in Seq(Char) /\ Len(s) = n
           /\ \/ h.text[d].frame # h.text[e].frame
              \/ h.text[d].start - h.text[e].start \notin 1 .. n - 1
                 /\ h.text[e].start - h.text[d].start \notin 1 .. n - 1
              => \A i \in 1 .. n : s[i] = Content(h, e)[i]
<1> DEFINE from == h.text[e].start
           gap  == h.text[d].start - from
           c    == h.frame[h.text[e].frame]
           one  == [i \in 1 .. n |-> c[from + i]]
           up   == [i \in 1 .. n |-> c[from + (((i - 1) % gap) + 1)]]
           down == [i \in 1 .. n |-> c[from + (n - ((n - i) % (-gap)))]]
           same == h.text[d].frame = h.text[e].frame
<1>1. \/ s = one
      \/ same /\ gap \in 1 .. n - 1 /\ s = up
      \/ same /\ -gap \in 1 .. n - 1 /\ s = down
  BY DEF Moved
<1>2. /\ c \in Seq(Char) /\ from \in Nat /\ gap \in Int /\ from + n <= Len(c)
      /\ -gap = h.text[e].start - h.text[d].start
  <2>1. PICK q \in Nat : q = h.text[d].start
    BY ReferenceFacts DEF Reference
  <2>2. /\ h.text[e] \in Descriptors /\ Fits(h.text[e], h.frame)
        /\ c \in Seq(Char) /\ from \in Nat /\ h.text[e].length \in Nat
    BY ReferenceFacts DEF Reference
  <2>3. from + h.text[e].length <= Len(c)
    BY <2>2 DEF Fits
  <2>4. PICK r \in Nat, l \in Nat, k \in Nat :
           r = from /\ l = h.text[e].length /\ k = Len(c)
    BY <2>2
  <2>5. gap = q - r /\ r + n <= k
    <3>1. gap = q - r /\ r + l <= k
      BY <2>1, <2>3, <2>4
    <3>2. n <= l
      BY <2>4
    <3> QED
      BY <3>1, <3>2
  <2>6. q - r \in Int /\ -(q - r) = r - q
    OBVIOUS
  <2> QED
    BY <2>1, <2>2, <2>4, <2>5, <2>6
<1>3. \A i \in 1 .. n : one[i] = Content(h, e)[i]
  <2>1. e # NOTEXT /\ n <= Length(h, e)
    BY ReferenceFacts DEF Length
  <2>2. \A i \in 1 .. n : i \in 1 .. Length(h, e)
    BY <2>1, ContentIs DEF Reference
  <2> QED
    BY <2>1, <2>2, ContentIs DEF Reference
<1> HIDE DEF c, gap, from, same
<1>4. \A k \in 1 .. n : c[from + k] \in Char
  BY <1>2
<1>5. ASSUME gap \in 1 .. n - 1, NEW i \in 1 .. n
      PROVE  ((i - 1) % gap) + 1 \in 1 .. n
  <2>1. (i - 1) % gap \in 0 .. gap - 1
    BY <1>5
  <2> QED
    BY <1>5, <2>1
<1>6. ASSUME -gap \in 1 .. n - 1, NEW i \in 1 .. n
      PROVE  n - ((n - i) % (-gap)) \in 1 .. n
  <2>0. PICK g \in 1 .. n - 1 : g = -gap
    BY <1>6
  <2>1. (n - i) % g \in 0 .. g - 1
    BY <2>0
  <2>2. n - ((n - i) % g) \in 1 .. n
    BY <2>0, <2>1
  <2> QED
    BY <2>0, <2>2
<1>7. s \in [1 .. n -> Char]
  <2>1. CASE s = one
    BY <1>4, <2>1
  <2>2. CASE gap \in 1 .. n - 1 /\ s = up
    BY <1>4, <1>5, <2>2
  <2>3. CASE -gap \in 1 .. n - 1 /\ s = down
    BY <1>4, <1>6, <2>3
  <2> QED
    BY <1>1, <2>1, <2>2, <2>3
<1>8. s \in Seq(Char) /\ Len(s) = n
  BY <1>7
<1>9. ASSUME ~ same \/ (gap \notin 1 .. n - 1 /\ -gap \notin 1 .. n - 1)
      PROVE  s = one
  BY <1>1, <1>9
<1> QED
  BY <1>2, <1>3, <1>8, <1>9 DEF same, gap, from

\* What := leaves in a text: the characters of s, and blanks up to its end.
Filled(h, a, d, s) ==
    \A i \in 1 .. h.text[d].length :
        a.frame[h.text[d].frame][h.text[d].start + i] =
            IF i <= Len(s) THEN s[i] ELSE Blank

AssignedTo(h, a, d, e) ==
    /\ Sound(a) /\ a.text = h.text /\ a.res = d /\ Rewrites(h, a, d)
    /\ \E s \in Seq(Char) :
          /\ Len(s) = Min({Length(h, e), h.text[d].length})
          /\ s # <<>> => s \in Moved(h, h.text[d].frame, h.text[d].start,
                                     h.text[e].frame, h.text[e].start, Len(s))
          /\ Filled(h, a, d, s)

LEMMA AssignIs ==
    ASSUME NEW h, Sound(h), NEW d \in DOMAIN h.text, NEW e \in Reference(h),
           NEW a \in text_assign(h, d, e)
    PROVE  AssignedTo(h, a, d, e)
<1>1. PICK f \in DOMAIN h.frame, p \in Nat, l \in Nat, m \in Nat :
         /\ f = h.text[d].frame /\ p = h.text[d].start /\ l = h.text[d].length
         /\ p + l <= m /\ DOMAIN h.frame[f] = 1 .. m
  <2>1. PICK f : f = h.text[d].frame
    OBVIOUS
  <2>2. PICK m \in Nat : m = Len(h.frame[f]) /\ DOMAIN h.frame[f] = 1 .. m
    BY <2>1, ReferenceFacts DEF Reference
  <2> QED
    BY <2>1, <2>2, ReferenceFacts DEF Reference, Fits
<1>2. PICK n \in Nat :
         n = Min({Length(h, e), l}) /\ n <= Length(h, e) /\ n <= l
  <2>1. PICK k \in Nat : k = Length(h, e)
    BY ContentIs
  <2>2. Min({k, l}) = IF k <= l THEN k ELSE l
    BY MinOfTwo
  <2> QED
    BY <2>1, <2>2
<1>0. d # NOTEXT
  BY ReferenceFacts
<1> DEFINE copied == IF n = 0 THEN {h}
                     ELSE memcpy(h, f, p, h.text[e].frame, h.text[e].start, n)
           z == Blanks(l - n)
           b(c) == Overwritten(c, f, p + n, z)
<1>3. PICK c \in copied : a = Same(b(c), d)
  BY <1>0, <1>1, <1>2 DEF text_assign
<1>4. ASSUME n # 0
      PROVE  e \in DOMAIN h.text /\ n <= h.text[e].length
  <2>1. e # NOTEXT
    BY <1>2, <1>4 DEF Length
  <2> QED
    BY <1>2, <2>1 DEF Length, Reference
<1>5. PICK s \in Seq(Char) :
         /\ Len(s) = n
         /\ n # 0 => s \in Moved(h, f, p, h.text[e].frame, h.text[e].start, n)
         /\ OverwrittenIn(h, c, d, 0, s)
  <2>1. CASE n = 0
    <3>1. c = h
      BY <1>3, <2>1
    <3>2. <<>> \in Seq(Char) /\ Len(<<>>) = 0
      OBVIOUS
    <3>3. OverwrittenIn(h, h, d, 0, <<>>)
      BY <1>1, <3>2 DEF OverwrittenIn, Sound
    <3> QED
      BY <2>1, <3>1, <3>2, <3>3
  <2>2. CASE n # 0
    <3>1. PICK s \in Moved(h, f, p, h.text[e].frame, h.text[e].start, n) :
             c = Overwritten(h, f, p, s)
      BY <1>3, <2>2 DEF memcpy
    <3>2. s \in Seq(Char) /\ Len(s) = n
      BY <1>1, <1>2, <1>4, <2>2, <3>1, MovedIs
    <3>3. OverwrittenIn(h, Overwritten(h, f, p + 0, s), d, 0, s)
      <4>1. 0 + Len(s) <= h.text[d].length
        BY <1>1, <1>2, <3>2
      <4> QED
        BY <1>1, <3>2, <4>1, OverwrittenIs
    <3>4. p + 0 = p
      OBVIOUS
    <3> QED
      BY <3>1, <3>2, <3>3, <3>4
  <2> QED
    BY <2>1, <2>2
<1> HIDE DEF copied
<1>6. /\ Sound(c) /\ c.text = h.text /\ DOMAIN c.frame = DOMAIN h.frame
      /\ Rewrites(h, c, d)
  <2>1. 0 + Len(s) <= h.text[d].length
    BY <1>1, <1>2, <1>5
  <2>2. Rewrites(h, c, d)
    BY <1>5, <2>1, OverwrittenRewrites
  <2> QED
    BY <1>5, <2>2 DEF OverwrittenIn
<1>7. /\ z \in Seq(Char) /\ Len(z) = l - n
      /\ \A i \in 1 .. l - n : z[i] = Blank
  <2>1. l - n \in Nat
    BY <1>2
  <2> QED
    BY <2>1, BlanksAre
<1> HIDE DEF z
<1>8. OverwrittenIn(c, b(c), d, n, z) /\ Rewrites(c, b(c), d)
  <2>1. /\ c.text[d].frame = f /\ c.text[d].start = p /\ c.text[d].length = l
        /\ d \in DOMAIN c.text /\ n + Len(z) <= c.text[d].length
    BY <1>1, <1>2, <1>6, <1>7
  <2>2. OverwrittenIn(c, b(c), d, n, z)
    BY <1>6, <1>7, <2>1, OverwrittenIs
  <2> HIDE DEF b
  <2> QED
    BY <1>6, <1>7, <2>1, <2>2, OverwrittenRewrites
<1> HIDE DEF b
<1>9. PICK g : g = b(c)
  OBVIOUS
<1>10. Sound(g) /\ g.text = h.text
  BY <1>6, <1>8, <1>9 DEF OverwrittenIn
<1>11. Sound(a) /\ a.text = h.text /\ a.res = d /\ a.frame = g.frame
  BY <1>3, <1>9, <1>10, SameEffect
<1>12. Rewrites(h, a, d)
  BY <1>6, <1>8, <1>9, <1>10, <1>11 DEF Rewrites, SameTexts, SameWindow, Sound
<1>13. ASSUME NEW i \in 1 .. l
       PROVE  a.frame[f][p + i] = IF i <= Len(s) THEN s[i] ELSE Blank
  <2>1. p + i \in DOMAIN h.frame[f]
    BY <1>1
  <2>2. /\ f \in DOMAIN c.frame /\ p + i \in DOMAIN c.frame[f]
        /\ c.frame[f][p + i] = IF i <= n THEN s[i] ELSE h.frame[f][p + i]
    <3>1. DOMAIN c.frame[f] = DOMAIN h.frame[f]
      <4>1. c.frame[f] \in Seq(Char) /\ h.frame[f] \in Seq(Char) /\ Len(c.frame[f]) = Len(h.frame[f])
        BY <1>5, <1>6 DEF OverwrittenIn, Sound
      <4> QED
        BY <4>1
    <3>2. c.frame[f][p + i] = IF 0 < i /\ i <= 0 + n THEN s[i - 0] ELSE h.frame[f][p + i]
      <4>1. WrittenAt(h, c, f, p, 0, s, n, i)
        BY <1>1, <1>5, OverwrittenAt
      <4> QED
        BY <2>1, <4>1 DEF WrittenAt
    <3> QED
      BY <1>6, <2>1, <3>1, <3>2
  <2>3. g.frame[f][p + i] = IF i <= n THEN c.frame[f][p + i] ELSE z[i - n]
    <3>1. PICK k \in Nat : k = Len(z) /\ k = l - n
      BY <1>2, <1>7
    <3>2. OverwrittenIn(c, g, d, n, z) /\ f = c.text[d].frame /\ p = c.text[d].start
      BY <1>1, <1>6, <1>8, <1>9
    <3>3. g.frame[f][p + i] = IF n < i /\ i <= n + k THEN z[i - n] ELSE c.frame[f][p + i]
      <4>1. WrittenAt(c, g, f, p, n, z, k, i)
        <5>1. d \in DOMAIN c.text /\ Sound(c) /\ z \in Seq(Char)
          BY <1>6, <1>7
        <5>2. \A j \in Nat : WrittenAt(c, g, c.text[d].frame, c.text[d].start, n, z, Len(z), j)
          BY <3>2, <5>1, OverwrittenAt
        <5> QED
          BY <3>1, <3>2, <5>2
      <4> QED
        BY <2>2, <4>1 DEF WrittenAt
    <3> QED
      BY <3>1, <3>3
  <2>4. ~ (i <= n) => z[i - n] = Blank
    <3>1. ~ (i <= n) => i - n \in 1 .. l - n
      OBVIOUS
    <3> QED
      BY <1>7, <3>1
  <2> QED
    BY <1>5, <1>11, <2>2, <2>3, <2>4
<1>14. s # <<>> => n # 0
  BY <1>5
<1> QED
  BY <1>1, <1>2, <1>5, <1>11, <1>12, <1>13, <1>14 DEF Filled, AssignedTo

-----------------------------------------------------------------------------
(* Statements that write characters or move a cursor.                      *)

\* The characters of d and cursors may change, and nothing else.
Edits(h, g, d) ==
    /\ Sound(g)
    /\ IF d = NOTEXT THEN g = h ELSE Rewrites(h, g, d)

LEMMA RewritesTransitive ==
    ASSUME NEW h, NEW c, NEW g, NEW d \in DOMAIN h.text, Sound(h), Sound(c),
           Rewrites(h, c, d), Rewrites(c, g, d)
    PROVE  Rewrites(h, g, d)
<1>1. SameTexts(h, g) /\ DOMAIN g.frame = DOMAIN h.frame
  BY DEF Rewrites, SameTexts, SameWindow
<1>2. SameWindow(c.text[d], h.text[d])
  BY DEF Rewrites, SameTexts
<1>3. ASSUME NEW f \in DOMAIN h.frame
      PROVE  /\ Len(g.frame[f]) = Len(h.frame[f])
             /\ \A i \in DOMAIN h.frame[f] :
                   \/ /\ f = h.text[d].frame
                      /\ i \in h.text[d].start + 1 .. h.text[d].start + h.text[d].length
                   \/ g.frame[f][i] = h.frame[f][i]
  <2>1. f \in DOMAIN c.frame /\ Len(c.frame[f]) = Len(h.frame[f])
    BY DEF Rewrites
  <2>2. DOMAIN c.frame[f] = DOMAIN h.frame[f]
    <3>1. c.frame[f] \in Seq(Char) /\ h.frame[f] \in Seq(Char)
      BY <2>1 DEF Sound
    <3> QED
      BY <2>1, <3>1
  <2> QED
    BY <1>2, <2>1, <2>2 DEF Rewrites, SameWindow
<1> QED
  BY <1>1, <1>3 DEF Rewrites

LEMMA CursorEdits ==
    ASSUME NEW h, Sound(h), NEW d \in DOMAIN h.text, NEW p \in 0 .. h.text[d].length
    PROVE  Edits(h, [h EXCEPT !.text[d].pos = p], d)
<1>1. PICK g : g = [h EXCEPT !.text[d].pos = p]
  OBVIOUS
<1>2. Sound(g) /\ g.frame = h.frame /\ SameTexts(h, g)
  BY <1>1, CursorMoves
<1>3. Rewrites(h, g, d)
  BY <1>2 DEF Rewrites
<1> QED
  BY <1>1, <1>2, <1>3, ReferenceFacts DEF Edits

\* Characters are written, and then the cursor is set.
LEMMA WriteAndMove ==
    ASSUME NEW h, Sound(h), NEW d \in DOMAIN h.text, NEW at \in Nat, NEW s \in Seq(Char),
           at + Len(s) <= h.text[d].length, NEW p \in 0 .. h.text[d].length,
           NEW g, g = [Overwritten(h, h.text[d].frame, h.text[d].start + at, s)
                          EXCEPT !.text[d].pos = p]
    PROVE  Edits(h, g, d)
<1>1. PICK c : c = Overwritten(h, h.text[d].frame, h.text[d].start + at, s)
  OBVIOUS
<1>2. OverwrittenIn(h, c, d, at, s)
  BY <1>1, OverwrittenIs
<1>3. Rewrites(h, c, d)
  BY <1>2, OverwrittenRewrites
<1>4. Sound(c) /\ c.text = h.text
  BY <1>2 DEF OverwrittenIn
<1>5. g = [c EXCEPT !.text[d].pos = p]
  BY <1>1
<1>6. Edits(c, g, d)
  <2>1. d \in DOMAIN c.text /\ p \in 0 .. c.text[d].length
    BY <1>4
  <2> QED
    BY <1>4, <1>5, <2>1, CursorEdits, SMTT(30)
<1>7. d # NOTEXT
  BY ReferenceFacts
<1>8. Sound(g) /\ Rewrites(h, g, d)
  BY <1>3, <1>4, <1>6, <1>7, RewritesTransitive DEF Edits
<1> QED
  BY <1>7, <1>8 DEF Edits

LEMMA SetposEdits ==
    ASSUME NEW h, Sound(h), NEW d \in Reference(h), NEW p \in Int
    PROVE  Edits(h, text_setpos(h, d, p), d)
<1>1. CASE d = NOTEXT
  BY <1>1 DEF text_setpos, Edits
<1>2. CASE d # NOTEXT
  <2>1. PICK k : k = IF p - 1 \in 0 .. h.text[d].length THEN p - 1 ELSE h.text[d].length
    OBVIOUS
  <2>2. d \in DOMAIN h.text /\ k \in 0 .. h.text[d].length
    BY <1>2, <2>1, ReferenceFacts
  <2>3. text_setpos(h, d, p) = [h EXCEPT !.text[d].pos = k]
    BY <1>2, <2>1 DEF text_setpos
  <2> QED
    BY <2>2, <2>3, CursorEdits
<1> QED
  BY <1>1, <1>2

LEMMA UnchangedEdits ==
    ASSUME NEW h, Sound(h), NEW d \in Reference(h)
    PROVE  Edits(h, h, d)
BY DEF Edits, Rewrites, SameTexts, SameWindow

LEMMA GetcharEdits ==
    ASSUME NEW h, Sound(h), NEW d \in Reference(h)
    PROVE  Edits(h, text_getchar(h, d), d)
<1>1. CASE d = NOTEXT \/ h.text[d].pos >= h.text[d].length
  BY <1>1, UnchangedEdits DEF text_getchar
<1>2. CASE ~ (d = NOTEXT \/ h.text[d].pos >= h.text[d].length)
  <2>1. PICK k : k = h.text[d].pos + 1
    OBVIOUS
  <2>2. d \in DOMAIN h.text /\ k \in 0 .. h.text[d].length
    BY <1>2, <2>1, ReferenceFacts
  <2>3. text_getchar(h, d) = [h EXCEPT !.text[d].pos = k]
    BY <1>2, <2>1 DEF text_getchar
  <2> QED
    BY <2>2, <2>3, CursorEdits
<1> QED
  BY <1>1, <1>2

LEMMA PutcharEdits ==
    ASSUME NEW h, Sound(h), NEW d \in Reference(h), NEW c \in Char
    PROVE  Edits(h, text_putchar(h, d, c), d)
<1>1. CASE d = NOTEXT \/ h.text[d].pos >= h.text[d].length
  BY <1>1, UnchangedEdits DEF text_putchar
<1>2. CASE ~ (d = NOTEXT \/ h.text[d].pos >= h.text[d].length)
  <2>1. PICK at \in Nat : at = h.text[d].pos
    BY <1>2, ReferenceFacts
  <2>2. d \in DOMAIN h.text /\ at + 1 \in 0 .. h.text[d].length /\ at + 1 <= h.text[d].length
    BY <1>2, <2>1, ReferenceFacts
  <2>3. <<c>> \in Seq(Char) /\ Len(<<c>>) = 1
    OBVIOUS
  <2>4. PICK o : o = Overwritten(h, h.text[d].frame, h.text[d].start + at, <<c>>)
    OBVIOUS
  <2>5. OverwrittenIn(h, o, d, at, <<c>>)
    BY <2>2, <2>3, <2>4, OverwrittenIs
  <2>6. text_putchar(h, d, c) = [o EXCEPT !.text[d].pos = at + 1]
    <3>1. o.text[d].pos = at
      BY <2>1, <2>5 DEF OverwrittenIn
    <3> QED
      BY <1>2, <2>1, <2>4, <3>1 DEF text_putchar
  <2>7. PICK g : g = text_putchar(h, d, c)
    OBVIOUS
  <2>8. /\ at + Len(<<c>>) <= h.text[d].length
        /\ g = [Overwritten(h, h.text[d].frame, h.text[d].start + at, <<c>>)
                   EXCEPT !.text[d].pos = at + 1]
    BY <2>2, <2>3, <2>4, <2>6, <2>7
  <2>9. Edits(h, g, d)
    BY <2>2, <2>3, <2>8, WriteAndMove
  <2> QED
    BY <2>7, <2>9
<1> QED
  BY <1>1, <1>2

LEMMA EditedIs ==
    ASSUME NEW item \in Seq(Char), NEW n \in Nat
    PROVE  Edited(item, n) \in Seq(Char) /\ Len(Edited(item, n)) = n
<1>1. CASE Len(item) > n
  <2>1. [i \in 1 .. n |-> Asterisk] \in Seq(Char) /\ Len([i \in 1 .. n |-> Asterisk]) = n
    BY TextsAssumption
  <2> QED
    BY <1>1, <2>1 DEF Edited
<1>2. CASE ~ (Len(item) > n)
  <2>1. n - Len(item) \in Nat
    BY <1>2
  <2>2. Blanks(n - Len(item)) \in Seq(Char) /\ Len(Blanks(n - Len(item))) = n - Len(item)
    BY <2>1, BlanksAre
  <2> QED
    BY <1>2, <2>2 DEF Edited
<1> QED
  BY <1>1, <1>2

LEMMA PutEdits ==
    ASSUME NEW h, Sound(h), NEW d \in Reference(h), NEW item \in Item
    PROVE  Edits(h, text_put(h, d, item), d)
<1>1. CASE d = NOTEXT
  BY <1>1, UnchangedEdits DEF text_put
<1>2. CASE d # NOTEXT
  <2>1. PICK n \in Nat, p \in Nat : n = h.text[d].length /\ p = h.text[d].start
    BY <1>2, ReferenceFacts
  <2>2. PICK s \in Seq(Char) : s = Edited(item, n) /\ Len(s) = n
    BY TextsAssumption, EditedIs
  <2>3. d \in DOMAIN h.text
    BY <1>2 DEF Reference
  <2>4. text_put(h, d, item) =
           [Overwritten(h, h.text[d].frame, h.text[d].start + 0, s) EXCEPT !.text[d].pos = n]
    <3>1. h.text[d].start + 0 = h.text[d].start
      BY <2>1
    <3> QED
      BY <1>2, <2>1, <2>2, <3>1 DEF text_put
  <2>5. 0 + Len(s) <= h.text[d].length /\ n \in 0 .. h.text[d].length
    BY <2>1, <2>2
  <2>6. PICK g : g = text_put(h, d, item)
    OBVIOUS
  <2>7. g = [Overwritten(h, h.text[d].frame, h.text[d].start + 0, s) EXCEPT !.text[d].pos = n]
    BY <2>4, <2>6
  <2>8. Edits(h, g, d)
    BY <2>3, <2>5, <2>7, WriteAndMove
  <2> QED
    BY <2>6, <2>8
<1> QED
  BY <1>1, <1>2

LEMMA RecaseEdits ==
    ASSUME NEW h, Sound(h), NEW d \in Reference(h), NEW table, ClosedUnder(table)
    PROVE  Edits(h, text_recase(h, d, table), d)
<1>1. CASE d = NOTEXT
  BY <1>1, UnchangedEdits DEF text_recase
<1>2. CASE d # NOTEXT
  <2>1. PICK n \in Nat, p \in Nat : n = h.text[d].length /\ p = h.text[d].start
    BY <1>2, ReferenceFacts
  <2>2. PICK c \in Seq(Char) : c = Content(h, d) /\ Len(c) = n
    BY <1>2, <2>1, ContentIs DEF Length
  <2>3. PICK s \in Seq(Char) : s = Recased(c, table) /\ Len(s) = n
    <3>1. \A i \in 1 .. n : c[i] \in Char
      BY <2>2
    <3>2. DOMAIN c = 1 .. n
      BY <2>2
    <3>3. Recased(c, table) \in [1 .. n -> Char]
      BY <3>1, <3>2 DEF Recased, ClosedUnder
    <3> QED
      BY <3>3
  <2>4. d \in DOMAIN h.text
    BY <1>2 DEF Reference
  <2>5. text_recase(h, d, table) = Overwritten(h, h.text[d].frame, h.text[d].start + 0, s)
    <3>1. h.text[d].start + 0 = h.text[d].start
      BY <2>1
    <3> QED
      BY <1>2, <2>2, <2>3, <3>1 DEF text_recase
  <2>6. PICK g : g = text_recase(h, d, table)
    OBVIOUS
  <2>7. OverwrittenIn(h, g, d, 0, s) /\ 0 + Len(s) <= h.text[d].length
    BY <2>1, <2>3, <2>4, <2>5, <2>6, OverwrittenIs
  <2>8. Rewrites(h, g, d)
    BY <2>4, <2>7, OverwrittenRewrites
  <2>9. Sound(g)
    BY <2>7 DEF OverwrittenIn
  <2> QED
    BY <2>9, <1>2, <2>6, <2>8 DEF Edits
<1> QED
  BY <1>1, <1>2

-----------------------------------------------------------------------------
(* De-editing: a scan stops within the text.                               *)

LEMMA LeastUpTo ==
    ASSUME NEW n \in Nat, NEW S \in SUBSET (0 .. n), n \in S
    PROVE  Min(S) \in S
<1>1. S \in SUBSET Nat /\ S # {}
  OBVIOUS
<1> QED
  BY <1>1, MinNat

LEMMA RunEndIs ==
    ASSUME NEW C, NEW f \in Seq(C), NEW i \in 0 .. Len(f), NEW S
    PROVE  RunEnd(f, i, S) \in i .. Len(f)
<1> DEFINE T == {k \in i .. Len(f) : k = Len(f) \/ f[k + 1] \notin S}
<1>1. PICK n \in Nat : n = Len(f)
  OBVIOUS
<1>2. T \in SUBSET (0 .. n) /\ n \in T
  BY <1>1
<1>3. Min(T) \in T
  BY <1>2, LeastUpTo
<1> QED
  BY <1>3 DEF RunEnd

LEMMA SignEndIs ==
    ASSUME NEW C, NEW f \in Seq(C)
    PROVE  SignEnd(f) \in 0 .. Len(f)
<1>1. PICK i \in 0 .. Len(f) : i = RunEnd(f, 0, Space)
  <2>1. 0 \in 0 .. Len(f)
    OBVIOUS
  <2> QED
    BY <2>1, RunEndIs
<1>2. CASE i < Len(f) /\ f[i + 1] \in Sign
  <2>1. i + 1 \in 0 .. Len(f)
    BY <1>2
  <2>2. RunEnd(f, i + 1, Space) \in i + 1 .. Len(f)
    BY <2>1, RunEndIs
  <2> QED
    BY <1>1, <1>2, <2>2 DEF SignEnd
<1>3. CASE ~ (i < Len(f) /\ f[i + 1] \in Sign)
  BY <1>1, <1>3 DEF SignEnd
<1> QED
  BY <1>2, <1>3

LEMMA IntEndIs ==
    ASSUME NEW C, NEW f \in Seq(C)
    PROVE  IntEnd(f) \in 0 .. Len(f)
<1>1. SignEnd(f) \in 0 .. Len(f)
  BY SignEndIs
<1>2. RunEnd(f, SignEnd(f), Digit) \in SignEnd(f) .. Len(f)
  BY <1>1, RunEndIs
<1> QED
  BY <1>1, <1>2 DEF IntEnd

LEMMA FracEndIs ==
    ASSUME NEW C, NEW f \in Seq(C)
    PROVE  FracEnd(f) \in 0 .. Len(f)
<1>1. PICK from \in 0 .. Len(f) : from = SignEnd(f)
  BY SignEndIs
<1>2. PICK n \in Nat : n = Len(f)
  OBVIOUS
<1> DEFINE Goes(k) == \/ f[k + 1] \in Digit
                      \/ /\ f[k + 1] \in {Blank, Point}
                         /\ k > from
                         /\ k + 2 <= Len(f) /\ f[k + 2] \in Digit
           T == {k \in from .. Len(f) : k = Len(f) \/ ~ Goes(k)}
<1>3. T \in SUBSET (0 .. n) /\ n \in T
  <2> HIDE DEF Goes
  <2> QED
    BY <1>2
<1>4. Min(T) \in T
  BY <1>3, LeastUpTo
<1>5. FracEnd(f) = Min(T)
  BY <1>1 DEF FracEnd
<1> HIDE DEF T
<1> QED
  BY <1>2, <1>3, <1>4, <1>5

LEMMA StrtodIs ==
    ASSUME NEW C, NEW s \in Seq(C)
    PROVE  strtod(s) \in 0 .. Len(s)
<1> DEFINE T == {n \in 0 .. Len(s) : n = 0 \/ Numeral(SubSeq(s, 1, n))}
<1>1. PICK n \in Nat : n = Len(s)
  OBVIOUS
<1>2. T \in SUBSET (0 .. n) /\ T # {}
  <2>1. 0 \in T
    OBVIOUS
  <2> QED
    BY <1>1, <2>1
<1>3. strtod(s) = Max(T)
  BY DEF strtod
<1> HIDE DEF T
<1> QED
  BY <1>1, <1>2, <1>3, MaxUpTo

LEMMA RealEndIs ==
    ASSUME NEW C, NEW f \in Seq(C), HasReal(f)
    PROVE  RealEnd(f) \in 0 .. Len(f)
<1>1. PICK from \in Nat, n \in Nat : from = SignEnd(f) /\ n = Len(f) /\ from <= n
  BY SignEndIs
<1>2. PICK e \in Nat : e = RunEnd(f, from, RealChar) /\ from <= e /\ e <= n
  <2>1. from \in 0 .. Len(f)
    BY <1>1
  <2>2. RunEnd(f, from, RealChar) \in from .. Len(f)
    BY <2>1, RunEndIs
  <2> QED
    BY <1>1, <2>2
<1>3. PICK to \in Nat : to = Min({e, from + RealBuffer}) /\ from <= to /\ to <= n
  <2>1. from + RealBuffer \in Nat /\ from <= from + RealBuffer
    BY DEF RealBuffer
  <2>2. Min({e, from + RealBuffer}) = IF e <= from + RealBuffer THEN e ELSE from + RealBuffer
    BY <2>1, MinOfTwo
  <2> QED
    BY <1>2, <2>1, <2>2
<1>4. PICK s \in Seq(C), l \in Nat : s = RealText(f) /\ Len(s) = l /\ from + l <= n
  <2>1. RealText(f) = SubSeq(f, from + 1, to)
    BY <1>1, <1>2, <1>3 DEF RealText
  <2>2. PICK l \in Nat : to = from + l
    <3>1. to - from \in Nat /\ to = from + (to - from)
      BY <1>3
    <3> QED
      BY <3>1
  <2>3. SubSeq(f, from + 1, from + l) \in Seq(C) /\ Len(SubSeq(f, from + 1, from + l)) = l
    BY <1>1, <1>3, <2>2
  <2> QED
    BY <1>3, <2>1, <2>2, <2>3
<1>5. PICK k : k = IF Prepended(s) THEN 1 ELSE 0
  OBVIOUS
<1>6. k \in 0 .. 1
  BY <1>5
<1>7. Numbered(s) \in Seq(C \cup {"1"}) /\ Len(Numbered(s)) = l + k
  <2>1. CASE Prepended(s)
    <3>1. <<"1">> \o s \in Seq(C \cup {"1"}) /\ Len(<<"1">> \o s) = 1 + Len(s)
      <4>1. <<"1">> \in Seq(C \cup {"1"}) /\ s \in Seq(C \cup {"1"}) /\ Len(<<"1">>) = 1
        BY <1>4
      <4> QED
        BY <4>1
    <3> QED
      BY <1>4, <1>5, <2>1, <3>1 DEF Numbered
  <2>2. CASE ~ Prepended(s)
    BY <1>4, <1>5, <2>2 DEF Numbered
  <2> QED
    BY <2>1, <2>2
<1>8. PICK r \in Nat : r = strtod(Numbered(s)) /\ r <= l + k
  BY <1>4, <1>6, <1>7, StrtodIs
<1>9. r > 0
  BY <1>4, <1>8 DEF HasReal
<1>10. RealEnd(f) = from + r - k
  BY <1>1, <1>4, <1>5, <1>8 DEF RealEnd
<1>11. from + r - k \in 0 .. n
  BY <1>4, <1>6, <1>8, <1>9
<1> QED
  BY <1>1, <1>10, <1>11

-----------------------------------------------------------------------------
(* The invariant.                                                          *)

\* Only what a variable reaches is remembered.
Tidy ==
    /\ DOMAIN text = Live(var)
    /\ DOMAIN frame = FramesOf(Heap, var)

IInv == TypeOK /\ WindowsInside /\ Tidy

LEMMA ImageFinite ==
    ASSUME NEW S, NEW T, NEW f \in [S -> T], IsFiniteSet(S)
    PROVE  IsFiniteSet({f[x] : x \in S})
<1>1. f \in Surjection(S, {f[x] : x \in S})
  BY DEF Surjection
<1> QED
  BY <1>1, FS_Surjection

LEMMA LiveFinite ==
    ASSUME NEW T, NEW v \in [Var -> T]
    PROVE  IsFiniteSet(Live(v))
<1>1. IsFiniteSet({v[x] : x \in Var})
  BY ImageFinite, TextsAssumption
<1>2. Live(v) \in SUBSET {v[x] : x \in Var}
  BY DEF Live
<1> QED
  BY <1>1, <1>2, FS_Subset

LEMMA FramesFinite ==
    ASSUME NEW T, NEW v \in [Var -> T], NEW h
    PROVE  IsFiniteSet(FramesOf(h, v))
<1>1. PICK D, F : D = Live(v) /\ F = FramesOf(h, v)
  OBVIOUS
<1>2. PICK f \in [D -> F] : F = {f[d] : d \in D}
  <2> DEFINE g == [d \in D |-> h.text[d].frame]
  <2>1. g \in [D -> F] /\ F = {g[d] : d \in D}
    BY <1>1 DEF FramesOf
  <2> QED
    BY <2>1
<1>3. IsFiniteSet(D)
  BY <1>1, LiveFinite
<1>4. f \in Surjection(D, F)
  BY <1>2 DEF Surjection
<1> QED
  BY <1>1, <1>3, <1>4, FS_Surjection

\* The memory between two statements is sound.
LEMMA HeapSound ==
    ASSUME IInv
    PROVE  /\ Sound(Heap) /\ Heap.frame = frame /\ Heap.text = text
           /\ \A x \in Var : var[x] \in Reference(Heap)
<1>1. Heap.frame = frame /\ Heap.text = text /\ Heap.res = NOTEXT
      /\ Heap = [frame |-> Heap.frame, text |-> Heap.text, res |-> Heap.res]
  BY DEF Heap
<1>2. IsFiniteSet(DOMAIN text) /\ IsFiniteSet(DOMAIN frame)
  BY LiveFinite, FramesFinite DEF IInv, Tidy, TypeOK
<1>3. \A d \in DOMAIN text : Fits(text[d], frame)
  BY DEF IInv, WindowsInside, Fits
<1>4. Sound(Heap)
  BY <1>1, <1>2, <1>3 DEF Sound, IInv, TypeOK, Descriptors
<1> QED
  BY <1>1, <1>4 DEF IInv, TypeOK, Reference

LEMMA SettleIInv ==
    ASSUME NEW h, Sound(h), NEW v \in [Var -> Reference(h)], Settle(h, v)
    PROVE  /\ IInv'
           /\ DOMAIN text' = Live(v)
           /\ \A d \in Live(v) : d \in DOMAIN h.text /\ text'[d] = h.text[d]
           /\ DOMAIN frame' = FramesOf(h, v)
           /\ \A f \in FramesOf(h, v) : f \in DOMAIN h.frame /\ frame'[f] = h.frame[f]
<1> DEFINE seen == FramesOf(h, v)
<1>1. /\ frame' = [f \in seen |-> h.frame[f]]
      /\ text' = [d \in Live(v) |-> h.text[d]]
      /\ var' = v /\ status' = "running"
  BY DEF Settle, Restrict
<1>2. /\ DOMAIN text' = Live(v) /\ Live(v) \subseteq DOMAIN h.text
      /\ \A d \in Live(v) : text'[d] = h.text[d] /\ h.text[d] \in Descriptors
                            /\ Fits(h.text[d], h.frame)
  BY <1>1, ReferenceFacts DEF Live, Reference
<1>3. seen \subseteq DOMAIN h.frame
  BY <1>2 DEF FramesOf, Fits
<1>4. /\ DOMAIN frame' = seen
      /\ \A f \in seen : frame'[f] = h.frame[f] /\ h.frame[f] \in Seq(Char)
  BY <1>1, <1>3 DEF Sound
<1>5. TypeOK'
  <2>1. frame' \in [DOMAIN frame' -> Seq(Char)] /\ DOMAIN frame' \subseteq Address
    BY <1>1, <1>3, <1>4 DEF Sound
  <2>2. text' \in [DOMAIN text' -> Descriptors] /\ DOMAIN text' \subseteq Address
    BY <1>1, <1>2 DEF Sound
  <2>3. v \in [Var -> Live(v) \cup {NOTEXT}]
    BY DEF Live
  <2> QED
    BY <1>1, <1>2, <2>1, <2>2, <2>3 DEF TypeOK, Descriptors
<1>6. \A d \in Live(v) : h.text[d].frame \in seen
  BY DEF FramesOf
<1>7. WindowsInside'
  BY <1>2, <1>4, <1>6 DEF WindowsInside, Fits
<1>8. Tidy'
  <2>1. FramesOf(Heap, var)' = {text'[d].frame : d \in Live(v)}
    BY <1>1 DEF FramesOf, Heap, Live
  <2>2. {text'[d].frame : d \in Live(v)} = seen
    BY <1>2 DEF FramesOf
  <2>3. Live(var)' = Live(v)
    BY <1>1 DEF Live
  <2> QED
    BY <1>2, <1>4, <2>1, <2>2, <2>3 DEF Tidy
<1> QED
  BY <1>2, <1>3, <1>4, <1>5, <1>7, <1>8 DEF IInv

LEMMA ErrorIInv == Error => IInv'
<1> SUFFICES ASSUME Error PROVE IInv'
  OBVIOUS
<1>1. DOMAIN frame' = {} /\ DOMAIN text' = {} /\ Live(var)' = {}
  BY DEF Error, Live
<1>2. TypeOK'
  <2>1. <<>> \in [DOMAIN <<>> -> Seq(Char)] /\ <<>> \in [DOMAIN <<>> -> Descriptors]
    OBVIOUS
  <2> QED
    BY <1>1, <2>1 DEF Error, TypeOK, Descriptors
<1>3. WindowsInside'
  BY <1>1 DEF WindowsInside
<1>4. FramesOf(Heap, var)' = {}
  BY <1>1 DEF FramesOf, Live
<1> QED
  BY <1>1, <1>2, <1>3, <1>4 DEF IInv, Tidy

LEMMA InitIInv == Init => IInv
<1> SUFFICES ASSUME Init PROVE IInv
  OBVIOUS
<1>1. DOMAIN frame = {} /\ DOMAIN text = {} /\ Live(var) = {}
  BY DEF Init, Live
<1>2. TypeOK
  <2>1. <<>> \in [DOMAIN <<>> -> Seq(Char)] /\ <<>> \in [DOMAIN <<>> -> Descriptors]
    OBVIOUS
  <2> QED
    BY <1>1, <2>1 DEF Init, TypeOK, Descriptors
<1>3. WindowsInside
  BY <1>1 DEF WindowsInside
<1>4. FramesOf(Heap, var) = {}
  BY <1>1 DEF FramesOf
<1> QED
  BY <1>1, <1>2, <1>3, <1>4 DEF IInv, Tidy

-----------------------------------------------------------------------------
(* A statement either gives a variable another text, or rewrites           *)
(* characters of the text it has, or stops the program.                    *)

\* g is h with more texts, and with other characters in the window of d.
Touched(h, g, d) ==
    /\ Sound(g)
    /\ DOMAIN h.text \subseteq DOMAIN g.text
    /\ \A b \in DOMAIN h.text : SameWindow(g.text[b], h.text[b])
    /\ DOMAIN h.frame \subseteq DOMAIN g.frame
    /\ \A f \in DOMAIN h.frame :
          /\ Len(g.frame[f]) = Len(h.frame[f])
          /\ \A i \in DOMAIN h.frame[f] :
                \/ /\ d # NOTEXT /\ f = h.text[d].frame
                   /\ i \in h.text[d].start + 1 .. h.text[d].start + h.text[d].length
                \/ g.frame[f][i] = h.frame[f][i]

Binds(x)  == \E g : Outcome(Heap, g) /\ Settle(g, [var EXCEPT ![x] = g.res])
Writes(x) == \E g : Touched(Heap, g, var[x]) /\ Settle(g, var)

LEMMA EditsTouch ==
    ASSUME NEW h, NEW d \in Reference(h), NEW g, Sound(h), Edits(h, g, d)
    PROVE  Touched(h, g, d)
<1>1. CASE d = NOTEXT
  BY <1>1 DEF Edits, Touched, SameWindow
<1>2. CASE d # NOTEXT
  BY <1>2 DEF Edits, Rewrites, Touched, SameTexts
<1> QED
  BY <1>1, <1>2

LEMMA RebindBinds ==
    ASSUME IInv, NEW x \in Var, NEW e \in Expression, Rebind(x, e)
    PROVE  Binds(x)
<1>1. e.op = "SUB" => SubInside(Heap, var[e.of], e.i, e.n)
  BY DEF Rebind, Faults
<1>2. Outcome(Heap, Eval(Heap, e))
  BY <1>1, HeapSound, EvalOutcome
<1> QED
  BY <1>2 DEF Rebind, Binds

\* A new copy is new to whoever had less.
LEMMA CopyOfMore ==
    ASSUME NEW h, NEW r, NEW g, NEW s \in Seq(Char), Grows(h, r), Sound(g), Grows(r, g),
           Makes(r, g, s)
    PROVE  Outcome(h, g)
<1>1. Grows(h, g)
  BY GrowsTransitive
<1>2. Makes(h, g, s)
  BY DEF Makes, Grows
<1> QED
  BY <1>1, <1>2 DEF Outcome

LEMMA AssignKinds ==
    ASSUME IInv, NEW x \in Var, NEW e \in Expression, Assign(x, e)
    PROVE  Binds(x) \/ Writes(x)
<1>1. e.op = "SUB" => SubInside(Heap, var[e.of], e.i, e.n)
  BY DEF Assign, Faults
<1>2. PICK r : r = Eval(Heap, e)
  OBVIOUS
<1>3. Sound(r) /\ Grows(Heap, r)
  BY <1>1, <1>2, HeapSound, EvalOutcome DEF Outcome
<1>4. PICK a \in text_assign(r, var[x], r.res) : Settle(a, [var EXCEPT ![x] = a.res])
  BY <1>2 DEF Assign
<1>5. var[x] \in Reference(Heap) /\ r.res \in Reference(r)
  BY <1>3, HeapSound, ReferenceFacts
<1>6. CASE var[x] = NOTEXT
  <2>1. a = Fresh(r, Content(r, r.res))
    BY <1>4, <1>6 DEF text_assign, text_copy
  <2>2. Content(r, r.res) \in Seq(Char)
    BY <1>3, <1>5, ContentIs
  <2>3. Sound(a) /\ Grows(r, a) /\ Makes(r, a, Content(r, r.res))
    BY <1>3, <2>1, <2>2, FreshEffect
  <2>4. Outcome(Heap, a)
    BY <1>3, <2>2, <2>3, CopyOfMore
  <2> QED
    BY <1>4, <2>4 DEF Binds
<1>7. CASE var[x] # NOTEXT
  <2>1. var[x] \in DOMAIN Heap.text /\ var[x] \in DOMAIN r.text
        /\ SameWindow(r.text[var[x]], Heap.text[var[x]])
    BY <1>3, <1>5, <1>7 DEF Grows, Reference
  <2>2. Sound(a) /\ a.res = var[x] /\ Rewrites(r, a, var[x])
    <3>1. PICK d \in DOMAIN r.text : d = var[x]
      BY <2>1
    <3>2. a \in text_assign(r, d, r.res)
      BY <1>4, <3>1
    <3>3. AssignedTo(r, a, d, r.res)
      BY <1>3, <1>5, <3>2, AssignIs
    <3> QED
      BY <3>1, <3>3 DEF AssignedTo
  <2>3. Touched(Heap, a, var[x])
    <3>1. DOMAIN Heap.text \subseteq DOMAIN a.text
          /\ \A b \in DOMAIN Heap.text : SameWindow(a.text[b], Heap.text[b])
      BY <1>3, <2>2 DEF Grows, Rewrites, SameTexts, SameWindow
    <3>2. ASSUME NEW f \in DOMAIN Heap.frame
          PROVE  /\ f \in DOMAIN a.frame
                 /\ Len(a.frame[f]) = Len(Heap.frame[f])
                 /\ \A i \in DOMAIN Heap.frame[f] :
                       \/ /\ f = Heap.text[var[x]].frame
                          /\ i \in Heap.text[var[x]].start + 1
                                   .. Heap.text[var[x]].start + Heap.text[var[x]].length
                       \/ a.frame[f][i] = Heap.frame[f][i]
      <4>1. f \in DOMAIN r.frame /\ r.frame[f] = Heap.frame[f]
        BY <1>3 DEF Grows
      <4> QED
        BY <2>1, <2>2, <4>1 DEF Rewrites, SameWindow
    <3> QED
      BY <1>7, <2>2, <3>1, <3>2 DEF Touched
  <2>4. [var EXCEPT ![x] = a.res] = var
    BY <2>2 DEF IInv, TypeOK
  <2> QED
    BY <1>4, <2>3, <2>4 DEF Writes
<1> QED
  BY <1>6, <1>7

\* A view of x that is assigned to is part of what x sees, or of nothing.
LEMMA AssignViewWrites ==
    ASSUME IInv, NEW x \in Var, NEW v \in View(x), NEW e \in Source, AssignView(v, e)
    PROVE  Writes(x)
<1>1. PICK w : w = Eval(Heap, v)
  OBVIOUS
<1>2. PICK r : r = Eval(w, e)
  OBVIOUS
<1>3. PICK d \in Reference(Heap) : d = var[x]
  BY HeapSound
<1>4. Narrows(Heap, w, d)
  <2>1. v \in Expression /\ v.op \in {"SUB", "STRIP"} /\ v.of = x
    BY DEF View
  <2>2. CASE v.op = "STRIP"
    BY <1>1, <1>3, <2>1, <2>2, HeapSound, StripNarrows DEF Eval
  <2>3. CASE v.op = "SUB"
    <3>1. v \in [op : {"SUB"}, of : Var, i : 0 .. MaxLength + 1, n : -1 .. MaxLength]
      BY <2>1, <2>3 DEF Expression
    <3>2. v.i \in Int /\ v.n \in Int
      BY <3>1, TextsAssumption
    <3>3. SubInside(Heap, d, v.i, v.n)
      BY <1>3, <2>1, <2>3 DEF AssignView, Faults
    <3>4. w = text_sub(Heap, d, v.i, v.n)
      BY <1>1, <1>3, <2>1, <2>3 DEF Eval
    <3> QED
      BY <3>2, <3>3, <3>4, HeapSound, SubNarrows
  <2> QED
    BY <2>1, <2>2, <2>3
<1>5. Sound(w) /\ Grows(Heap, w) /\ w.res \in DOMAIN w.text
  <2>1. Sound(w) /\ Grows(Heap, w)
    BY <1>4 DEF Narrows, Outcome
  <2>2. w.res \in DOMAIN w.text
    BY <1>4 DEF Narrows, Makes
  <2> QED
    BY <2>1, <2>2
<1>6. Sound(r) /\ Grows(w, r)
  <2>1. e \in Expression /\ e.op # "SUB"
    BY DEF Source
  <2>2. \A y \in Var : var[y] \in Reference(w)
    BY <1>5, HeapSound DEF Reference, Grows
  <2> QED
    BY <1>2, <1>5, <2>1, <2>2, EvalOutcome DEF Outcome
<1>7. PICK a \in text_assign(r, w.res, r.res) : Settle(a, var)
  BY <1>1, <1>2 DEF AssignView
<1>8. PICK b \in DOMAIN r.text : b = w.res /\ SameWindow(r.text[b], w.text[b])
  BY <1>5, <1>6 DEF Grows
<1>9. AssignedTo(r, a, b, r.res)
  BY <1>6, <1>7, <1>8, ReferenceFacts, AssignIs
<1>10. Sound(a) /\ Rewrites(r, a, b)
  BY <1>9 DEF AssignedTo
<1>11. Grows(Heap, r)
  BY <1>5, <1>6, GrowsTransitive
<1>12. /\ DOMAIN Heap.text \subseteq DOMAIN a.text
       /\ \A c \in DOMAIN Heap.text : SameWindow(a.text[c], Heap.text[c])
  BY <1>10, <1>11 DEF Grows, Rewrites, SameTexts, SameWindow
<1>13. ASSUME NEW f \in DOMAIN Heap.frame
       PROVE  /\ f \in DOMAIN a.frame
              /\ Len(a.frame[f]) = Len(Heap.frame[f])
              /\ \A i \in DOMAIN Heap.frame[f] :
                    \/ /\ d # NOTEXT /\ f = Heap.text[d].frame
                       /\ i \in Heap.text[d].start + 1
                                .. Heap.text[d].start + Heap.text[d].length
                    \/ a.frame[f][i] = Heap.frame[f][i]
  <2>1. f \in DOMAIN r.frame /\ r.frame[f] = Heap.frame[f]
    BY <1>11 DEF Grows
  <2>2. f \in DOMAIN a.frame /\ Len(a.frame[f]) = Len(Heap.frame[f])
    BY <1>10, <2>1 DEF Rewrites
  <2>3. ASSUME NEW i \in DOMAIN Heap.frame[f], a.frame[f][i] # Heap.frame[f][i]
        PROVE  /\ d # NOTEXT /\ f = Heap.text[d].frame
               /\ i \in Heap.text[d].start + 1
                        .. Heap.text[d].start + Heap.text[d].length
    <3>1. f = w.text[b].frame
          /\ i \in w.text[b].start + 1 .. w.text[b].start + w.text[b].length
      BY <1>8, <1>10, <2>1, <2>3 DEF Rewrites, SameWindow
    <3>2. d # NOTEXT
      BY <1>4, <1>8, <3>1 DEF Narrows, Makes
    <3>3. /\ w.text[b].frame = Heap.text[d].frame
          /\ Heap.text[d].start <= w.text[b].start
          /\ w.text[b].start + w.text[b].length <= Heap.text[d].start + Heap.text[d].length
      BY <1>4, <1>8, <3>2 DEF Narrows
    <3>4. PICK p \in Nat, l \in Nat, q \in Nat, m \in Nat :
             /\ p = Heap.text[d].start /\ l = Heap.text[d].length
             /\ q = w.text[b].start /\ m = w.text[b].length
      <4>1. b \in Reference(w) /\ b # NOTEXT
        BY <1>5, <1>8, ReferenceFacts DEF Reference
      <4> QED
        BY <1>5, <3>2, <4>1, HeapSound, ReferenceFacts
    <3> QED
      BY <3>1, <3>2, <3>3, <3>4
  <2> QED
    BY <2>2, <2>3
<1>14. Touched(Heap, a, var[x])
  BY <1>3, <1>10, <1>12, <1>13 DEF Touched
<1> QED
  BY <1>7, <1>14 DEF Writes

LEMMA DeEditKinds ==
    ASSUME IInv, NEW x \in Var, NEW found, NEW end,
           found => end \in 0 .. Len(Reads(var[x])),
           DeEdit(x, found, end)
    PROVE  Error \/ Writes(x)
<1>1. CASE var[x] = NOTEXT \/ ~ found
  BY <1>1 DEF DeEdit
<1>2. CASE ~ (var[x] = NOTEXT \/ ~ found)
  <2>1. PICK g : g = [Heap EXCEPT !.text[var[x]].pos = end]
    OBVIOUS
  <2>2. Settle(g, var)
    BY <1>2, <2>1 DEF DeEdit
  <2>3. var[x] \in DOMAIN Heap.text /\ var[x] \in Reference(Heap)
    BY <1>2, HeapSound DEF Reference
  <2>4. end \in 0 .. Heap.text[var[x]].length
    BY <1>2, <2>3, HeapSound, ContentIs DEF Reads, Length
  <2>5. Touched(Heap, g, var[x])
    BY <2>1, <2>3, <2>4, HeapSound, CursorEdits, EditsTouch
  <2> QED
    BY <2>2, <2>5 DEF Writes
<1> QED
  BY <1>1, <1>2

LEMMA StepKinds ==
    ASSUME IInv, Next
    PROVE  Error \/ \E x \in Var : Binds(x) \/ Writes(x)
<1>1. CASE Halt
  BY <1>1 DEF Halt
<1>2. ASSUME NEW x \in Var, Operate(x)
      PROVE  Error \/ Binds(x) \/ Writes(x)
  <2>1. ASSUME NEW e \in Expression, Rebind(x, e) PROVE Binds(x)
    BY <2>1, RebindBinds
  <2>2. ASSUME NEW e \in Expression, Assign(x, e) PROVE Binds(x) \/ Writes(x)
    BY <2>2, AssignKinds
  <2>3. ASSUME NEW v \in View(x), NEW e \in Source, AssignView(v, e) PROVE Writes(x)
    BY <2>3, AssignViewWrites
  <2>4. PICK d \in Reference(Heap) : d = var[x]
    BY HeapSound
  <2>5. ASSUME NEW g, Edits(Heap, g, d), Settle(g, var) PROVE Writes(x)
    BY <2>4, <2>5, HeapSound, EditsTouch DEF Writes
  <2>6. ASSUME NEW p \in Int, SetPos(x, p) PROVE Writes(x)
    BY <2>4, <2>5, <2>6, HeapSound, SetposEdits DEF SetPos
  <2>7. ASSUME GetChar(x) PROVE Writes(x)
    BY <2>4, <2>5, <2>7, HeapSound, GetcharEdits DEF GetChar
  <2>8. ASSUME NEW c \in Char, PutChar(x, c) PROVE Writes(x)
    BY <2>4, <2>5, <2>8, HeapSound, PutcharEdits DEF PutChar
  <2>9. ASSUME NEW item \in Item, Put(x, item) PROVE Writes(x)
    BY <2>4, <2>5, <2>9, HeapSound, PutEdits DEF Put
  <2>10. ASSUME NEW table, ClosedUnder(table), Recase(x, table) PROVE Writes(x)
    BY <2>4, <2>5, <2>10, HeapSound, RecaseEdits DEF Recase
  <2>11. PICK c \in Seq(Char) : c = Reads(var[x])
    BY <2>4, HeapSound, ContentIs DEF Reads
  <2>12. ASSUME GetInt(x) PROVE Error \/ Writes(x)
    BY <2>11, <2>12, IntEndIs, DeEditKinds DEF GetInt
  <2>13. ASSUME GetFrac(x) PROVE Error \/ Writes(x)
    BY <2>11, <2>13, FracEndIs, DeEditKinds DEF GetFrac
  <2>14. ASSUME GetReal(x) PROVE Error \/ Writes(x)
    BY <2>11, <2>14, RealEndIs, DeEditKinds DEF GetReal
  <2>15. ClosedUnder(Upper) /\ ClosedUnder(Lower)
    BY TextsAssumption
  <2>16. \A p \in 0 .. MaxLength + 2 : p \in Int
    OBVIOUS
  <2> QED
    BY <1>2, <2>1, <2>2, <2>3, <2>6, <2>7, <2>8, <2>9, <2>10, <2>12, <2>13, <2>14,
       <2>15, <2>16 DEF Operate
<1> QED
  BY <1>1, <1>2 DEF Next

LEMMA BindsIInv ==
    ASSUME IInv, NEW x \in Var, Binds(x)
    PROVE  IInv'
<1>1. PICK g : Outcome(Heap, g) /\ Settle(g, [var EXCEPT ![x] = g.res])
  BY DEF Binds
<1>2. Sound(g) /\ Grows(Heap, g) /\ g.res \in Reference(g)
  BY <1>1, ReferenceFacts DEF Outcome
<1>3. PICK v : v = [var EXCEPT ![x] = g.res]
  OBVIOUS
<1>4. v \in [Var -> Reference(g)]
  <2>1. \A y \in Var : var[y] \in Reference(g)
    BY <1>2, HeapSound DEF Reference, Grows
  <2>2. var \in [Var -> Reference(g)]
    BY <2>1 DEF IInv, TypeOK
  <2> QED
    BY <1>2, <1>3, <2>2
<1>5. Settle(g, v)
  BY <1>1, <1>3
<1> QED
  BY <1>2, <1>4, <1>5, SettleIInv

LEMMA WritesIInv ==
    ASSUME IInv, NEW x \in Var, Writes(x)
    PROVE  IInv'
<1>1. PICK g : Touched(Heap, g, var[x]) /\ Settle(g, var)
  BY DEF Writes
<1>2. Sound(g) /\ DOMAIN text \subseteq DOMAIN g.text
  BY <1>1, HeapSound DEF Touched
<1>3. var \in [Var -> Reference(g)]
  BY <1>2 DEF IInv, TypeOK, Reference
<1> QED
  BY <1>1, <1>2, <1>3, SettleIInv

LEMMA StepIInv == IInv /\ [Next]_vars => IInv'
<1> SUFFICES ASSUME IInv, [Next]_vars PROVE IInv'
  OBVIOUS
<1>1. CASE Next
  BY <1>1, StepKinds, ErrorIInv, BindsIInv, WritesIInv
<1>2. CASE UNCHANGED vars
  <2>1. Heap' = Heap /\ Live(var)' = Live(var)
    BY <1>2 DEF vars, Heap, Live
  <2>2. FramesOf(Heap, var)' = FramesOf(Heap, var)
    BY <1>2, <2>1 DEF vars, FramesOf, Heap, Live
  <2> QED
    BY <1>2, <2>1, <2>2 DEF vars, IInv, TypeOK, WindowsInside, Tidy
<1> QED
  BY <1>1, <1>2

LEMMA Invariance == Spec => []IInv
BY InitIInv, StepIInv, PTL DEF Spec

\* Variables hold NOTEXT or texts that exist, and frames hold characters.
THEOREM TypeCorrect == Spec => []TypeOK
<1>1. IInv => TypeOK
  BY DEF IInv
<1> QED
  BY <1>1, Invariance, PTL

\* No text reaches beyond its frame, and no cursor beyond its text: whatever
\* statements made a descriptor, reading and writing through it stays in
\* memory it was given, as long as SUB checks its arguments.
THEOREM AlwaysInside == Spec => []WindowsInside
<1>1. IInv => WindowsInside
  BY DEF IInv
<1> QED
  BY <1>1, Invariance, PTL

-----------------------------------------------------------------------------
(* Text assignment.                                                        *)

LEMMA SameContent ==
    ASSUME NEW s \in Seq(Char), NEW t \in Seq(Char), Len(s) = Len(t),
           \A i \in 1 .. Len(s) : s[i] = t[i]
    PROVE  s = t
OBVIOUS

LEMMA KeptContent ==
    ASSUME NEW h, Sound(h), NEW g, Grows(h, g), NEW d \in Reference(h)
    PROVE  Content(g, d) = Content(h, d)
<1>1. CASE d = NOTEXT
  BY <1>1 DEF Content
<1>2. CASE d # NOTEXT
  <2>1. d \in DOMAIN h.text /\ h.text[d].frame \in DOMAIN h.frame
    BY <1>2, ReferenceFacts DEF Fits
  <2>2. SameWindow(g.text[d], h.text[d]) /\ g.frame[h.text[d].frame] = h.frame[h.text[d].frame]
    BY <2>1 DEF Grows
  <2> QED
    BY <1>2, <2>2 DEF Content, SameWindow
<1> QED
  BY <1>1, <1>2

Spells(c, h, f, p, l) ==
    /\ c \in Seq(Char) /\ Len(c) = l
    /\ \A i \in 1 .. l : c[i] = h.frame[f][p + i]

LEMMA WindowContent ==
    ASSUME NEW h, Sound(h), NEW d \in DOMAIN h.text, NEW f, NEW p, NEW l,
           h.text[d].frame = f, h.text[d].start = p, h.text[d].length = l
    PROVE  Spells(Content(h, d), h, f, p, l)
<1>1. d \in Reference(h) /\ d # NOTEXT
  BY ReferenceFacts DEF Reference
<1>2. Length(h, d) = l
  BY <1>1 DEF Length
<1> QED
  BY <1>1, <1>2, ContentIs DEF Spells

\* What shares no character with the text that is rewritten reads as before.
LEMMA ElsewhereKept ==
    ASSUME IInv, NEW d \in Reference(Heap), NEW e \in Reference(Heap),
           NEW g, Touched(Heap, g, d), Cells(e) \cap Cells(d) = {}
    PROVE  Content(g, e) = Content(Heap, e)
<1>1. CASE e = NOTEXT
  BY <1>1 DEF Content
<1>2. CASE e # NOTEXT
  <2>1. PICK f \in DOMAIN frame, p \in Nat, l \in Nat :
           /\ f = text[e].frame /\ p = text[e].start /\ l = text[e].length
           /\ p + l <= Len(frame[f]) /\ frame[f] \in Seq(Char)
           /\ e \in DOMAIN text
    BY <1>2, HeapSound, ReferenceFacts DEF Fits
  <2>2. Sound(g) /\ e \in DOMAIN g.text /\ e \in Reference(g)
        /\ g.text[e].frame = f /\ g.text[e].start = p /\ g.text[e].length = l
    BY <2>1, HeapSound DEF Touched, SameWindow, Reference
  <2>3. ASSUME NEW i \in 1 .. l
        PROVE  g.frame[f][p + i] = frame[f][p + i]
    <3>1. p + i \in DOMAIN frame[f]
      <4>1. PICK m \in Nat : m = Len(frame[f]) /\ DOMAIN frame[f] = 1 .. m
        BY <2>1
      <4>2. p + i \in 1 .. m
        BY <2>1, <4>1
      <4> QED
        BY <4>1, <4>2
    <3>2. <<f, p + i>> \in Cells(e)
      <4>1. Cells(e) = {<<f, k>> : k \in p + 1 .. p + l}
        BY <1>2, <2>1 DEF Cells
      <4>2. p + i \in p + 1 .. p + l
        OBVIOUS
      <4> QED
        BY <4>1, <4>2
    <3>3. ~ (/\ d # NOTEXT /\ f = text[d].frame
             /\ p + i \in text[d].start + 1 .. text[d].start + text[d].length)
      <4>1. d # NOTEXT =>
               Cells(d) = {<<text[d].frame, k>> :
                              k \in text[d].start + 1 .. text[d].start + text[d].length}
        BY DEF Cells
      <4>2. <<f, p + i>> \notin Cells(d)
        BY <3>2
      <4> QED
        BY <4>1, <4>2
    <3> QED
      BY <2>1, <3>1, <3>3, HeapSound DEF Touched
  <2>4. /\ Content(g, e) \in Seq(Char) /\ Len(Content(g, e)) = l
        /\ \A i \in 1 .. l : Content(g, e)[i] = g.frame[f][p + i]
    <3>1. Spells(Content(g, e), g, f, p, l)
      BY <2>2, WindowContent
    <3> QED
      BY <3>1 DEF Spells
  <2>5. /\ Content(Heap, e) \in Seq(Char) /\ Len(Content(Heap, e)) = l
        /\ \A i \in 1 .. l : Content(Heap, e)[i] = frame[f][p + i]
    <3>1. PICK h : h = Heap
      OBVIOUS
    <3>2. Sound(h) /\ h.frame = frame /\ h.text = text
      BY <3>1, HeapSound
    <3>3. /\ Content(h, e) \in Seq(Char) /\ Len(Content(h, e)) = l
          /\ \A i \in 1 .. l : Content(h, e)[i] = h.frame[f][p + i]
      <4>1. Spells(Content(h, e), h, f, p, l)
        BY <2>1, <3>2, WindowContent
      <4> QED
        BY <4>1 DEF Spells
    <3> QED
      BY <3>1, <3>2, <3>3
  <2> QED
    BY <2>1, <2>3, <2>4, <2>5, SameContent
<1> QED
  BY <1>1, <1>2

\* Two windows that are the same or apart are not one a little after the other.
LEMMA NoNearOverlap ==
    ASSUME IInv, NEW d \in DOMAIN text, NEW e \in DOMAIN text,
           Cells(d) = Cells(e) \/ Cells(d) \cap Cells(e) = {},
           NEW n \in Nat, n <= text[d].length, n <= text[e].length,
           text[d].frame = text[e].frame
    PROVE  text[d].start - text[e].start \notin 1 .. n - 1
<1>1. PICK p \in Nat, q \in Nat, l \in Nat, m \in Nat, f \in DOMAIN frame :
         /\ p = text[d].start /\ q = text[e].start
         /\ l = text[d].length /\ m = text[e].length
         /\ f = text[d].frame /\ d # NOTEXT /\ e # NOTEXT
  <2>1. d \in Reference(Heap) /\ e \in Reference(Heap) /\ d \in DOMAIN Heap.text
    BY HeapSound DEF Reference
  <2> QED
    BY <2>1, HeapSound, ReferenceFacts DEF Fits
<1>2. /\ Cells(d) = {<<f, i>> : i \in p + 1 .. p + l}
      /\ Cells(e) = {<<f, i>> : i \in q + 1 .. q + m}
  BY <1>1 DEF Cells
<1> SUFFICES ASSUME p - q \in 1 .. n - 1 PROVE FALSE
  BY <1>1
<1>3. p + 1 \in p + 1 .. p + l /\ p + 1 \in q + 1 .. q + m
      /\ q + 1 \in q + 1 .. q + m /\ q + 1 \notin p + 1 .. p + l
  BY <1>1
<1>4. <<f, p + 1>> \in Cells(d) /\ <<f, p + 1>> \in Cells(e)
      /\ <<f, q + 1>> \in Cells(e)
  BY <1>2, <1>3
<1>5. <<f, q + 1>> \notin Cells(d)
  BY <1>2, <1>3
<1> QED
  BY <1>4, <1>5

\* Assigning to NOTEXT binds a copy that is nobody else's.
LEMMA CopyAssigned ==
    ASSUME IInv, NEW e \in Reference(Heap), NEW a, a = text_copy(Heap, e)
    PROVE  /\ Content(a, a.res) = Reads(e)
           /\ \A b \in Reference(Heap) :
                 /\ Content(a, b) = Reads(b)
                 /\ b # NOTEXT => a.text[a.res].frame # a.text[b].frame
<1>1. PICK h : h = Heap
  OBVIOUS
<1>2. Sound(h) /\ e \in Reference(h)
  BY <1>1, HeapSound
<1>3. PICK s \in Seq(Char) : s = Content(h, e) /\ s = Reads(e)
  BY <1>1, <1>2, ContentIs DEF Reads
<1>4. Sound(a) /\ Grows(h, a) /\ Makes(h, a, s)
  BY <1>1, <1>2, <1>3, FreshEffect DEF text_copy
<1>5. Content(a, a.res) = s
  <2>1. PICK f, l : /\ a.res \in DOMAIN a.text /\ f = a.text[a.res].frame
                    /\ a.text[a.res].start = 0 /\ a.text[a.res].length = l
                    /\ l = Len(s) /\ a.frame[f] = s
    BY <1>4 DEF Makes
  <2>2. /\ Content(a, a.res) \in Seq(Char) /\ Len(Content(a, a.res)) = l
        /\ \A i \in 1 .. l : Content(a, a.res)[i] = s[0 + i]
    <3>1. Spells(Content(a, a.res), a, f, 0, l)
      BY <1>4, <2>1, WindowContent
    <3> QED
      BY <2>1, <3>1 DEF Spells
  <2>3. \A i \in 1 .. l : Content(a, a.res)[i] = s[i]
    BY <2>2
  <2> QED
    BY <2>1, <2>2, <2>3, SameContent
<1>6. ASSUME NEW b \in Reference(h)
      PROVE  /\ Content(a, b) = Content(h, b)
             /\ b # NOTEXT => a.text[a.res].frame # a.text[b].frame
  <2>1. Content(a, b) = Content(h, b)
    BY <1>2, <1>4, KeptContent
  <2>2. b # NOTEXT => /\ b \in DOMAIN h.text
                      /\ h.text[b].frame \in DOMAIN h.frame
                      /\ a.text[b].frame = h.text[b].frame
    BY <1>2, <1>4, ReferenceFacts DEF Fits, Grows, SameWindow
  <2>3. a.text[a.res].frame \notin DOMAIN h.frame
    BY <1>4 DEF Makes
  <2> QED
    BY <2>1, <2>2, <2>3
<1> QED
  BY <1>1, <1>3, <1>5, <1>6 DEF Reads

LEMMA FittedIs ==
    ASSUME NEW c \in Seq(Char), NEW n \in Nat
    PROVE  /\ Fitted(c, n) \in Seq(Char) /\ Len(Fitted(c, n)) = n
           /\ \A i \in 1 .. n : Fitted(c, n)[i] = IF i <= Len(c) THEN c[i] ELSE Blank
<1>1. PICK m \in Nat : m = Len(c) /\ \A i \in 1 .. m : c[i] \in Char
  OBVIOUS
<1>2. Blank \in Char
  BY TextsAssumption
<1> QED
  BY <1>1, <1>2 DEF Fitted

\* Assigning to a text leaves in it what fits of the source.
LEMMA FittedAssigned ==
    ASSUME IInv, NEW d \in DOMAIN text, NEW e \in Reference(Heap),
           Cells(d) = Cells(e) \/ Cells(d) \cap Cells(e) = {},
           NEW a, AssignedTo(Heap, a, d, e)
    PROVE  Content(a, d) = Fitted(Reads(e), Length(Heap, d))
<1>1. PICK h : h = Heap /\ Sound(h) /\ h.frame = frame /\ h.text = text
  BY HeapSound
<1>2. PICK p \in Nat, l \in Nat, f \in DOMAIN frame :
         /\ f = text[d].frame /\ p = text[d].start /\ l = text[d].length
         /\ d \in Reference(h) /\ d # NOTEXT /\ l = Length(h, d)
  <2>1. d \in Reference(h)
    BY <1>1 DEF Reference
  <2> QED
    BY <1>1, <2>1, ReferenceFacts DEF Length, Fits
<1>3. PICK c \in Seq(Char), m \in Nat : c = Reads(e) /\ m = Len(c) /\ m = Length(h, e)
  BY <1>1, ContentIs DEF Reads
<1>4. PICK s \in Seq(Char) :
         /\ Len(s) = Min({m, l})
         /\ s # <<>> => s \in Moved(h, h.text[d].frame, h.text[d].start,
                                     h.text[e].frame, h.text[e].start, Len(s))
         /\ Filled(h, a, d, s)
  BY <1>1, <1>2, <1>3 DEF AssignedTo
<1>5. PICK n \in Nat : n = Len(s) /\ n = IF m <= l THEN m ELSE l
  BY <1>4, MinOfTwo
<1>6. ASSUME n # 0 PROVE \A i \in 1 .. n : s[i] = c[i]
  <2>1. e # NOTEXT /\ e \in DOMAIN text /\ m = text[e].length
    BY <1>1, <1>3, <1>5, <1>6 DEF Length, Reference
  <2>2. n <= text[d].length /\ n <= text[e].length
    BY <1>2, <1>5, <2>1
  <2>3. text[d].frame = text[e].frame =>
          /\ text[d].start - text[e].start \notin 1 .. n - 1
          /\ text[e].start - text[d].start \notin 1 .. n - 1
    BY <2>1, <2>2, NoNearOverlap
  <2>4. s \in Moved(h, h.text[d].frame, h.text[d].start,
                    h.text[e].frame, h.text[e].start, n)
    BY <1>4, <1>5, <1>6
  <2>5. \A i \in 1 .. n : s[i] = Content(h, e)[i]
    BY <1>1, <1>6, <2>1, <2>2, <2>3, <2>4, MovedIs
  <2> QED
    BY <1>1, <1>3, <2>5 DEF Reads
<1>7. \A i \in 1 .. l : a.frame[f][p + i] = IF i <= n THEN s[i] ELSE Blank
  BY <1>1, <1>2, <1>4, <1>5 DEF Filled
<1>8. /\ Content(a, d) \in Seq(Char) /\ Len(Content(a, d)) = l
      /\ \A i \in 1 .. l : Content(a, d)[i] = a.frame[f][p + i]
  <2>1. Sound(a) /\ d \in DOMAIN a.text /\ a.text[d] = text[d]
    BY <1>1 DEF AssignedTo
  <2>2. a.text[d].frame = f /\ a.text[d].start = p /\ a.text[d].length = l
    BY <1>2, <2>1
  <2> QED
    <3>1. Spells(Content(a, d), a, f, p, l)
      BY <2>1, <2>2, WindowContent
    <3> QED
      BY <3>1 DEF Spells
<1>9. /\ Fitted(c, l) \in Seq(Char) /\ Len(Fitted(c, l)) = l
      /\ \A i \in 1 .. l : Fitted(c, l)[i] = IF i <= m THEN c[i] ELSE Blank
  BY <1>3, FittedIs
<1>10. ASSUME NEW i \in 1 .. l PROVE Content(a, d)[i] = Fitted(c, l)[i]
  <2>1. Content(a, d)[i] = IF i <= n THEN s[i] ELSE Blank
    BY <1>7, <1>8
  <2>2. i <= n => s[i] = c[i]
    BY <1>6
  <2>3. i <= n <=> i <= m
    BY <1>5
  <2> QED
    BY <1>9, <2>1, <2>2, <2>3
<1>11. Content(a, d) = Fitted(c, l)
  BY <1>8, <1>9, <1>10, SameContent
<1> QED
  BY <1>1, <1>2, <1>3, <1>11

LEMMA IInvAssignCopies == IInv => AssignCopies
<1> SUFFICES ASSUME IInv, NEW x \in Var, NEW y \in Var,
                    Cells(var[x]) = Cells(var[y]) \/ Cells(var[x]) \cap Cells(var[y]) = {},
                    NEW a \in text_assign(Heap, var[x], var[y])
             PROVE  /\ Content(a, a.res) =
                         IF var[x] = NOTEXT THEN Reads(var[y])
                         ELSE Fitted(Reads(var[y]), Length(Heap, var[x]))
                    /\ \A z \in Var \ {x} :
                         Cells(var[z]) \cap Cells(var[x]) = {} =>
                            /\ Content(a, var[z]) = Reads(var[z])
                            /\ var[z] # NOTEXT /\ Length(a, a.res) > 0 /\ var[x] = NOTEXT
                                 => a.text[a.res].frame # a.text[var[z]].frame
  BY DEF AssignCopies
<1>1. PICK d \in Reference(Heap), e \in Reference(Heap) : d = var[x] /\ e = var[y]
  BY HeapSound
<1>2. \A z \in Var : var[z] \in Reference(Heap)
  BY HeapSound
<1>3. CASE d = NOTEXT
  <2>1. a = text_copy(Heap, e)
    BY <1>1, <1>3 DEF text_assign
  <2> QED
    BY <1>1, <1>2, <1>3, <2>1, CopyAssigned
<1>4. CASE d # NOTEXT
  <2>1. d \in DOMAIN text /\ d \in DOMAIN Heap.text
    BY <1>4, HeapSound DEF Reference
  <2>2. AssignedTo(Heap, a, d, e)
    BY <1>1, <2>1, HeapSound, AssignIs
  <2>3. Content(a, a.res) = Fitted(Reads(e), Length(Heap, d))
    <3>1. Content(a, d) = Fitted(Reads(e), Length(Heap, d))
      BY <1>1, <2>1, <2>2, FittedAssigned
    <3> QED
      BY <2>2, <3>1 DEF AssignedTo
  <2>4. Touched(Heap, a, d)
    BY <1>4, <2>2, HeapSound, EditsTouch DEF AssignedTo, Edits
  <2>5. ASSUME NEW b \in Reference(Heap), Cells(b) \cap Cells(d) = {}
        PROVE  Content(a, b) = Reads(b)
    BY <2>4, <2>5, ElsewhereKept DEF Reads
  <2> QED
    BY <1>1, <1>2, <1>4, <2>3, <2>5
<1> QED
  BY <1>3, <1>4

\* x := y is a copy: unless the two windows overlap in part, x reads what y
\* read, cut or filled to its length, and who shares no character with x reads
\* what it read, whichever windows SUB, STRIP and MAIN have made of the frames.
THEOREM AssignsByCopy == Spec => []AssignCopies
BY IInvAssignCopies, Invariance, PTL

-----------------------------------------------------------------------------
(* Editing and de-editing.                                                 *)

\* A scan from i passes all that it may and stops in front of the rest.
LEMMA RunPasses ==
    ASSUME NEW C, NEW f \in Seq(C), NEW i \in Nat, NEW e \in Nat, i <= e, e <= Len(f), NEW S,
           \A k \in i + 1 .. e : f[k] \in S,
           e = Len(f) \/ f[e + 1] \notin S
    PROVE  RunEnd(f, i, S) = e
<1> DEFINE T == {k \in i .. Len(f) : k = Len(f) \/ f[k + 1] \notin S}
<1>1. PICK n \in Nat : n = Len(f)
  OBVIOUS
<1>2. T \in SUBSET Nat /\ T # {} /\ e \in T
  BY <1>1
<1>3. Min(T) \in T /\ \A k \in T : Min(T) <= k
  BY <1>2, MinNat
<1>4. ASSUME NEW k \in T, k < e PROVE FALSE
  <2>1. k \in Nat /\ i <= k /\ k + 1 \in i + 1 .. e /\ k # Len(f)
    BY <1>1, <1>4
  <2> QED
    BY <1>4, <2>1
<1>5. Min(T) \in Nat
  BY <1>2, <1>3
<1> HIDE DEF T
<1>6. Min(T) = e
  BY <1>2, <1>3, <1>4, <1>5
<1> QED
  BY <1>6 DEF RunEnd, T

\* A number that is put to the right end of a text is what GETINT finds there.
LEMMA GetWhatWasPut ==
    ASSUME NEW item \in Seq(Char) \cap Unsigned, NEW n \in Nat, Len(item) <= n,
           NEW c, c = Edited(item, n)
    PROVE  /\ HasInt(c) /\ IntEnd(c) = Len(c)
           /\ SubSeq(c, SignEnd(c) + 1, Len(c)) = item
<1>1. PICK m \in Nat : m = Len(item) /\ m # 0 /\ \A i \in 1 .. m : item[i] \in Digit
  BY DEF Unsigned
<1>2. PICK k \in Nat : k = n - m
  BY <1>1
<1>3. /\ c \in Seq(Char) /\ Len(c) = n
      /\ \A i \in 1 .. k : c[i] = Blank
      /\ \A i \in k + 1 .. n : c[i] = item[i - k] /\ c[i] \in Digit
  <2>1. PICK b \in Seq(Char) :
           b = Blanks(k) /\ Len(b) = k /\ \A i \in 1 .. k : b[i] = Blank
    BY BlanksAre
  <2>2. c = b \o item
    BY <1>1, <1>2, <2>1 DEF Edited
  <2>3. /\ c \in Seq(Char) /\ Len(c) = k + m
        /\ \A i \in 1 .. k : c[i] = b[i]
        /\ \A i \in k + 1 .. k + m : c[i] = item[i - k]
    <3>1. item \in Seq(Char)
      OBVIOUS
    <3>2. c \in Seq(Char) /\ Len(c) = Len(b) + Len(item)
      BY <2>1, <2>2, <3>1
    <3>3. \A i \in 1 .. Len(b) + Len(item) :
             c[i] = IF i <= Len(b) THEN b[i] ELSE item[i - Len(b)]
      BY <2>1, <2>2, <3>1
    <3> QED
      BY <1>1, <2>1, <3>2, <3>3
  <2>4. k + m = n
    BY <1>1, <1>2
  <2>5. \A i \in k + 1 .. n : i - k \in 1 .. m
    BY <2>4, <1>1
  <2> QED
    BY <1>1, <2>1, <2>3, <2>4, <2>5
<1>4. k + 1 \in k + 1 .. n /\ k < n
  BY <1>1, <1>2
<1>5. c[k + 1] \in Digit
  BY <1>3, <1>4
<1>6. RunEnd(c, 0, Space) = k
  <2>1. \A i \in 0 + 1 .. k : c[i] \in Space
    <3>1. Blank \in Space
      BY DEF Blank, Space
    <3>2. \A i \in 0 + 1 .. k : i \in 1 .. k
      OBVIOUS
    <3> QED
      BY <1>3, <3>1, <3>2
  <2>2. c[k + 1] \notin Space
    BY <1>5 DEF Space, Digit
  <2>3. 0 \in Nat /\ 0 <= k /\ k <= Len(c)
    BY <1>3, <1>4
  <2> QED
    BY <1>3, <2>1, <2>2, <2>3, RunPasses
<1>7. SignEnd(c) = k
  <2>1. c[k + 1] \notin Sign
    BY <1>5 DEF Sign, Digit
  <2> QED
    BY <1>3, <1>6, <2>1 DEF SignEnd
<1>8. RunEnd(c, k, Digit) = n
  BY <1>3, <1>4, RunPasses
<1>9. IntEnd(c) = n
  BY <1>7, <1>8 DEF IntEnd
<1>10. SubSeq(c, k + 1, n) = item
  <2>1. SubSeq(c, k + 1, n) \in Seq(Char) /\ Len(SubSeq(c, k + 1, n)) = m
    BY <1>1, <1>2, <1>3, <1>4
  <2>2. \A i \in 1 .. m : SubSeq(c, k + 1, n)[i] = c[k + i]
    BY <1>1, <1>2, <1>3, <1>4
  <2>3. ASSUME NEW i \in 1 .. m PROVE SubSeq(c, k + 1, n)[i] = item[i]
    <3>1. k + i \in k + 1 .. n /\ (k + i) - k = i
      BY <1>2
    <3> QED
      BY <1>3, <2>2, <3>1
  <2> QED
    BY <1>1, <2>1, <2>3, SameContent
<1> QED
  BY <1>3, <1>4, <1>7, <1>9, <1>10 DEF HasInt

LEMMA PutContent ==
    ASSUME NEW h, Sound(h), NEW d \in DOMAIN h.text, NEW item \in Seq(Char),
           NEW g, g = text_put(h, d, item)
    PROVE  Content(g, d) = Edited(item, Length(h, d))
<1>1. PICK n \in Nat, p \in Nat, f \in DOMAIN h.frame :
         /\ n = h.text[d].length /\ p = h.text[d].start /\ f = h.text[d].frame
         /\ d # NOTEXT /\ n = Length(h, d) /\ h.frame[f] \in Seq(Char)
         /\ p + n <= Len(h.frame[f])
  <2>1. d \in Reference(h) /\ d # NOTEXT
    BY ReferenceFacts DEF Reference
  <2> QED
    BY <2>1, ReferenceFacts DEF Fits, Length
<1>2. PICK s \in Seq(Char) : s = Edited(item, n) /\ Len(s) = n
  BY EditedIs
<1>3. PICK o : o = Overwritten(h, f, p + 0, s)
  OBVIOUS
<1>4. OverwrittenIn(h, o, d, 0, s)
  <2>1. 0 + Len(s) <= h.text[d].length
    BY <1>1, <1>2
  <2> QED
    BY <1>1, <1>3, <2>1, OverwrittenIs
<1>5. Sound(o) /\ d \in DOMAIN o.text /\ o.text[d] = h.text[d]
  BY <1>4 DEF OverwrittenIn
<1>6. \A j \in 1 .. n : o.frame[f][p + j] = s[j]
  <2> SUFFICES ASSUME NEW j \in 1 .. n PROVE o.frame[f][p + j] = s[j]
    OBVIOUS
  <2>1. WrittenAt(h, o, f, p, 0, s, n, j)
    BY <1>1, <1>2, <1>4, OverwrittenAt
  <2>2. p + j \in DOMAIN h.frame[f]
    <3>1. PICK m \in Nat : m = Len(h.frame[f]) /\ DOMAIN h.frame[f] = 1 .. m
      BY <1>1
    <3>2. p + n <= m
      BY <1>1, <3>1
    <3>3. p + j \in 1 .. m
      BY <3>2
    <3> QED
      BY <3>1, <3>3
  <2>3. 0 < j /\ j <= 0 + n /\ j - 0 = j
    OBVIOUS
  <2> QED
    BY <2>1, <2>2, <2>3 DEF WrittenAt
<1>7. g = [o EXCEPT !.text[d].pos = n]
  <2>1. p + 0 = p
    OBVIOUS
  <2> QED
    BY <1>1, <1>2, <1>3, <2>1 DEF text_put
<1>8. Sound(g) /\ g.frame = o.frame /\ SameTexts(o, g)
  <2>1. n \in 0 .. o.text[d].length
    <3>1. o.text[d].length = n
      BY <1>1, <1>5
    <3>2. n \in 0 .. n
      OBVIOUS
    <3> QED
      BY <3>1, <3>2
  <2> QED
    BY <1>5, <1>7, <2>1, CursorMoves
<1>9. d \in DOMAIN g.text /\ g.text[d].frame = f /\ g.text[d].start = p /\ g.text[d].length = n
  BY <1>1, <1>5, <1>8 DEF SameTexts, SameWindow
<1>10. /\ Content(g, d) \in Seq(Char) /\ Len(Content(g, d)) = n
       /\ \A i \in 1 .. n : Content(g, d)[i] = o.frame[f][p + i]
  <2>1. Spells(Content(g, d), g, f, p, n)
    BY <1>8, <1>9, WindowContent
  <2> QED
    BY <1>8, <2>1 DEF Spells
<1>11. Content(g, d) = s
  <2>1. \A i \in 1 .. n : Content(g, d)[i] = s[i]
    BY <1>6, <1>10
  <2> QED
    BY <1>2, <1>10, <2>1, SameContent
<1> QED
  BY <1>1, <1>2, <1>11

LEMMA IInvPutReadsBack == IInv => PutReadsBack
<1> SUFFICES ASSUME IInv, NEW x \in Var, NEW item \in Item \cap Unsigned,
                    Len(item) <= Length(Heap, var[x]),
                    NEW h, h = text_put(Heap, var[x], item),
                    NEW c, c = Content(h, var[x])
             PROVE  /\ HasInt(c) /\ IntEnd(c) = Len(c)
                    /\ SubSeq(c, SignEnd(c) + 1, Len(c)) = item
                    /\ \A y \in Var : Cells(var[y]) \cap Cells(var[x]) = {} =>
                                         Content(h, var[y]) = Reads(var[y])
  BY DEF PutReadsBack
<1>1. PICK d \in Reference(Heap) : d = var[x]
  BY HeapSound
<1>2. item \in Seq(Char) /\ item \in Unsigned /\ item \in Item
  BY TextsAssumption
<1>3. d # NOTEXT /\ d \in DOMAIN Heap.text
  <2>1. Len(item) \in Nat /\ Len(item) # 0
    BY <1>2 DEF Unsigned
  <2>2. d # NOTEXT
    BY <1>1, <2>1 DEF Length
  <2> QED
    BY <2>2 DEF Reference
<1>4. PICK n \in Nat : n = Length(Heap, d)
  BY HeapSound, ContentIs
<1>5. c = Edited(item, n)
  BY <1>1, <1>2, <1>3, <1>4, HeapSound, PutContent
<1>6. /\ HasInt(c) /\ IntEnd(c) = Len(c)
      /\ SubSeq(c, SignEnd(c) + 1, Len(c)) = item
  BY <1>1, <1>2, <1>4, <1>5, GetWhatWasPut
<1>7. Touched(Heap, h, d)
  BY <1>1, <1>2, HeapSound, PutEdits, EditsTouch
<1>8. ASSUME NEW b \in Reference(Heap), Cells(b) \cap Cells(d) = {}
      PROVE  Content(h, b) = Reads(b)
  BY <1>7, <1>8, ElsewhereKept DEF Reads
<1> QED
  BY <1>1, <1>6, <1>8, HeapSound

\* What PUTINT writes GETINT reads back, for every number without a sign that
\* fits and every window it is put in, and nothing else is written.
THEOREM ReadsBack == Spec => []PutReadsBack
BY IInvPutReadsBack, Invariance, PTL

-----------------------------------------------------------------------------
(* The refinement: every statement is one of shared texts.                 *)

\* What a descriptor lets its variables see.
WindowOf(t) == [object |-> t.frame, start |-> t.start, length |-> t.length]

LEMMA WindowOfIs ==
    ASSUME NEW t \in Descriptors
    PROVE  /\ WindowOf(t) # NOTEXT
           /\ WindowOf(t).object = t.frame /\ WindowOf(t).start = t.start
           /\ WindowOf(t).length = t.length
<1>1. WindowOf(t) \in [object : Int, start : Int, length : Int]
  BY DEF WindowOf, Descriptors, Address
<1> QED
  BY <1>1, TextsAssumption DEF WindowOf

\* What the variables see in a memory that has what they hold.
LEMMA SeenIs ==
    ASSUME NEW t, t \in [DOMAIN t -> Descriptors], NEW v \in [Var -> DOMAIN t \cup {NOTEXT}],
           NEW w, w = [x \in Var |-> IF v[x] = NOTEXT THEN NOTEXT ELSE WindowOf(t[v[x]])]
    PROVE  /\ Shared!Seen(w) = {t[d].frame : d \in Live(v)}
           /\ \A x \in Var : w[x] = NOTEXT <=> v[x] = NOTEXT
<1>1. \A x \in Var : /\ w[x] = NOTEXT <=> v[x] = NOTEXT
                     /\ v[x] # NOTEXT => w[x].object = t[v[x]].frame
  <2> SUFFICES ASSUME NEW x \in Var
               PROVE  /\ w[x] = NOTEXT <=> v[x] = NOTEXT
                      /\ v[x] # NOTEXT => w[x].object = t[v[x]].frame
    OBVIOUS
  <2>1. CASE v[x] = NOTEXT
    BY <2>1
  <2>2. CASE v[x] # NOTEXT
    <3>1. t[v[x]] \in Descriptors /\ w[x] = WindowOf(t[v[x]])
      BY <2>2
    <3> QED
      BY <2>2, <3>1, WindowOfIs
  <2> QED
    BY <2>1, <2>2
<1>2. Shared!Seen(w) = {w[x].object : x \in {y \in Var : w[y] # NOTEXT}}
  BY DEF Shared!Seen
<1>3. ASSUME NEW f, f \in Shared!Seen(w) PROVE f \in {t[d].frame : d \in Live(v)}
  <2>1. PICK x \in Var : w[x] # NOTEXT /\ f = w[x].object
    BY <1>2, <1>3
  <2>2. v[x] \in Live(v) /\ f = t[v[x]].frame
    BY <1>1, <2>1 DEF Live
  <2> QED
    BY <2>2
<1>4. ASSUME NEW d \in Live(v) PROVE t[d].frame \in Shared!Seen(w)
  <2>1. PICK x \in Var : d = v[x] /\ d # NOTEXT
    BY DEF Live
  <2>2. w[x] # NOTEXT /\ w[x].object = t[d].frame
    BY <1>1, <2>1
  <2> QED
    BY <1>2, <2>2
<1> QED
  BY <1>1, <1>3, <1>4

\* The next state of the variables and of what they see, when h is settled.
Settled(h, v) ==
    /\ Windows' = [x \in Var |-> IF v[x] = NOTEXT THEN NOTEXT ELSE WindowOf(h.text[v[x]])]
    /\ Shared!Seen(Windows') = FramesOf(h, v)
    /\ frame' = [f \in FramesOf(h, v) |-> h.frame[f]]
    /\ status' = status /\ status = "running"

LEMMA SettledWindows ==
    ASSUME NEW h, Sound(h), NEW v \in [Var -> Reference(h)], Settle(h, v)
    PROVE  Settled(h, v)
<1>1. /\ var' = v /\ frame' = [f \in FramesOf(h, v) |-> h.frame[f]]
      /\ status' = status /\ status = "running"
  BY DEF Settle, Restrict
<1>2. \A x \in Var : v[x] # NOTEXT => v[x] \in Live(v)
  BY DEF Live
<1>3. \A d \in Live(v) : text'[d] = h.text[d]
  BY SettleIInv
<1>4. Windows' = [x \in Var |-> IF v[x] = NOTEXT THEN NOTEXT ELSE WindowOf(h.text[v[x]])]
  BY <1>1, <1>2, <1>3 DEF Windows, Window, WindowOf
<1>5. h.text \in [DOMAIN h.text -> Descriptors] /\ v \in [Var -> DOMAIN h.text \cup {NOTEXT}]
  BY DEF Sound, Reference
<1>6. PICK w : w = Windows'
  OBVIOUS
<1>7. Shared!Seen(w) = {h.text[d].frame : d \in Live(v)}
  BY <1>4, <1>5, <1>6, SeenIs
<1> QED
  BY <1>1, <1>4, <1>6, <1>7 DEF FramesOf, Settled

LEMMA WindowsAre ==
    ASSUME IInv
    PROVE  /\ Windows = [x \in Var |-> IF var[x] = NOTEXT THEN NOTEXT
                                       ELSE WindowOf(text[var[x]])]
           /\ \A x \in Var : Windows[x] = NOTEXT <=> var[x] = NOTEXT
<1>1. Windows = [x \in Var |-> IF var[x] = NOTEXT THEN NOTEXT ELSE WindowOf(text[var[x]])]
  BY DEF Windows, Window, WindowOf
<1>2. text \in [DOMAIN text -> Descriptors] /\ var \in [Var -> DOMAIN text \cup {NOTEXT}]
  BY DEF IInv, TypeOK, Descriptors
<1>3. PICK w : w = Windows
  OBVIOUS
<1>4. \A x \in Var : w[x] = NOTEXT <=> var[x] = NOTEXT
  BY <1>1, <1>2, <1>3, SeenIs
<1> QED
  BY <1>1, <1>3, <1>4

LEMMA WriteRefines ==
    ASSUME IInv, NEW x \in Var, Writes(x)
    PROVE  Shared!Write(x) \/ UNCHANGED Shared!vars
<1>1. PICK g : Touched(Heap, g, var[x]) /\ Settle(g, var)
  BY DEF Writes
<1>2. /\ Sound(g)
      /\ \A d \in DOMAIN text : d \in DOMAIN g.text /\ SameWindow(g.text[d], text[d])
  BY <1>1, HeapSound DEF Touched
<1>3. var \in [Var -> Reference(g)] /\ var \in [Var -> DOMAIN text \cup {NOTEXT}]
  BY <1>2 DEF IInv, TypeOK, Reference
<1>4. Windows' = Windows
  <2>1. \A y \in Var : var[y] # NOTEXT => WindowOf(g.text[var[y]]) = WindowOf(text[var[y]])
    BY <1>2, <1>3 DEF WindowOf, SameWindow
  <2>2. Windows' = [y \in Var |-> IF var[y] = NOTEXT THEN NOTEXT
                                  ELSE WindowOf(g.text[var[y]])]
    BY <1>1, <1>2, <1>3, SettledWindows DEF Settled
  <2> QED
    BY <2>1, <2>2, WindowsAre
<1>5. FramesOf(g, var) = DOMAIN frame
  <2>1. \A d \in Live(var) : g.text[d].frame = text[d].frame
    BY <1>2, <1>3 DEF Live, SameWindow
  <2>2. DOMAIN frame = {text[d].frame : d \in Live(var)}
    BY HeapSound DEF IInv, Tidy, FramesOf
  <2> QED
    BY <2>1, <2>2 DEF FramesOf
<1>6. /\ frame' = [f \in DOMAIN frame |-> g.frame[f]]
      /\ status' = status
  BY <1>1, <1>2, <1>3, <1>5, SettledWindows DEF Settled
<1>7. ASSUME NEW f \in DOMAIN frame
      PROVE  /\ Len(g.frame[f]) = Len(frame[f])
             /\ g.frame[f] \in Seq(Char) /\ frame[f] \in Seq(Char)
             /\ \A i \in DOMAIN frame[f] :
                   \/ /\ var[x] # NOTEXT /\ f = text[var[x]].frame
                      /\ i \in text[var[x]].start + 1
                               .. text[var[x]].start + text[var[x]].length
                   \/ g.frame[f][i] = frame[f][i]
  <2>1. f \in DOMAIN g.frame /\ g.frame[f] \in Seq(Char) /\ frame[f] \in Seq(Char)
    BY <1>1, HeapSound DEF Touched, Sound
  <2> QED
    BY <1>1, <2>1, HeapSound DEF Touched
<1>8. CASE var[x] = NOTEXT
  <2>1. \A f \in DOMAIN frame : \A i \in 1 .. Len(frame[f]) : g.frame[f][i] = frame[f][i]
    BY <1>7, <1>8
  <2>2. \A f \in DOMAIN frame : g.frame[f] = frame[f]
    BY <1>7, <2>1, SameContent
  <2>3. frame' = frame
    BY <1>6, <2>2 DEF IInv, TypeOK
  <2> QED
    BY <1>4, <1>6, <2>3 DEF Shared!vars
<1>9. CASE var[x] # NOTEXT
  <2>1. Windows[x] = WindowOf(text[var[x]]) /\ Windows[x] # NOTEXT
    BY <1>9, WindowsAre
  <2>2. /\ Windows[x].object = text[var[x]].frame
        /\ Windows[x].start = text[var[x]].start
        /\ Windows[x].length = text[var[x]].length
    BY <2>1 DEF WindowOf
  <2>3. \A f \in DOMAIN frame :
           /\ Len(frame'[f]) = Len(frame[f])
           /\ \A i \in DOMAIN frame[f] :
                 Shared!Holds(Windows[x], f, i) \/ frame'[f][i] = frame[f][i]
    BY <1>6, <1>7, <2>2 DEF Shared!Holds
  <2> QED
    BY <1>4, <1>6, <2>1, <2>3 DEF Shared!Write
<1> QED
  BY <1>8, <1>9

\* Another value of x: what the other variables see stays, and a frame in use
\* is an old one or the one of the new value.
Bound(x, g, w, used) ==
    /\ w = [Windows EXCEPT ![x] = w[x]]
    /\ w[x] = IF g.res = NOTEXT THEN NOTEXT ELSE WindowOf(g.text[g.res])
    /\ g.res # NOTEXT => g.res \in DOMAIN g.text /\ g.text[g.res] \in Descriptors
    /\ Shared!Seen(w) = used
    /\ \A f \in used : f \in DOMAIN frame \/ (g.res # NOTEXT /\ f = g.text[g.res].frame)
    /\ g.res # NOTEXT => g.text[g.res].frame \in used
    /\ frame' = [f \in used |-> g.frame[f]]
    /\ \A f \in DOMAIN frame : g.frame[f] = frame[f]
    /\ status' = status

LEMMA BoundWindows ==
    ASSUME IInv, NEW x \in Var, NEW g, Outcome(Heap, g),
           NEW v, v = [var EXCEPT ![x] = g.res], Settle(g, v)
    PROVE  Bound(x, g, Windows', FramesOf(g, v))
<1>1. /\ Sound(g) /\ Grows(Heap, g) /\ g.res \in Reference(g)
      /\ Heap.text = text /\ Heap.frame = frame /\ Sound(Heap)
  BY HeapSound, ReferenceFacts DEF Outcome
<1>2. /\ \A d \in DOMAIN text :
            /\ d \in DOMAIN g.text /\ SameWindow(g.text[d], text[d])
            /\ text[d].frame \in DOMAIN frame
      /\ \A f \in DOMAIN frame : g.frame[f] = frame[f]
  BY <1>1 DEF Grows, IInv, WindowsInside
<1>3. /\ var \in [Var -> DOMAIN text \cup {NOTEXT}]
      /\ v \in [Var -> Reference(g)] /\ v[x] = g.res
      /\ \A y \in Var \ {x} : v[y] = var[y]
  <2>1. var \in [Var -> DOMAIN text \cup {NOTEXT}]
    BY DEF IInv, TypeOK
  <2>2. DOMAIN text \cup {NOTEXT} \subseteq Reference(g)
    BY <1>2 DEF Reference
  <2> QED
    BY <1>1, <2>1, <2>2
<1>4. /\ Windows' = [y \in Var |-> IF v[y] = NOTEXT THEN NOTEXT
                                   ELSE WindowOf(g.text[v[y]])]
      /\ Shared!Seen(Windows') = FramesOf(g, v)
      /\ frame' = [f \in FramesOf(g, v) |-> g.frame[f]]
      /\ status' = status /\ status = "running"
  <2>1. Settled(g, v)
    BY <1>1, <1>3, SettledWindows
  <2> QED
    BY <2>1 DEF Settled
<1>5. Windows' = [Windows EXCEPT ![x] = Windows'[x]]
  <2>1. \A y \in Var \ {x} : var[y] # NOTEXT =>
           WindowOf(g.text[var[y]]) = WindowOf(text[var[y]])
    BY <1>2, <1>3 DEF WindowOf, SameWindow
  <2>2. Windows = [y \in Var |-> IF var[y] = NOTEXT THEN NOTEXT
                                 ELSE WindowOf(text[var[y]])]
    BY WindowsAre
  <2>3. \A y \in Var \ {x} : Windows'[y] = Windows[y]
    BY <1>3, <1>4, <2>1, <2>2
  <2>4. DOMAIN Windows' = Var /\ DOMAIN Windows = Var
        /\ Windows' = [y \in Var |-> Windows'[y]]
    BY <1>4, <2>2
  <2> QED
    BY <2>2, <2>3, <2>4
<1>6. g.res # NOTEXT => g.res \in DOMAIN g.text /\ g.text[g.res] \in Descriptors
  BY <1>1, ReferenceFacts
<1>7. ASSUME NEW f \in FramesOf(g, v)
      PROVE  f \in DOMAIN frame \/ (g.res # NOTEXT /\ f = g.text[g.res].frame)
  <2>1. PICK y \in Var : v[y] # NOTEXT /\ f = g.text[v[y]].frame
    BY DEF FramesOf, Live
  <2>2. CASE y = x
    BY <1>3, <2>1, <2>2
  <2>3. CASE y # x
    BY <1>2, <1>3, <2>1, <2>3 DEF SameWindow
  <2> QED
    BY <2>2, <2>3
<1>8. g.res # NOTEXT => g.text[g.res].frame \in FramesOf(g, v)
  BY <1>3 DEF FramesOf, Live
<1> QED
  BY <1>2, <1>3, <1>4, <1>5, <1>6, <1>7, <1>8 DEF Bound

LEMMA BindRefines ==
    ASSUME IInv, NEW x \in Var, Binds(x)
    PROVE  Shared!Bind(x)
<1>1. PICK g : Outcome(Heap, g) /\ Settle(g, [var EXCEPT ![x] = g.res])
  BY DEF Binds
<1>2. PICK v : v = [var EXCEPT ![x] = g.res] /\ Settle(g, v)
  BY <1>1
<1>3. PICK w : w = Windows'
  OBVIOUS
<1>4. PICK used : used = FramesOf(g, v)
  OBVIOUS
<1>9. Bound(x, g, w, used)
  BY <1>1, <1>2, <1>3, <1>4, BoundWindows
<1>5. /\ w = [Windows EXCEPT ![x] = w[x]]
      /\ w[x] = IF g.res = NOTEXT THEN NOTEXT ELSE WindowOf(g.text[g.res])
      /\ g.res # NOTEXT => g.res \in DOMAIN g.text /\ g.text[g.res] \in Descriptors
      /\ Shared!Seen(w) = used
      /\ \A f \in used : f \in DOMAIN frame \/ (g.res # NOTEXT /\ f = g.text[g.res].frame)
      /\ g.res # NOTEXT => g.text[g.res].frame \in used
      /\ frame' = [f \in used |-> g.frame[f]]
      /\ \A f \in DOMAIN frame : g.frame[f] = frame[f]
      /\ status' = status
  BY <1>9 DEF Bound
<1>6. CASE g.res = NOTEXT
  <2>1. frame' = Shared!Restrict(frame, used) /\ w[x] = NOTEXT
    BY <1>5, <1>6 DEF Shared!Restrict
  <2> QED
    BY <1>3, <1>5, <2>1 DEF Shared!Bind, Shared!Narrow
<1>7. CASE g.res # NOTEXT /\ PartOf(Heap, g)
  <2>1. PICK d \in DOMAIN text :
           LET t == text[d]
               u == g.text[g.res]
           IN  /\ u.frame = t.frame
               /\ \/ t.start <= u.start /\ u.start + u.length <= t.start + t.length
                  \/ u.start = 0 /\ u.length = Len(frame[t.frame])
    BY <1>7, HeapSound DEF PartOf
  <2>2. PICK y \in Var : var[y] = d /\ d # NOTEXT
    BY DEF IInv, Tidy, Live
  <2>3. Windows[y] = WindowOf(text[d]) /\ Windows[y] # NOTEXT
    BY <2>2, WindowsAre
  <2>4. w[x] = WindowOf(g.text[g.res]) /\ w[x] # NOTEXT
    BY <1>5, <1>7, WindowOfIs
  <2>5. \/ Shared!Within(w[x], Windows[y])
        \/ w[x] = Shared!Whole(Windows[y].object, frame[Windows[y].object])
    BY <2>1, <2>3, <2>4 DEF WindowOf, Shared!Within, Shared!Whole
  <2>6. frame' = Shared!Restrict(frame, used)
    <3>1. text[d].frame \in DOMAIN frame
      BY DEF IInv, WindowsInside
    <3>2. \A f \in used : f \in DOMAIN frame
      BY <1>5, <2>1, <3>1
    <3> QED
      BY <1>5, <3>2 DEF Shared!Restrict
  <2> QED
    BY <1>3, <1>5, <2>3, <2>4, <2>5, <2>6 DEF Shared!Bind, Shared!Narrow
<1>8. ASSUME NEW s \in Seq(Char), g.res # NOTEXT, Makes(Heap, g, s)
      PROVE  Shared!Bind(x)
  <2>1. PICK o : /\ o = g.text[g.res].frame /\ o \notin DOMAIN frame
                 /\ g.frame[o] = s /\ g.text[g.res].start = 0
                 /\ g.text[g.res].length = Len(s)
    BY <1>8, HeapSound DEF Makes
  <2>2. o \in used /\ DOMAIN frame' = used /\ frame'[o] = s
    BY <1>5, <1>8, <2>1
  <2>3. w[x] = Shared!Whole(o, frame'[o])
    BY <1>5, <1>8, <2>1, <2>2 DEF WindowOf, Shared!Whole
  <2>4. Shared!Restrict(frame', DOMAIN frame' \ {o}) = Shared!Restrict(frame, used \ {o})
    <3>1. \A f \in used \ {o} : frame'[f] = frame[f]
      BY <1>5, <2>1
    <3> QED
      BY <2>2, <3>1 DEF Shared!Restrict
  <2>5. Shared!Create(x)
    BY <1>3, <1>5, <2>1, <2>2, <2>3, <2>4 DEF Shared!Create
  <2> QED
    BY <1>3, <1>5, <2>5 DEF Shared!Bind
<1> QED
  BY <1>1, <1>6, <1>7, <1>8 DEF Outcome

\* A TEXT program, however its descriptors share frames, is a program with
\* shared texts: a statement lets one variable see something else, or changes
\* characters of what one variable sees, and nothing else.
THEOREM Refinement == Spec => ImplementsSharedTexts
<1>1. Init => Shared!Init
  BY DEF Init, Windows, Window, Shared!Init
<1>2. ASSUME IInv, Next PROVE Shared!Next \/ UNCHANGED Shared!vars
  <2>1. CASE Error
    <3>1. /\ status = "running" /\ status' = "error" /\ frame' = <<>>
          /\ var' = [y \in Var |-> NOTEXT]
      BY <2>1 DEF Error
    <3>2. Windows' = [y \in Var |-> NOTEXT]
      BY <3>1 DEF Windows, Window
    <3> QED
      BY <3>1, <3>2 DEF Shared!Next, Shared!Fail
  <2>2. ASSUME NEW x \in Var, Binds(x) PROVE Shared!Next
    <3>1. status = "running"
      BY <2>2 DEF Binds, Settle
    <3> QED
      BY <1>2, <2>2, <3>1, BindRefines DEF Shared!Next
  <2>3. ASSUME NEW x \in Var, Writes(x) PROVE Shared!Next \/ UNCHANGED Shared!vars
    <3>1. status = "running"
      BY <2>3 DEF Writes, Settle
    <3> QED
      BY <1>2, <2>3, <3>1, WriteRefines DEF Shared!Next
  <2> QED
    BY <1>2, <2>1, <2>2, <2>3, StepKinds
<1>3. UNCHANGED vars => UNCHANGED Shared!vars
  BY DEF vars, Shared!vars, Windows, Window
<1>4. IInv /\ [Next]_vars => [Shared!Next]_(Shared!vars)
  BY <1>2, <1>3
<1> QED
  BY <1>1, <1>4, Invariance, PTL DEF Spec, ImplementsSharedTexts, Shared!Spec
=============================================================================
