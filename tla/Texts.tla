-------------------------------- MODULE Texts --------------------------------
(***************************************************************************)
(* The TEXT runtime (runtime/simula_rt.c 434-876, simula_rt.h 16-28) under *)
(* the statements the compiler makes of TEXT assignments (codegen.cpp).    *)
(*                                                                         *)
(* A variable holds NOTEXT or a pointer to a descriptor, a descriptor      *)
(* points to a frame of characters.  Both are allocated and never freed;   *)
(* the model forgets those that no variable reaches any more, which lets   *)
(* a bounded set of names stand for unbounded allocation.                  *)
(***************************************************************************)
EXTENDS TextItems, Integers, FiniteSets, Functions

CONSTANTS Var,        \* variables, fields, array elements and parameters
          NOTEXT,     \* the null pointer
          Char,       \* characters programs write
          Literal,    \* contents of text constants
          Item,       \* integer items, as snprintf writes them
          MaxLength,  \* the largest number passed
          MaxLive,    \* characters of all frames that are in use
          MaxKinds    \* different characters in one frame

\* UPCASE and LOWCASE; two letters stand for the alphabet.
Upper == [e |-> "E", x |-> "X"]
Lower == [E |-> "e", X |-> "x"]
ClosedUnder(table) == \A c \in Char \cap DOMAIN table : table[c] \in Char

ASSUME TextsAssumption ==
    /\ IsFiniteSet(Var) /\ {MaxLength, MaxLive, MaxKinds} \subseteq Nat
    /\ NOTEXT \notin Int
    /\ NOTEXT \notin [object : Int, start : Int, length : Int]
    /\ Literal \subseteq Seq(Char) /\ Item \subseteq Seq(Char)
    /\ {Blank, Asterisk} \subseteq Char
    /\ ClosedUnder(Upper) /\ ClosedUnder(Lower)

VARIABLES frame,   \* char*: storage by address
          text,    \* SimulaText*: descriptors by address
          var,     \* what each variable holds
          status   \* "running", or "error" after exit(1)
vars == <<frame, text, var, status>>

\* Addresses, and the first one that the memory m does not use.
Address == Nat \ {0}
New(m) == Min((1 .. Cardinality(DOMAIN m) + 1) \ DOMAIN m)
Extended(m, a, v) == [b \in DOMAIN m \cup {a} |-> IF b = a THEN v ELSE m[b]]

\* st_new, and the two ways it is used: over a fresh frame with contents s,
\* and over part of the frame of another descriptor.  Each runtime function
\* returns the storage it leaves and its result.
Descriptor(f, start, length, framelen) ==
    [frame |-> f, start |-> start, length |-> length, pos |-> 0,
     framelen |-> framelen]
Fresh(h, s) ==
    LET f == New(h.frame)
        d == New(h.text)
    IN  [frame |-> Extended(h.frame, f, s),
         text  |-> Extended(h.text, d, Descriptor(f, 0, Len(s), Len(s))), res |-> d]
Alias(h, t, start, length) ==
    LET d == New(h.text)
    IN  [frame |-> h.frame,
         text  |-> Extended(h.text, d, Descriptor(t.frame, start, length, t.framelen)),
         res   |-> d]
Same(h, d) == [h EXCEPT !.res = d]

Content(h, d) ==
    IF d = NOTEXT THEN <<>>
    ELSE SubSeq(h.frame[h.text[d].frame], h.text[d].start + 1,
                h.text[d].start + h.text[d].length)
Length(h, d) == IF d = NOTEXT THEN 0 ELSE h.text[d].length

-----------------------------------------------------------------------------
\* Functions that return a text.
blanks(h, n)      == Fresh(h, Blanks(Max({n, 0})))
text_dup(h, s)    == Fresh(h, s)
text_copy(h, d)   == Fresh(h, Content(h, d))
text_concat(h, a, b) == Fresh(h, Content(h, a) \o Content(h, b))
text_main(h, d) ==
    IF d = NOTEXT THEN Same(h, NOTEXT)
    ELSE Alias(h, h.text[d], 0, h.text[d].framelen)
text_strip(h, d) ==
    IF d = NOTEXT THEN Fresh(h, <<>>)
    ELSE LET c == Content(h, d)
             kept == Max({0} \cup {i \in DOMAIN c : c[i] # Blank})
         IN  Alias(h, h.text[d], h.text[d].start, kept)

\* Faulty variant: one character past the text is let through.
SubOneMore(h, d, i, n) == i >= 1 /\ n >= 0 /\ i - 1 + n <= Length(h, d) + 1

\* SUB(i, n) counts from 1; the check is the standard's.
SubInside(h, d, i, n) == i >= 1 /\ n >= 0 /\ i - 1 + n <= Length(h, d)

\* Faulty variant: the start counted from the frame, not from the text.
SubOfFrame(h, d, i, n) ==
    IF d = NOTEXT THEN Fresh(h, <<>>) ELSE Alias(h, h.text[d], i - 1, n)

text_sub(h, d, i, n) ==
    IF d = NOTEXT THEN Fresh(h, <<>>)
    ELSE Alias(h, h.text[d], h.text[d].start + (i - 1), n)

\* INTEXT(n): as much of n as is left, and the cursor goes past it.
text_intext(h, d, n) ==
    IF d = NOTEXT THEN Fresh(h, <<>>)
    ELSE LET t == h.text[d]
             taken == Min({Max({n, 0}), t.length - t.pos})
         IN  Alias([h EXCEPT !.text[d].pos = @ + taken], t, t.start + t.pos, taken)

-----------------------------------------------------------------------------
\* Functions that write characters: s goes to offset at of frame f.
Overwritten(h, f, at, s) ==
    [h EXCEPT !.frame[f] =
        [i \in DOMAIN @ |-> IF i \in at + 1 .. at + Len(s) THEN s[i - at] ELSE @[i]]]

\* memcpy of n characters within or between frames.  Where the two ranges
\* overlap its outcome is undefined: the characters may be taken before any is
\* stored, or moved one by one from either end.
Moved(h, f, to, g, from, n) ==
    LET src(i) == h.frame[g][from + i]
        gap == to - from
    IN  {[i \in 1 .. n |-> src(i)]}
        \cup (IF f = g /\ gap \in 1 .. n - 1
              THEN {[i \in 1 .. n |-> src(((i - 1) % gap) + 1)]} ELSE {})
        \cup (IF f = g /\ -gap \in 1 .. n - 1
              THEN {[i \in 1 .. n |-> src(n - ((n - i) % (-gap)))]} ELSE {})
memcpy(h, f, to, g, from, n) ==
    {Overwritten(h, f, to, s) : s \in Moved(h, f, to, g, from, n)}

\* Faulty variant: a longer target keeps its old end.
AssignUnfilled(h, dst, src) ==
    IF dst = NOTEXT THEN {text_copy(h, src)}
    ELSE LET t == h.text[dst]
             n == Min({Length(h, src), t.length})
         IN  {Same(c, dst) : c \in
                IF n = 0 THEN {h}
                ELSE memcpy(h, t.frame, t.start,
                            h.text[src].frame, h.text[src].start, n)}

\* := copies what fits and fills with blanks, or binds a copy of the source.
text_assign(h, dst, src) ==
    IF dst = NOTEXT THEN {text_copy(h, src)}
    ELSE LET t == h.text[dst]
             n == Min({Length(h, src), t.length})
             copied == IF n = 0 THEN {h}
                       ELSE memcpy(h, t.frame, t.start,
                                   h.text[src].frame, h.text[src].start, n)
         IN  {Same(Overwritten(c, t.frame, t.start + n, Blanks(t.length - n)), dst) :
                 c \in copied}

text_setpos(h, d, p) ==
    IF d = NOTEXT THEN h
    ELSE [h EXCEPT !.text[d].pos = IF p - 1 \in 0 .. h.text[d].length THEN p - 1
                                   ELSE h.text[d].length]
text_getchar(h, d) ==
    IF d = NOTEXT \/ h.text[d].pos >= h.text[d].length THEN h
    ELSE [h EXCEPT !.text[d].pos = @ + 1]
text_putchar(h, d, c) ==
    IF d = NOTEXT \/ h.text[d].pos >= h.text[d].length THEN h
    ELSE LET t == h.text[d]
         IN  [Overwritten(h, t.frame, t.start + t.pos, <<c>>)
                 EXCEPT !.text[d].pos = @ + 1]

\* PUTINT and its kin: the item fills the window, the cursor goes to its end.
text_put(h, d, item) ==
    IF d = NOTEXT THEN h
    ELSE LET t == h.text[d]
         IN  [Overwritten(h, t.frame, t.start, Edited(item, t.length))
                 EXCEPT !.text[d].pos = t.length]

\* Faulty variant: characters that are no letters are shifted too.
ShiftedBlindly(s, table) ==
    [i \in DOMAIN s |-> IF s[i] \in DOMAIN table THEN table[s[i]] ELSE "?"]

Recased(s, table) ==
    [i \in DOMAIN s |-> IF s[i] \in DOMAIN table THEN table[s[i]] ELSE s[i]]
text_recase(h, d, table) ==
    IF d = NOTEXT THEN h
    ELSE Overwritten(h, h.text[d].frame, h.text[d].start,
                     Recased(Content(h, d), table))

-----------------------------------------------------------------------------
\* TEXT expressions.  A nested one is several statements of the model, with
\* variables for the parts.
Expression ==
    [op : {"NOTEXT"}] \cup [op : {"constant"}, s : Literal]
    \cup [op : {"BLANKS"}, n : {-1, 1, MaxLength}]
    \cup [op : {"variable", "COPY", "STRIP", "MAIN"}, of : Var]
    \cup [op : {"SUB"}, of : Var, i : 0 .. MaxLength + 1, n : -1 .. MaxLength]
    \cup [op : {"INTEXT"}, of : Var, n : {-1, 1, MaxLength}]
    \cup [op : {"&"}, of : Var, and : Var]

Eval(h, e) ==
    CASE e.op = "NOTEXT"   -> Same(h, NOTEXT)
      [] e.op = "constant" -> text_dup(h, e.s)
      [] e.op = "BLANKS"   -> blanks(h, e.n)
      [] e.op = "variable" -> Same(h, var[e.of])
      [] e.op = "COPY"     -> text_copy(h, var[e.of])
      [] e.op = "STRIP"    -> text_strip(h, var[e.of])
      [] e.op = "MAIN"     -> text_main(h, var[e.of])
      [] e.op = "SUB"      -> text_sub(h, var[e.of], e.i, e.n)
      [] e.op = "INTEXT"   -> text_intext(h, var[e.of], e.n)
      [] e.op = "&"        -> text_concat(h, var[e.of], var[e.and])

Heap == [frame |-> frame, text |-> text, res |-> NOTEXT]
Faults(e) == e.op = "SUB" /\ ~ SubInside(Heap, var[e.of], e.i, e.n)

\* The end of a statement; what no variable reaches is forgotten.
Live(v) == {v[x] : x \in Var} \ {NOTEXT}
FramesOf(h, v) == {h.text[d].frame : d \in Live(v)}
WithinBounds(h, seen) ==
    /\ MapThenSumSet(LAMBDA f : Len(h.frame[f]), seen) <= MaxLive
    /\ \A f \in seen : Cardinality(ToSet(h.frame[f])) <= MaxKinds
Settle(h, v) ==
    /\ status = "running"
    /\ WithinBounds(h, FramesOf(h, v))
    /\ frame' = Restrict(h.frame, FramesOf(h, v))
    /\ text' = Restrict(h.text, Live(v))
    /\ var' = v
    /\ UNCHANGED status

\* exit(1): the memory of the program is gone.
Error == /\ status = "running"
         /\ frame' = <<>> /\ text' = <<>>
         /\ var' = [x \in Var |-> NOTEXT]
         /\ status' = "error"

-----------------------------------------------------------------------------
Init == /\ frame = <<>> /\ text = <<>>
        /\ var = [x \in Var |-> NOTEXT]
        /\ status = "running"

\* x :- e; also a parameter by reference, and by value with e a COPY.
Rebind(x, e) ==
    /\ ~ Faults(e)
    /\ LET r == Eval(Heap, e) IN Settle(r, [var EXCEPT ![x] = r.res])

\* x := e
Assign(x, e) ==
    /\ ~ Faults(e)
    /\ LET r == Eval(Heap, e)
       IN  \E a \in text_assign(r, var[x], r.res) :
              Settle(a, [var EXCEPT ![x] = a.res])

\* x.SUB(i, n) := e and x.STRIP := e: the view is made before e is evaluated.
\* x.MAIN := e is y :- x.MAIN and y := e, as far as anybody can see.
View(x) == {e \in Expression : e.op \in {"SUB", "STRIP"} /\ e.of = x}
AssignView(v, e) ==
    /\ ~ Faults(v) /\ ~ Faults(e)
    /\ LET w == Eval(Heap, v)
           r == Eval(w, e)
       IN  \E a \in text_assign(r, w.res, r.res) : Settle(a, var)

SetPos(x, p)  == Settle(text_setpos(Heap, var[x], p), var)
GetChar(x)    == Settle(text_getchar(Heap, var[x]), var)
PutChar(x, c) == Settle(text_putchar(Heap, var[x], c), var)
Put(x, item)  == Settle(text_put(Heap, var[x], item), var)
Recase(x, table) == Settle(text_recase(Heap, var[x], table), var)

\* GETINT, GETFRAC and GETREAL scan from the start of the text, and leave the
\* cursor behind the item or stop the program.
DeEdit(x, found, end) ==
    IF var[x] = NOTEXT \/ ~ found THEN Error
    ELSE Settle([Heap EXCEPT !.text[var[x]].pos = end], var)
Reads(d)   == Content(Heap, d)
GetInt(x)  == DeEdit(x, HasInt(Reads(var[x])), IntEnd(Reads(var[x])))
GetFrac(x) == DeEdit(x, HasFrac(Reads(var[x])), FracEnd(Reads(var[x])))
GetReal(x) == DeEdit(x, HasReal(Reads(var[x])), RealEnd(Reads(var[x])))

Halt == \E e \in Expression : Faults(e) /\ Error

\* A view is assigned from a variable; other sources reach it through one.
Source == {e \in Expression : e.op = "variable"}

Operate(x) ==
    \/ \E e \in Expression : Rebind(x, e)
    \/ \E e \in Expression : Assign(x, e)
    \/ \E v \in View(x), e \in Source : AssignView(v, e)
    \/ \E p \in 0 .. MaxLength + 2 : SetPos(x, p)
    \/ GetChar(x)
    \/ \E c \in Char : PutChar(x, c)
    \/ \E item \in Item : Put(x, item)
    \/ Recase(x, Upper)
    \/ Recase(x, Lower)
    \/ GetInt(x)
    \/ GetFrac(x)
    \/ GetReal(x)

Next == Halt \/ \E x \in Var : Operate(x)
Spec == Init /\ [][Next]_vars

-----------------------------------------------------------------------------
\* Type invariant.
TypeOK ==
    /\ DOMAIN frame \subseteq Address /\ frame \in [DOMAIN frame -> Seq(Char)]
    /\ DOMAIN text \subseteq Address
    /\ text \in [DOMAIN text -> [frame : Address, start : Int, length : Int,
                                 pos : Int, framelen : Int]]
    /\ var \in [Var -> DOMAIN text \cup {NOTEXT}]
    /\ status \in {"running", "error"}

\* Whatever chain of SUB, STRIP, MAIN and INTEXT made a descriptor, its window
\* lies in its frame, its cursor in 0 .. length, and it still knows how long
\* the frame is, so that MAIN recovers the whole text (simula_rt.h 16-28).
WindowsInside ==
    \A d \in DOMAIN text :
        LET t == text[d]
        IN  /\ t.frame \in DOMAIN frame
            /\ t.framelen = Len(frame[t.frame])
            /\ t.start >= 0 /\ t.length >= 0
            /\ t.start + t.length <= t.framelen
            /\ t.pos \in 0 .. t.length

\* The window of a descriptor, and whether two windows share characters.
Cells(d) == IF d = NOTEXT THEN {}
            ELSE {<<text[d].frame, i>> :
                     i \in text[d].start + 1 .. text[d].start + text[d].length}

\* What := leaves in the target: the old characters of the source, cut or
\* filled with blanks to the target's length.
Fitted(s, n) == [i \in 1 .. n |-> IF i <= Len(s) THEN s[i] ELSE Blank]

\* x := y, in whatever state it comes, leaves in x the value y had before,
\* wherever the two windows lie as long as they are the same or apart; a
\* variable without a text gets one of its own.  Another variable reads
\* something new only if it shares characters with x, and shares none with a
\* text that is made for x (simula_rt.c 562-575; codegen.cpp 5129-5142).
AssignCopies ==
    \A x, y \in Var :
        Cells(var[x]) = Cells(var[y]) \/ Cells(var[x]) \cap Cells(var[y]) = {} =>
          \A a \in text_assign(Heap, var[x], var[y]) :
            /\ Content(a, a.res) =
                 IF var[x] = NOTEXT THEN Reads(var[y])
                 ELSE Fitted(Reads(var[y]), Length(Heap, var[x]))
            /\ \A z \in Var \ {x} :
                 Cells(var[z]) \cap Cells(var[x]) = {} =>
                    /\ Content(a, var[z]) = Reads(var[z])
                    /\ var[z] # NOTEXT /\ Length(a, a.res) > 0 /\ var[x] = NOTEXT
                         => a.text[a.res].frame # a.text[var[z]].frame

\* A number without a sign that is put into a window it fits in is read back
\* by GETINT to its last digit, also through a SUB of a longer text with digits
\* on both sides, and leaves what lies outside the window alone
\* (simula_rt.c 717-741, 788-795).
PutReadsBack ==
    \A x \in Var, item \in Item \cap Unsigned :
        Len(item) <= Length(Heap, var[x]) =>
            LET h == text_put(Heap, var[x], item)
                c == Content(h, var[x])
            IN  /\ HasInt(c) /\ IntEnd(c) = Len(c)
                /\ SubSeq(c, SignEnd(c) + 1, Len(c)) = item
                /\ \A y \in Var : Cells(var[y]) \cap Cells(var[x]) = {} =>
                                     Content(h, var[y]) = Reads(var[y])

\* Descriptors and cursors apart, the runtime gives variables shared texts:
\* they see parts of what others see, whole objects, or new ones, and writing
\* through a variable changes no character outside its window.
Window(d) == IF d = NOTEXT THEN NOTEXT
             ELSE [object |-> text[d].frame, start |-> text[d].start,
                   length |-> text[d].length]
Windows == [x \in Var |-> Window(var[x])]
Shared == INSTANCE SharedTexts
    WITH content <- frame, window <- Windows, running <- status = "running"
ImplementsSharedTexts == Shared!Spec

\* "finding no item of the requested form is a runtime error"
\* (simula_rt.c 708-711): where GETREAL finds an item there is a digit.  TLC
\* refutes this with Texts.cfg, and no run lists it.
RealHasDigit ==
    \A x \in Var : var[x] # NOTEXT /\ HasReal(Reads(var[x])) =>
        ToSet(Reads(var[x])) \cap Digit # {}
=============================================================================
