------------------------------ MODULE TextItems ------------------------------
(***************************************************************************)
(* Editing and de-editing of TEXT contents (runtime/simula_rt.c 713-876).  *)
(* A content is a sequence of characters.  A de-editing scan is described  *)
(* by the number of characters it has passed, which is what the procedures *)
(* leave in the cursor.  The values the items denote are left out.         *)
(***************************************************************************)
EXTENDS Naturals, Sequences, FiniteSetsExt, SequencesExt

Blank     == " "
Asterisk  == "*"
Space     == {" ", "\t"}
Sign      == {"+", "-"}
Digit     == {"0", "1", "2", "3", "4", "5", "6", "7", "8", "9"}
Exponent  == {"e", "E", "&"}
Point     == "."
RealChar  == Digit \cup Sign \cup Exponent \cup {Point}
RealBuffer == 62

\* Integers as snprintf writes them, when they are not negative.
Unsigned == Seq(Digit) \ {<<>>}

Blanks(n) == [i \in 1 .. n |-> Blank]

\* Faulty variant: left-justified.
EditedLeft(item, width) ==
    IF Len(item) > width
    THEN [i \in 1 .. width |-> Asterisk]
    ELSE item \o Blanks(width - Len(item))

\* edit_into: right-justified in the window, or asterisks all over it.
Edited(item, width) ==
    IF Len(item) > width
    THEN [i \in 1 .. width |-> Asterisk]
    ELSE Blanks(width - Len(item)) \o item

-----------------------------------------------------------------------------
\* How far a scan of f gets from i while it meets characters of S only.
RunEnd(f, i, S) ==
    Min({k \in i .. Len(f) : k = Len(f) \/ f[k + 1] \notin S})

\* st_signpart: BLANKS [SIGN] BLANKS.
SignEnd(f) ==
    LET i == RunEnd(f, 0, Space)
    IN  IF i < Len(f) /\ f[i + 1] \in Sign THEN RunEnd(f, i + 1, Space) ELSE i

\* GETINT: the digits after the sign part.
IntEnd(f) == RunEnd(f, SignEnd(f), Digit)
HasInt(f) == IntEnd(f) > SignEnd(f)

\* GETFRAC: digits in groups, one blank or point between two of them.
FracEnd(f) ==
    LET from == SignEnd(f)
        Goes(k) == \/ f[k + 1] \in Digit
                   \/ /\ f[k + 1] \in {Blank, Point}
                      /\ k > from
                      /\ k + 2 <= Len(f) /\ f[k + 2] \in Digit
    IN  Min({k \in from .. Len(f) : k = Len(f) \/ ~ Goes(k)})
HasFrac(f) == FracEnd(f) > SignEnd(f)

-----------------------------------------------------------------------------
\* The numerals strtod accepts, as far as the buffer's characters form them:
\* [sign] digits with at most one point [exponent mark [sign] digits].
AllDigits(s) == s # <<>> /\ ToSet(s) \subseteq Digit
OptionalSign(s) == s = <<>> \/ (Len(s) = 1 /\ s[1] \in Sign)
Mantissa(s) ==
    \E i \in 1 .. Len(s) + 1 :
        LET rest == IF i > Len(s) THEN s ELSE RemoveAt(s, i)
        IN  AllDigits(rest) /\ (i <= Len(s) => s[i] = Point)
Scale(s) ==
    \/ s = <<>>
    \/ /\ s[1] \in Exponent
       /\ \E k \in 1 .. Len(s) : /\ OptionalSign(SubSeq(s, 2, k))
                                 /\ AllDigits(SubSeq(s, k + 1, Len(s)))
Numeral(s) ==
    \E a \in 0 .. Len(s) : \E b \in a .. Len(s) :
        /\ OptionalSign(SubSeq(s, 1, a))
        /\ Mantissa(SubSeq(s, a + 1, b))
        /\ Scale(SubSeq(s, b + 1, Len(s)))

\* How much of its argument strtod reads.
strtod(s) == Max({n \in 0 .. Len(s) : n = 0 \/ Numeral(SubSeq(s, 1, n))})

\* GETREAL: the characters a numeral may have are copied out, a 1 goes before
\* a leading exponent mark, and the cursor follows what strtod read.
RealText(f) ==
    LET from == SignEnd(f)
    IN  SubSeq(f, from + 1, Min({RunEnd(f, from, RealChar), from + RealBuffer}))
Prepended(s) == s # <<>> /\ s[1] \in Exponent
Numbered(s)  == IF Prepended(s) THEN <<"1">> \o s ELSE s
HasReal(f) == strtod(Numbered(RealText(f))) > 0
RealEnd(f) ==
    SignEnd(f) + strtod(Numbered(RealText(f)))
               - (IF Prepended(RealText(f)) THEN 1 ELSE 0)
=============================================================================
