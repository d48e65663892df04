---------------------------- MODULE LexerProofs ----------------------------
(***************************************************************************)
(* The tokens of every source tile it, each is the longest there is at its *)
(* place, every symbol stands for its own text and every literal for its   *)
(* value, and a run of unexpected characters is reported once, whatever    *)
(* sources were lexed before.                                              *)
(***************************************************************************)
EXTENDS Lexer, WellFoundedInduction, TLAPS

IsSeq(s) == \E S : s \in Seq(S)

\* The lexer goes forward, and is in a word only where one begins.
Forward ==
  /\ src \in Seq(Chars) /\ start \in Nat /\ end \in Nat /\ start <= end
  /\ mode \in {"idle", "start", "symbol", "int", "done"}
  /\ mode = "symbol" => /\ start < Len(src) /\ CharAt(start) \in Letters
  /\ mode = "int" => start < Len(src) /\ (end = start => CharAt(start) \in Digits)

\* What it has made so far lies behind it.
Behind ==
  /\ IsSeq(tokens)
  /\ \A n \in DOMAIN tokens : tokens[n].from \in Nat /\ tokens[n].to \in Nat
  /\ skipped \subseteq Nat /\ \A i \in skipped : i < Scanned

IInv == Forward /\ Behind /\ TokensTile

\* A token more at the end of a vector leaves those before where they are.
LEMMA Appended ==
  ASSUME NEW s, NEW e, IsSeq(s)
  PROVE  /\ IsSeq(Append(s, e))
         /\ Len(s) \in Nat /\ Len(Append(s, e)) = Len(s) + 1
         /\ DOMAIN s = 1..Len(s) /\ DOMAIN Append(s, e) = 1..Len(s) + 1
         /\ \A n \in 1..Len(s) : Append(s, e)[n] = s[n]
         /\ Append(s, e)[Len(s) + 1] = e
<1>1. PICK S : s \in Seq(S)
  BY DEF IsSeq
<1>. DEFINE T == S \cup {e}
<1>2. s \in Seq(T) /\ e \in T
  BY <1>1
<1>3. Append(s, e) \in Seq(T)
  BY <1>2
<1>4. IsSeq(Append(s, e))
  BY <1>3 DEF IsSeq
<1> QED BY <1>2, <1>4

\* The token made is the last of the vector; the others are where they were.
LEMMA OneMore ==
  ASSUME IsSeq(tokens), NEW t, NEW val, NEW from, NEW to, MakeToken(t, val, from, to)
  PROVE  \A n \in DOMAIN tokens' :
           \/ \E m \in DOMAIN tokens : tokens'[n] = tokens[m]
           \/ /\ tokens'[n].t = t /\ tokens'[n].val = val
              /\ tokens'[n].from = from /\ tokens'[n].to = to
<1>. DEFINE tok == [t |-> t, val |-> val, loc |-> Add(ix, from, to).loc,
                    from |-> from, to |-> to]
<1>1. tokens' = Append(tokens, tok)
  BY DEF MakeToken
<1>2. tok.t = t /\ tok.val = val /\ tok.from = from /\ tok.to = to
  OBVIOUS
<1>. HIDE DEF tok
<1>3. \A n \in DOMAIN tokens' : tokens'[n] = tok \/ \E m \in DOMAIN tokens : tokens'[n] = tokens[m]
  BY <1>1, Appended
<1> QED BY <1>2, <1>3

\* The positions in tokens are those there were and those of the new one.
LEMMA TokenAdds ==
  ASSUME IsSeq(tokens), NEW t, NEW val, NEW from, NEW to, MakeToken(t, val, from, to)
  PROVE  \A i \in Nat : InToken(i)' <=> InToken(i) \/ (from <= i /\ i < to)
<1>. DEFINE tok == [t |-> t, val |-> val, loc |-> Add(ix, from, to).loc,
                    from |-> from, to |-> to]
<1>1. tokens' = Append(tokens, tok)
  BY DEF MakeToken
<1>2. /\ Len(tokens) \in Nat /\ DOMAIN tokens = 1..Len(tokens)
      /\ DOMAIN tokens' = 1..Len(tokens) + 1
      /\ \A n \in 1..Len(tokens) : tokens'[n] = tokens[n]
      /\ tokens'[Len(tokens) + 1] = tok
  BY <1>1, Appended
<1>3. tok.from = from /\ tok.to = to
  OBVIOUS
<1>. HIDE DEF tok
<1> QED BY <1>2, <1>3 DEF InToken, Covers

\* A token from where the lexer has got to, and not empty, keeps the text tiled.
LEMMA TokenTiles ==
  ASSUME IInv, NEW t, NEW val, NEW to \in Nat, Scanned < to, MakeToken(t, val, Scanned, to)
  PROVE  IInv'
<1>. DEFINE tok == [t |-> t, val |-> val, loc |-> Add(ix, Scanned, to).loc,
                    from |-> Scanned, to |-> to]
<1>0. Scanned \in Nat
  BY DEF IInv, Forward, Scanned
<1>1. /\ tokens' = Append(tokens, tok) /\ src' = src /\ skipped' = skipped
      /\ start' = to /\ end' = to /\ mode' \in {"start", "done"}
  BY DEF MakeToken
<1>2. /\ IsSeq(tokens') /\ Len(tokens) \in Nat /\ Len(tokens') = Len(tokens) + 1
      /\ DOMAIN tokens = 1..Len(tokens) /\ DOMAIN tokens' = 1..Len(tokens) + 1
      /\ \A n \in 1..Len(tokens) : tokens'[n] = tokens[n]
      /\ tokens'[Len(tokens) + 1] = tok
  BY <1>1, Appended DEF IInv, Behind
<1>3. Scanned' = to
  BY <1>1 DEF Scanned
<1>4. \A i : CharAt(i)' = CharAt(i) /\ DashAt(i)' = DashAt(i) /\ Begins(i)' = Begins(i)
  BY <1>1 DEF CharAt, DashAt, Begins
<1>5. tok.from = Scanned /\ tok.to = to
  OBVIOUS
<1>. HIDE DEF tok
<1>6. \A i \in Nat : InToken(i)' <=> InToken(i) \/ (Scanned <= i /\ i < to)
  BY TokenAdds DEF IInv, Behind
<1>7. Forward'
  BY <1>1 DEF IInv, Forward
<1>8. Behind'
  BY <1>0, <1>1, <1>2, <1>3, <1>5 DEF IInv, Behind
<1>9. TokensTile'
  <2>1. \A n \in DOMAIN tokens' : tokens'[n].from < tokens'[n].to /\ tokens'[n].to <= to
    BY <1>0, <1>2, <1>5 DEF IInv, Behind, TokensTile
  <2>2. \A n \in 1..Len(tokens') - 1 : tokens'[n].to <= tokens'[n + 1].from
    BY <1>0, <1>2, <1>5 DEF IInv, Behind, TokensTile
  <2>3. \A i \in 0..Len(src) - 1 :
          i < to => InToken(i)' \/ CharAt(i) \in Spaces \/ i \in skipped
    BY <1>0, <1>6 DEF IInv, Forward, TokensTile
  <2>4. \A i \in skipped : ~InToken(i)'
    <3> SUFFICES ASSUME NEW i \in skipped PROVE ~InToken(i)'
      OBVIOUS
    <3>1. i \in Nat /\ i < Scanned
      BY DEF IInv, Behind
    <3>2. ~InToken(i)
      BY DEF IInv, TokensTile
    <3> QED BY <1>0, <1>6, <3>1, <3>2
  <2> QED BY <1>1, <1>3, <1>4, <2>1, <2>2, <2>3, <2>4 DEF IInv, TokensTile
<1> QED BY <1>7, <1>8, <1>9 DEF IInv

\* A step that makes no token and passes over white space only.
LEMMA NoTokenTiles ==
  ASSUME IInv, UNCHANGED <<src, tokens, skipped>>, Forward', mode' # "idle",
         Scanned <= Scanned', Scanned' \in Nat,
         \A i \in 0..Len(src) - 1 : Scanned <= i /\ i < Scanned' => CharAt(i) \in Spaces
  PROVE  IInv'
<1>0. Scanned \in Nat
  BY DEF IInv, Forward, Scanned
<1>1. \A i : /\ CharAt(i)' = CharAt(i) /\ DashAt(i)' = DashAt(i)
             /\ Begins(i)' = Begins(i) /\ InToken(i)' = InToken(i)
  BY DEF CharAt, DashAt, Begins, InToken, Covers
<1>2. Behind'
  <2>1. \A i \in skipped : i < Scanned'
    <3> SUFFICES ASSUME NEW i \in skipped PROVE i < Scanned'
      OBVIOUS
    <3>1. i \in Nat /\ i < Scanned
      BY DEF IInv, Behind
    <3> QED BY <1>0, <3>1
  <2> QED BY <2>1 DEF IInv, Behind
<1>3. TokensTile'
  <2>1. \A n \in DOMAIN tokens : tokens[n].to <= Scanned'
    BY <1>0 DEF IInv, Behind, TokensTile
  <2>2. \A i \in 0..Len(src) - 1 :
          i < Scanned' => InToken(i) \/ CharAt(i) \in Spaces \/ i \in skipped
    BY <1>0 DEF IInv, TokensTile, Forward
  <2> QED BY <1>1, <2>1, <2>2 DEF IInv, TokensTile
<1> QED BY <1>2, <1>3 DEF IInv

LEMMA SpaceTiles == IInv /\ SkipWhitespace => IInv'
<1> SUFFICES ASSUME IInv, SkipWhitespace PROVE IInv'
  OBVIOUS
<1>1. /\ mode = "start" /\ mode' = "start" /\ end' = end + 1 /\ start' = start
      /\ UNCHANGED <<src, tokens, skipped>>
  BY DEF SkipWhitespace
<1>2. Forward'
  BY <1>1 DEF IInv, Forward
<1>3. Scanned = end /\ Scanned' = end + 1 /\ end \in Nat
  BY <1>1 DEF Scanned, IInv, Forward
<1>4. end < Len(src) => CharAt(end) \in Spaces
  BY <1>3 DEF SkipWhitespace, MaybeSpace, PeekC, IInv, Forward
<1>5. \A i \in 0..Len(src) - 1 : Scanned <= i /\ i < Scanned' => CharAt(i) \in Spaces
  BY <1>3, <1>4 DEF IInv, Forward
<1> QED BY <1>1, <1>2, <1>3, <1>5, NoTokenTiles

\* A word begins at the first character that is not white space, or goes on.
LEMMA WordTiles ==
  ASSUME IInv, BeginSymbol \/ SymbolChar \/ BeginInt \/ IntDigit
  PROVE  IInv'
<1>0. src \in Seq(Chars) /\ start \in Nat /\ end \in Nat /\ start <= end /\ Len(src) \in Nat
  BY DEF IInv, Forward
<1>1. CASE BeginSymbol \/ BeginInt
  <2>1. /\ mode = "start" /\ end < Len(src) /\ start' = end /\ end' \in {end, end + 1}
        /\ mode' \in {"symbol", "int"} /\ UNCHANGED <<src, tokens, skipped>>
    BY <1>0, <1>1 DEF BeginSymbol, BeginInt, Begin, Looking, AtEnd
  <2>2. mode' = "symbol" => CharAt(end) \in Letters
    BY <1>1 DEF BeginSymbol, BeginInt, Begin, PeekC
  <2>3. mode' = "int" /\ end' = end => CharAt(end) \in Digits
    BY <1>0, <1>1 DEF BeginSymbol, BeginInt, Begin, PeekC
  <2>4. Scanned = end /\ Scanned' = end
    BY <2>1 DEF Scanned
  <2>5. Forward'
    BY <1>0, <2>1, <2>2, <2>3 DEF Forward, CharAt
  <2> QED BY <1>0, <2>1, <2>4, <2>5, NoTokenTiles
<1>2. CASE SymbolChar \/ IntDigit
  <2>1. /\ mode \in {"symbol", "int"} /\ mode' = mode /\ start' = start
        /\ end' = end + 1 /\ UNCHANGED <<src, tokens, skipped>>
    BY <1>2 DEF SymbolChar, IntDigit
  <2>2. Forward'
    BY <1>0, <2>1 DEF IInv, Forward, CharAt
  <2>3. Scanned = start /\ Scanned' = start
    BY <2>1 DEF Scanned
  <2> QED BY <1>0, <2>1, <2>2, <2>3, NoTokenTiles
<1> QED BY <1>1, <1>2

\* Every token that is made begins where the lexer has got to, and is not empty.
LEMMA Made ==
  ASSUME IInv, EndOfInput \/ EndSymbol \/ EndInt \/ Punct \/ Arrow
  PROVE  \E t, val : \E to \in Nat : Scanned < to /\ MakeToken(t, val, Scanned, to)
<1>0. start \in Nat /\ end \in Nat /\ start <= end /\ Len(src) \in Nat
  BY DEF IInv, Forward
<1>1. CASE EndOfInput \/ Punct \/ Arrow
  <2>1. Scanned = end
    BY <1>1 DEF EndOfInput, Punct, Arrow, Looking, Scanned
  <2>2. ASSUME NEW t, NEW to \in {end + 1, end + 2}, MakeToken(t, 0, end, to)
        PROVE  \E u, val : \E n \in Nat : Scanned < n /\ MakeToken(u, val, Scanned, n)
    <3>1. to \in Nat /\ end < to
      BY <1>0
    <3> QED BY <2>1, <2>2, <3>1
  <2>3. CASE EndOfInput
    <3>1. MakeToken("EOI", 0, end, end + 1)
      BY <2>3 DEF EndOfInput
    <3> QED BY <2>2, <3>1
  <2>4. CASE Punct
    <3>1. MakeToken(Punctuation(PeekC), 0, end, end + 1)
      BY <2>4 DEF Punct
    <3> QED BY <2>2, <3>1
  <2>5. CASE Arrow
    <3>1. MakeToken("THIN_ARROW", 0, end, end + 2)
      BY <2>5 DEF Arrow
    <3> QED BY <2>2, <3>1
  <2> QED BY <1>1, <2>3, <2>4, <2>5
<1>2. CASE EndSymbol
  <2>1. mode = "symbol" /\ Scanned = start
    BY <1>2 DEF EndSymbol, Scanned
  <2>2. start < end
    <3>1. start < Len(src) /\ CharAt(start) \in Letters
      BY <2>1 DEF IInv, Forward
    <3>2. CASE start = end
      <4>1. ~AtEnd
        BY <1>0, <3>1, <3>2 DEF AtEnd
      <4>2. PeekC \in WordChars
        BY <3>1, <3>2, Zenon DEF PeekC, WordChars
      <4> QED BY <1>2, <4>1, <4>2 DEF EndSymbol, InWord
    <3> QED BY <1>0, <3>2
  <2>3. PICK t, val : MakeToken(t, val, start, end)
    BY <1>2 DEF EndSymbol
  <2> QED BY <1>0, <2>1, <2>2, <2>3
<1>3. CASE EndInt
  <2>1. mode = "int" /\ Scanned = start
    BY <1>3 DEF EndInt, Scanned
  <2>2. start < end
    <3>1. CASE start = end
      <4>1. ~AtEnd /\ PeekC \in Digits
        BY <1>0, <2>1, <3>1 DEF IInv, Forward, AtEnd, PeekC
      <4> QED BY <1>3, <4>1 DEF EndInt
    <3> QED BY <1>0, <3>1
  <2>3. PICK t, val : MakeToken(t, val, start, end)
    BY <1>3 DEF EndInt
  <2> QED BY <1>0, <2>1, <2>2, <2>3
<1> QED BY <1>1, <1>2, <1>3

LEMMA MadeTiles ==
  ASSUME IInv, EndOfInput \/ EndSymbol \/ EndInt \/ Punct \/ Arrow
  PROVE  IInv'
BY Made, TokenTiles

\* What is passed over as unexpected begins no token, or stands behind a lone dash.
LEMMA UnexpectedTiles == IInv /\ UnexpectedChar => IInv'
<1> SUFFICES ASSUME IInv, UnexpectedChar PROVE IInv'
  OBVIOUS
<1>0. src \in Seq(Chars) /\ end \in Nat /\ Len(src) \in Nat
  BY DEF IInv, Forward
<1>1. /\ mode = "start" /\ mode' = "start" /\ end < Len(src) /\ ~Expected
      /\ start' = end /\ end' = Here + 1 /\ skipped' = skipped \cup end..Here
      /\ UNCHANGED <<src, tokens>>
  BY <1>0 DEF UnexpectedChar, Looking, AtEnd
<1>2. Scanned = end /\ Scanned' = Here + 1
  BY <1>1 DEF Scanned
<1>3. Here \in {end, end + 1} /\ (Here = end + 1 => LoneDash)
  BY <1>0 DEF Here
<1>4. \A i : /\ CharAt(i)' = CharAt(i) /\ DashAt(i)' = DashAt(i)
             /\ Begins(i)' = Begins(i) /\ InToken(i)' = InToken(i)
  BY <1>1 DEF CharAt, DashAt, Begins, InToken, Covers
<1>5. LoneDash <=> DashAt(end)
  BY DEF LoneDash, DashAt, PeekC
<1>6. ~Begins(end)
  <2> SUFFICES ASSUME Begins(end) PROVE Expected
    BY <1>1
  <2>1. ~LoneDash /\ CharAt(end) = PeekC
    BY <1>5 DEF Begins, PeekC
  <2>2. CASE PeekC \in Letters \cup Digits
    BY <2>2 DEF Expected
  <2>3. CASE PeekC \in {"\\", "(", ")", ",", "="}
    BY <2>3 DEF Expected, Punctuation
  <2>4. CASE PeekC = "-"
    BY <2>1, <2>4 DEF Expected
  <2> QED BY <2>1, <2>2, <2>3, <2>4, Zenon DEF Begins
<1>7. Forward'
  BY <1>0, <1>1, <1>3 DEF IInv, Forward
<1>8. \A i \in end..Here : i \in Nat /\ (i = end \/ (i = end + 1 /\ LoneDash))
  BY <1>0, <1>3
<1>9. Behind'
  <2>1. \A i \in skipped : i \in Nat /\ i < Here + 1
    <3> SUFFICES ASSUME NEW i \in skipped PROVE i \in Nat /\ i < Here + 1
      OBVIOUS
    <3>1. i \in Nat /\ i < end
      BY <1>2 DEF IInv, Behind
    <3> QED BY <1>0, <1>3, <3>1
  <2>2. \A i \in end..Here : i \in Nat /\ i < Here + 1
    BY <1>0, <1>3
  <2>3. skipped' \subseteq Nat /\ \A i \in skipped' : i < Scanned'
    BY <1>1, <1>2, <2>1, <2>2
  <2> QED BY <1>1, <2>3 DEF IInv, Behind
<1>10. TokensTile'
  <2>1. \A n \in DOMAIN tokens : /\ tokens[n].from < tokens[n].to
                                 /\ tokens[n].to <= Here + 1
    BY <1>0, <1>2, <1>3 DEF IInv, Behind, TokensTile
  <2>2. \A i \in 0..Len(src) - 1 :
          i < Here + 1 => InToken(i) \/ CharAt(i) \in Spaces \/ i \in skipped'
    BY <1>0, <1>1, <1>2, <1>3 DEF IInv, TokensTile
  <2>3. \A i \in skipped' : ~InToken(i)
    <3> SUFFICES ASSUME NEW i \in end..Here PROVE ~InToken(i)
      BY <1>1 DEF IInv, TokensTile
    <3>1. \A n \in DOMAIN tokens : tokens[n].to \in Nat /\ tokens[n].to <= end
      BY <1>2 DEF IInv, Behind, TokensTile
    <3> QED BY <1>0, <1>8, <3>1 DEF InToken, Covers
  <2>4. \A i \in skipped' : Begins(i) => i - 1 \in skipped' /\ DashAt(i - 1)
    <3>1. ASSUME NEW i \in skipped, Begins(i) PROVE i - 1 \in skipped' /\ DashAt(i - 1)
      BY <1>1, <3>1 DEF IInv, TokensTile
    <3>2. ASSUME NEW i \in end..Here, Begins(i) PROVE i - 1 \in skipped' /\ DashAt(i - 1)
      <4>1. i = end + 1 /\ LoneDash
        BY <1>6, <1>8, <3>2
      <4>2. i - 1 = end /\ end \in end..Here
        BY <1>0, <1>3, <4>1
      <4> QED BY <1>1, <1>5, <4>1, <4>2
    <3> QED BY <1>1, <3>1, <3>2
  <2> QED BY <1>1, <1>2, <1>4, <2>1, <2>2, <2>3, <2>4 DEF IInv, TokensTile
<1> QED BY <1>7, <1>9, <1>10 DEF IInv

\* A new source begins with no tokens.
LEMMA SourceTiles ==
  ASSUME NEW text \in Texts, NEW d \in BOOLEAN, WistLex(text, d)
  PROVE  IInv'
<1>1. /\ src' = text /\ start' = 0 /\ end' = 0 /\ mode' = "start" /\ tokens' = <<>>
      /\ skipped' = {} /\ text \in Seq(Chars)
  BY LexerAssumption DEF WistLex
<1>2. <<>> \in Seq({}) /\ DOMAIN <<>> = {} /\ Len(<<>>) = 0
  OBVIOUS
<1>3. Forward'
  BY <1>1 DEF Forward
<1>4. Behind'
  BY <1>1, <1>2 DEF Behind, IsSeq
<1>5. TokensTile'
  BY <1>1, <1>2 DEF TokensTile, Scanned
<1> QED BY <1>3, <1>4, <1>5 DEF IInv

LEMMA InitIInv == LexInit => IInv
<1> SUFFICES ASSUME LexInit PROVE IInv
  OBVIOUS
<1>1. <<>> \in Seq({}) /\ DOMAIN <<>> = {} /\ Len(<<>>) = 0 /\ <<>> \in Seq(Chars)
  OBVIOUS
<1>2. Forward
  BY <1>1 DEF LexInit, Forward
<1>3. Behind
  BY <1>1 DEF LexInit, Behind, IsSeq
<1>4. TokensTile
  BY <1>1 DEF LexInit, TokensTile, Scanned
<1> QED BY <1>2, <1>3, <1>4 DEF IInv

LEMMA NextIInv == IInv /\ [Next]_lexVars => IInv'
<1>1. IInv /\ UNCHANGED lexVars => IInv'
  <2> SUFFICES ASSUME IInv, UNCHANGED lexVars PROVE IInv'
    OBVIOUS
  <2>1. Forward'
    BY DEF lexVars, IInv, Forward, CharAt
  <2>2. Behind'
    BY DEF lexVars, IInv, Behind, Scanned
  <2>3. /\ \A i : InToken(i)' <=> InToken(i)
        /\ \A i : Begins(i)' <=> Begins(i)
        /\ \A i : DashAt(i)' <=> DashAt(i)
        /\ \A i : CharAt(i)' = CharAt(i)
        /\ Scanned' = Scanned
    BY DEF lexVars, InToken, Covers, Begins, DashAt, CharAt, Scanned
  <2>4. TokensTile'
    BY <2>3 DEF lexVars, IInv, TokensTile
  <2> QED BY <2>1, <2>2, <2>4 DEF IInv
<1>2. IInv /\ LexNext => IInv'
  BY SpaceTiles, WordTiles, MadeTiles, UnexpectedTiles DEF LexNext
<1> QED BY <1>1, <1>2, SourceTiles DEF Next

\* TokensTile holds of every source, however long, and whatever it contains
\* (lib/lexer.c:147).
THEOREM TokensTileTheText == Spec => []TokensTile
<1>1. IInv => TokensTile
  BY DEF IInv
<1> QED BY <1>1, InitIInv, NextIInv, PTL DEF Spec
-----------------------------------------------------------------------------
-----------------------------------------------------------------------------
\* No string is interned twice, and the keywords keep their numbers.
Distinct(ss) == \A i, j \in DOMAIN ss : ss[i] = ss[j] => i = j

Interned ==
  /\ IsSeq(syms) /\ Distinct(syms) /\ Len(syms) >= 3
  /\ StrOf(syms, LetSym) = StrLet /\ StrOf(syms, InSym) = StrIn
  /\ StrOf(syms, EndSym) = StrEnd

KindOf(s) == CASE s = StrLet -> "LET" [] s = StrIn -> "IN" [] s = StrEnd -> "END"
               [] OTHER -> "SYM"

\* A token of a word has the symbol of its text.
Right(tok) ==
  tok.t \in Words => /\ tok.val \in 1..Len(syms)
                     /\ StrOf(syms, tok.val) = TextOf(tok)
                     /\ tok.t = KindOf(TextOf(tok))

SInv == Interned /\ IsSeq(tokens) /\ \A n \in DOMAIN tokens : Right(tokens[n])

\* Searching finds the string or adds it, and renumbers no other.
LEMMA SearchFinds ==
  ASSUME NEW ss, IsSeq(ss), Distinct(ss), NEW str
  PROVE  LET r == Search(ss, str)
         IN  /\ IsSeq(r.syms) /\ Distinct(r.syms)
             /\ Len(ss) \in Nat /\ Len(r.syms) \in Nat /\ Len(ss) <= Len(r.syms)
             /\ r.sym \in 1..Len(r.syms) /\ StrOf(r.syms, r.sym) = str
             /\ \A s \in 1..Len(ss) : StrOf(r.syms, s) = StrOf(ss, s)
<1>. DEFINE r == Search(ss, str)
            Hits == {i \in 1..Len(ss) : ss[i] = str}
<1>1. PICK S : ss \in Seq(S)
  BY DEF IsSeq
<1>. DEFINE T == S \cup {str}
<1>2. ss \in Seq(T) /\ str \in T /\ Len(ss) \in Nat /\ DOMAIN ss = 1..Len(ss)
  BY <1>1
<1>3. CASE Hits = {}
  <2>1. SelectInSeq(ss, LAMBDA s : s = str) = 0
    BY <1>3 DEF SelectInSeq
  <2>2. r = [syms |-> <<str>> \o ss, sym |-> Len(ss) + 1]
    BY <2>1 DEF Search
  <2>. DEFINE new == <<str>> \o ss
  <2>3. /\ new \in Seq(T) /\ Len(new) = Len(ss) + 1 /\ DOMAIN new = 1..Len(ss) + 1
        /\ new[1] = str /\ \A i \in 1..Len(ss) : new[i + 1] = ss[i]
    BY <1>2
  <2>. HIDE DEF new
  <2>4. \A i \in 2..Len(ss) + 1 : new[i] = ss[i - 1] /\ i - 1 \in 1..Len(ss)
    <3> TAKE i \in 2..Len(ss) + 1
    <3>1. i - 1 \in 1..Len(ss) /\ (i - 1) + 1 = i
      BY <1>2
    <3> QED BY <2>3, <3>1
  <2>5. Distinct(new)
    <3> SUFFICES ASSUME NEW i \in 1..Len(ss) + 1, NEW j \in 1..Len(ss) + 1, new[i] = new[j]
                 PROVE  i = j
      BY <2>3 DEF Distinct
    <3>1. CASE i = 1 \/ j = 1
      <4>1. \A m \in 2..Len(ss) + 1 : new[m] # str
        BY <1>3, <2>4
      <4> QED BY <1>2, <2>3, <3>1, <4>1
    <3>2. CASE i # 1 /\ j # 1
      <4>1. ss[i - 1] = ss[j - 1] /\ i - 1 \in DOMAIN ss /\ j - 1 \in DOMAIN ss
        BY <1>2, <2>4, <3>2
      <4>2. i - 1 = j - 1
        BY <4>1 DEF Distinct
      <4> QED BY <1>2, <4>2
    <3> QED BY <3>1, <3>2
  <2>6. \A s \in 1..Len(ss) : StrOf(new, s) = StrOf(ss, s)
    <3> TAKE s \in 1..Len(ss)
    <3>1. Len(ss) - s + 1 \in 1..Len(ss) /\ Len(new) - s + 1 = (Len(ss) - s + 1) + 1
      BY <1>2, <2>3
    <3> QED BY <2>3, <3>1 DEF StrOf, SymAt
  <2>7. StrOf(new, Len(ss) + 1) = str
    BY <1>2, <2>3 DEF StrOf, SymAt
  <2>8. IsSeq(new)
    BY <2>3 DEF IsSeq
  <2>9. r.syms = new /\ r.sym = Len(ss) + 1
    BY <2>2 DEF new
  <2> QED BY <1>2, <2>3, <2>5, <2>6, <2>7, <2>8, <2>9
<1>4. CASE Hits # {}
  <2>1. PICK i \in Hits : TRUE
    BY <1>4
  <2>2. Hits = {i}
    BY <1>2, <2>1 DEF Distinct
  <2>3. SelectInSeq(ss, LAMBDA s : s = str) = i
    <3>1. Min(Hits) = i
      BY <2>2, <1>2 DEF Min
    <3> QED BY <1>4, <3>1 DEF SelectInSeq
  <2>4. r.syms = ss /\ r.sym = Len(ss) - i + 1
    <3>1. i > 0
      BY <1>2, <2>1
    <3>2. r = [syms |-> ss, sym |-> SymAt(ss, i)]
      BY <2>3, <3>1 DEF Search
    <3> QED BY <3>2 DEF SymAt
  <2>5. Len(ss) - i + 1 \in 1..Len(ss) /\ Len(ss) - (Len(ss) - i + 1) + 1 = i
    BY <1>2, <2>1
  <2>6. StrOf(ss, Len(ss) - i + 1) = str
    BY <2>1, <2>5 DEF StrOf, SymAt
  <2> QED BY <1>2, <2>4, <2>5, <2>6
<1> QED BY <1>3, <1>4

\* Tokens that are no words keep every word's symbol.
LEMMA OtherTokensRight ==
  ASSUME SInv, NEW t, t \notin Words, NEW val, NEW from, NEW to,
         MakeToken(t, val, from, to), UNCHANGED syms
  PROVE  SInv'
<1>. DEFINE tok == [t |-> t, val |-> val, loc |-> Add(ix, from, to).loc,
                    from |-> from, to |-> to]
<1>1. tokens' = Append(tokens, tok) /\ UNCHANGED <<src, syms>>
  BY DEF MakeToken
<1>2. tok.t \notin Words
  OBVIOUS
<1>. HIDE DEF tok
<1>3. \A n \in DOMAIN tokens' : tokens'[n] = tok \/ \E m \in DOMAIN tokens : tokens'[n] = tokens[m]
  BY <1>1, Appended DEF SInv
<1>4. \A n \in DOMAIN tokens' : Right(tokens[n])'
  BY <1>1, <1>2, <1>3 DEF SInv, Right, TextOf
<1> QED BY <1>1, <1>4, Appended DEF SInv, Interned

\* The token of a word has the symbol of its text, and the words before keep theirs.
LEMMA WordRight == SInv /\ EndSymbol => SInv'
<1> SUFFICES ASSUME SInv, EndSymbol PROVE SInv'
  OBVIOUS
<1>. DEFINE str == SubSeq(src, start + 1, end)
            r == Search(syms, str)
            tok == [t |-> SymbolKind(r.sym), val |-> r.sym,
                    loc |-> Add(ix, start, end).loc, from |-> start, to |-> end]
<1>1. tokens' = Append(tokens, tok) /\ src' = src /\ syms' = r.syms
  BY DEF EndSymbol, MakeToken
<1>2. tok.t = SymbolKind(r.sym) /\ tok.val = r.sym /\ TextOf(tok) = str
  BY DEF TextOf
<1>3. /\ IsSeq(r.syms) /\ Distinct(r.syms)
      /\ Len(syms) \in Nat /\ Len(r.syms) \in Nat /\ Len(syms) <= Len(r.syms)
      /\ r.sym \in 1..Len(r.syms) /\ StrOf(r.syms, r.sym) = str
      /\ \A s \in 1..Len(syms) : StrOf(r.syms, s) = StrOf(syms, s)
  BY SearchFinds DEF SInv, Interned
<1>. HIDE DEF tok, r, str
<1>4. Interned'
  <2>1. \A s \in {LetSym, InSym, EndSym} : s \in 1..Len(syms)
    BY <1>3 DEF SInv, Interned, LetSym, InSym, EndSym
  <2> QED BY <1>1, <1>3, <2>1 DEF SInv, Interned
<1>5. tok.t = KindOf(str)
  <2>1. \A a, b \in 1..Len(r.syms) : StrOf(r.syms, a) = StrOf(r.syms, b) => a = b
    <3>1. PICK S : r.syms \in Seq(S)
      BY <1>3 DEF IsSeq
    <3>2. \A a \in 1..Len(r.syms) : Len(r.syms) - a + 1 \in DOMAIN r.syms
      BY <3>1
    <3> QED BY <1>3, <3>2 DEF Distinct, StrOf, SymAt
  <2>2. /\ StrOf(r.syms, LetSym) = StrLet /\ StrOf(r.syms, InSym) = StrIn
        /\ StrOf(r.syms, EndSym) = StrEnd
    BY <1>1, <1>4 DEF Interned
  <2>3. \A s \in {LetSym, InSym, EndSym} : s \in 1..Len(r.syms)
    BY <1>1, <1>3, <1>4 DEF Interned, LetSym, InSym, EndSym
  <2>4. /\ r.sym = LetSym <=> str = StrLet
        /\ r.sym = InSym <=> str = StrIn
        /\ r.sym = EndSym <=> str = StrEnd
    BY <1>3, <2>1, <2>2, <2>3
  <2> QED BY <1>2, <2>4, Zenon DEF SymbolKind, KindOf
<1>6. ASSUME NEW x, x = tok PROVE Right(x)'
  <2>1. x.t = tok.t /\ x.val = r.sym /\ TextOf(x) = str
    BY <1>2, <1>6
  <2>2. TextOf(x)' = TextOf(x)
    BY <1>1 DEF TextOf
  <2> QED BY <1>1, <1>3, <1>5, <2>1, <2>2 DEF Right
<1>7. ASSUME NEW m \in DOMAIN tokens, NEW x, x = tokens[m] PROVE Right(x)'
  <2>1. Right(x)
    BY <1>7 DEF SInv
  <2>2. TextOf(x)' = TextOf(x)
    BY <1>1 DEF TextOf
  <2> QED BY <1>1, <1>3, <2>1, <2>2 DEF Right
<1>8. \A n \in DOMAIN tokens' : tokens'[n] = tok \/ \E m \in DOMAIN tokens : tokens'[n] = tokens[m]
  BY <1>1, Appended DEF SInv
<1>9. \A n \in DOMAIN tokens' : Right(tokens[n])'
  <2> TAKE n \in DOMAIN tokens'
  <2>1. CASE tokens'[n] = tok
    BY <1>6, <2>1
  <2>2. CASE \E m \in DOMAIN tokens : tokens'[n] = tokens[m]
    BY <1>7, <2>2
  <2> QED BY <1>8, <2>1, <2>2
<1> QED BY <1>1, <1>4, <1>9, Appended DEF SInv

\* SymbolsAreTheirText holds from source to source, for every source
\* (lib/sym.c:38, lib/lexer.c:176).
THEOREM SymbolsStandForTheirText == Spec => []SymbolsAreTheirText
<1>1. LexInit => SInv
  <2> SUFFICES ASSUME LexInit PROVE SInv
    OBVIOUS
  <2>1. <<>> \in Seq({}) /\ DOMAIN <<>> = {}
    OBVIOUS
  <2>. DEFINE U == {StrEnd, StrIn, StrLet}
  <2>2. Len(StrEnd) = 3 /\ Len(StrIn) = 2 /\ Len(StrLet) = 3 /\ StrEnd[1] # StrLet[1]
    BY DEF StrEnd, StrIn, StrLet
  <2>3. StrEnd # StrIn /\ StrIn # StrLet /\ StrEnd # StrLet
    BY <2>2
  <2>4. /\ KeywordSyms \in Seq(U) /\ DOMAIN KeywordSyms = 1..3 /\ Len(KeywordSyms) = 3
        /\ KeywordSyms[1] = StrEnd /\ KeywordSyms[2] = StrIn /\ KeywordSyms[3] = StrLet
    BY DEF KeywordSyms
  <2>5. IsSeq(KeywordSyms)
    BY <2>4 DEF IsSeq
  <2>6. Distinct(KeywordSyms)
    BY <2>3, <2>4 DEF Distinct
  <2>7. Interned
    BY <2>4, <2>5, <2>6 DEF LexInit, Interned, StrOf, SymAt, LetSym, InSym, EndSym
  <2>8. IsSeq(tokens) /\ DOMAIN tokens = {}
    BY <2>1 DEF LexInit, IsSeq
  <2> QED BY <2>7, <2>8 DEF SInv
<1>2. SInv /\ [Next]_lexVars => SInv'
  <2> SUFFICES ASSUME SInv, [Next]_lexVars PROVE SInv'
    OBVIOUS
  <2>1. ASSUME UNCHANGED <<src, tokens, syms>> PROVE SInv'
    BY <2>1 DEF SInv, Interned, Right, TextOf
  <2>2. CASE SkipWhitespace \/ BeginSymbol \/ SymbolChar \/ BeginInt \/ IntDigit
             \/ UnexpectedChar \/ UNCHANGED lexVars
    BY <2>1, <2>2 DEF SkipWhitespace, BeginSymbol, SymbolChar, BeginInt, IntDigit, Begin,
                      UnexpectedChar, lexVars
  <2>3. CASE EndOfInput
    <3>1. MakeToken("EOI", 0, end, end + 1) /\ UNCHANGED syms /\ "EOI" \notin Words
      BY <2>3 DEF EndOfInput, Words
    <3> QED BY <3>1, OtherTokensRight
  <2>4. CASE EndInt
    <3>1. PICK val : MakeToken("INT", val, start, end) /\ UNCHANGED syms
      BY <2>4 DEF EndInt
    <3>2. "INT" \notin Words
      BY DEF Words
    <3> QED BY <3>1, <3>2, OtherTokensRight
  <2>5. CASE Punct
    <3>1. MakeToken(Punctuation(PeekC), 0, end, end + 1) /\ UNCHANGED syms
      BY <2>5 DEF Punct
    <3>2. Punctuation(PeekC) \notin Words
      BY DEF Punctuation, Words
    <3> QED BY <3>1, <3>2, OtherTokensRight
  <2>6. CASE Arrow
    <3>1. MakeToken("THIN_ARROW", 0, end, end + 2) /\ UNCHANGED syms /\ "THIN_ARROW" \notin Words
      BY <2>6 DEF Arrow, Words
    <3> QED BY <3>1, OtherTokensRight
  <2>7. CASE \E text \in Texts, d \in BOOLEAN : WistLex(text, d)
    <3>1. tokens' = <<>> /\ syms' = syms
      BY <2>7 DEF WistLex
    <3>2. <<>> \in Seq({}) /\ DOMAIN <<>> = {}
      OBVIOUS
    <3>3. IsSeq(tokens') /\ DOMAIN tokens' = {}
      BY <3>1, <3>2 DEF IsSeq
    <3> QED BY <3>1, <3>3 DEF SInv, Interned
  <2> QED BY <2>2, <2>3, <2>4, <2>5, <2>6, <2>7, WordRight DEF Next, LexNext
<1>3. SInv => SymbolsAreTheirText
  BY DEF SInv, Interned, Distinct, Right, KindOf, SymbolsAreTheirText
<1> QED BY <1>1, <1>2, <1>3, PTL DEF Spec
-----------------------------------------------------------------------------
\* The kinds of token there are, and what the text of one looks like in place.
Kinds == DOMAIN Fixed \cup {"INT"} \cup Words
DigitsIn(from, to) == \A i \in from..to - 1 : CharAt(i) \in Digits
WordIn(from, to) == \A i \in from..to - 1 : CharAt(i) \in WordChars

SingleKinds == {"BACKSLASH", "LPAREN", "RPAREN", "COMMA", "EQ"}

ClassAt(k, from, to) ==
  \/ k \in SingleKinds /\ to = from + 1 /\ Punctuation(CharAt(from)) = k
  \/ k = "THIN_ARROW" /\ to = from + 2 /\ CharAt(from) = "-" /\ CharAt(from + 1) = ">"
  \/ k = "INT" /\ DigitsIn(from, to)
  \/ k = "INT" /\ from + 1 < to /\ CharAt(from) = "-" /\ DigitsIn(from + 1, to)
  \/ k \in Words /\ CharAt(from) \in Letters /\ WordIn(from, to)

LEMMA DigitsAre == Digits = {"0", "1", "2", "3", "4", "5", "6", "7", "8", "9"}
<1>. DEFINE D == {"0", "1", "2", "3", "4", "5", "6", "7", "8", "9"}
<1>1. /\ DigitSeq[1] = "0" /\ DigitSeq[2] = "1" /\ DigitSeq[3] = "2" /\ DigitSeq[4] = "3"
      /\ DigitSeq[5] = "4" /\ DigitSeq[6] = "5" /\ DigitSeq[7] = "6" /\ DigitSeq[8] = "7"
      /\ DigitSeq[9] = "8" /\ DigitSeq[10] = "9"
  BY DEF DigitSeq
<1>2. \A c \in Digits : c \in D
  <2> SUFFICES ASSUME NEW i \in 1..10 PROVE DigitSeq[i] \in D
    BY DEF Digits
  <2>1. i \in {1, 2, 3, 4, 5, 6, 7, 8, 9, 10}
    OBVIOUS
  <2> QED BY <1>1, <2>1
<1>3. \A c \in D : c \in Digits
  <2>1. \A i \in {1, 2, 3, 4, 5, 6, 7, 8, 9, 10} : i \in 1..10
    OBVIOUS
  <2> QED BY <1>1, <2>1 DEF Digits
<1> QED BY <1>2, <1>3

\* The first characters of the classes are different ones.
LEMMA Apart ==
  /\ \A c \in Letters : c \notin Digits \cup {"-", ">", "\\", "(", ")", ",", "=", ""}
  /\ \A c \in Digits : c \notin {"-", ">", "\\", "(", ")", ",", "=", ""}
<1>1. \A c \in Letters : c \notin Digits \cup {"-", ">", "\\", "(", ")", ",", "=", ""}
  BY DigitsAre DEF Letters
<1>2. \A c \in Digits : c \notin {"-", ">", "\\", "(", ")", ",", "=", ""}
  BY DigitsAre
<1> QED BY <1>1, <1>2

\* A piece of the source is what stands at its places.
LEMMA Piece ==
  ASSUME src \in Seq(Chars), NEW from \in Nat, NEW to \in Nat, from <= to, to <= Len(src)
  PROVE  /\ SubSeq(src, from + 1, to) \in Seq(Chars)
         /\ Len(SubSeq(src, from + 1, to)) = to - from
         /\ DOMAIN SubSeq(src, from + 1, to) = 1..to - from
         /\ \A i \in 1..to - from : SubSeq(src, from + 1, to)[i] = CharAt(from + i - 1)
<1>1. Len(src) \in Nat /\ \A i \in 1..Len(src) : src[i] \in Chars
  OBVIOUS
<1>2. SubSeq(src, from + 1, to) \in Seq(Chars) /\ Len(SubSeq(src, from + 1, to)) = to - from
  BY <1>1
<1>3. \A i \in 1..to - from : SubSeq(src, from + 1, to)[i] = src[from + i]
  BY <1>1
<1>4. \A i \in 1..to - from : CharAt(from + i - 1) = src[from + i]
  <2> TAKE i \in 1..to - from
  <2>1. from + i - 1 < Len(src) /\ (from + i - 1) + 1 = from + i
    BY <1>1
  <2> QED BY <2>1 DEF CharAt
<1> QED BY <1>2, <1>3, <1>4

LEMMA SameSeq ==
  ASSUME NEW S, NEW a \in Seq(S), NEW T, NEW b \in Seq(T)
  PROVE  a = b <=> Len(a) = Len(b) /\ \A i \in 1..Len(a) : a[i] = b[i]
<1>1. a \in Seq(S \cup T) /\ b \in Seq(S \cup T)
  OBVIOUS
<1> QED BY <1>1

\* The text has its class by its characters.
LEMMA ClassInPlace ==
  ASSUME src \in Seq(Chars), NEW from \in Nat, NEW to \in Nat, from < to, to <= Len(src),
         NEW k \in Kinds
  PROVE  InClass(k, SubSeq(src, from + 1, to)) <=> ClassAt(k, from, to)
<1>. DEFINE s == SubSeq(src, from + 1, to)
<1>1. /\ s \in Seq(Chars) /\ Len(s) = to - from /\ DOMAIN s = 1..to - from
      /\ \A i \in 1..to - from : s[i] = CharAt(from + i - 1)
  <2>1. from <= to
    OBVIOUS
  <2> QED BY <2>1, Piece
<1>. HIDE DEF s
<1>2. DOMAIN Fixed = {"BACKSLASH", "LPAREN", "RPAREN", "COMMA", "EQ", "THIN_ARROW"}
  BY DEF Fixed
<1>3. 1 \in DOMAIN s /\ Head(s) = s[1] /\ s[1] = CharAt(from) /\ s # <<>>
  BY <1>1
<1>4. \A i \in from..to - 1 : i - from + 1 \in DOMAIN s /\ s[i - from + 1] = CharAt(i)
  <2> TAKE i \in from..to - 1
  <2>1. i - from + 1 \in 1..to - from /\ from + (i - from + 1) - 1 = i
    OBVIOUS
  <2> QED BY <1>1, <2>1
<1>5. \A i \in DOMAIN s : from + i - 1 \in from..to - 1 /\ s[i] = CharAt(from + i - 1)
  BY <1>1
<1>6. \A S : AllIn(s, S) <=> \A i \in from..to - 1 : CharAt(i) \in S
  BY <1>4, <1>5 DEF AllIn
<1>7. CASE k \in SingleKinds
  <2>1. ASSUME NEW c PROVE s = <<c>> <=> to = from + 1 /\ CharAt(from) = c
    <3>. DEFINE one == <<c>>
    <3>1. one \in Seq({c}) /\ Len(one) = 1 /\ one[1] = c
      OBVIOUS
    <3>. HIDE DEF one
    <3>2. s = one <=> Len(s) = Len(one) /\ \A i \in 1..Len(s) : s[i] = one[i]
      BY <1>1, <3>1, SameSeq, Zenon
    <3> QED BY <1>1, <1>3, <3>1, <3>2 DEF one
  <2>2. /\ k # "INT" /\ k \notin Words /\ k # "THIN_ARROW" /\ k \in DOMAIN Fixed
    BY <1>2, <1>7 DEF Words, SingleKinds
  <2>3. InClass(k, s) <=> s = Fixed[k]
    BY <2>2 DEF InClass
  <2>4. ClassAt(k, from, to) <=> to = from + 1 /\ Punctuation(CharAt(from)) = k
    BY <1>7, <2>2 DEF ClassAt
  <2>5. \A c : /\ Punctuation(c) = "BACKSLASH" <=> c = "\\"
               /\ Punctuation(c) = "LPAREN" <=> c = "("
               /\ Punctuation(c) = "RPAREN" <=> c = ")"
               /\ Punctuation(c) = "COMMA" <=> c = ","
               /\ Punctuation(c) = "EQ" <=> c = "="
    BY DEF Punctuation
  <2>6. /\ Fixed["BACKSLASH"] = <<"\\">> /\ Fixed["LPAREN"] = <<"(">> /\ Fixed["RPAREN"] = <<")">>
        /\ Fixed["COMMA"] = <<",">> /\ Fixed["EQ"] = <<"=">>
    BY DEF Fixed
  <2>7. s = Fixed[k] <=> to = from + 1 /\ Punctuation(CharAt(from)) = k
    BY <1>7, <2>1, <2>5, <2>6, Zenon DEF SingleKinds
  <2> QED BY <2>3, <2>4, <2>7 DEF s
<1>8. CASE k = "THIN_ARROW"
  <2>1. InClass(k, s) <=> s = <<"-", ">">>
    BY <1>2, <1>8 DEF InClass, Fixed, Words
  <2>2. ClassAt(k, from, to) <=> to = from + 2 /\ CharAt(from) = "-" /\ CharAt(from + 1) = ">"
    BY <1>8 DEF ClassAt, SingleKinds, Words
  <2>3. to - from >= 2 => s[2] = CharAt(from + 1)
    BY <1>1
  <2>4. s = <<"-", ">">> <=> to = from + 2 /\ CharAt(from) = "-" /\ CharAt(from + 1) = ">"
    <3>. DEFINE arrow == <<"-", ">">>
    <3>. DEFINE marks == {"-", ">"}
    <3>1. arrow \in Seq(marks) /\ Len(arrow) = 2 /\ arrow[1] = "-" /\ arrow[2] = ">"
      OBVIOUS
    <3>. HIDE DEF arrow, marks
    <3>2. s = arrow <=> Len(s) = Len(arrow) /\ \A i \in 1..Len(s) : s[i] = arrow[i]
      <4>1. s \in Seq(Chars)
        BY <1>1
      <4>2. arrow \in Seq(marks)
        BY <3>1
      <4> QED BY <4>1, <4>2, SameSeq, ZenonT(60)
    <3>3. \A i \in 1..2 : i = 1 \/ i = 2
      OBVIOUS
    <3>4. Len(s) = 2 <=> to = from + 2
      BY <1>1
    <3>5. to = from + 2 => s[1] = CharAt(from) /\ s[2] = CharAt(from + 1)
      BY <1>1, <1>3, <2>3
    <3>6. CASE Len(s) # 2
      BY <3>1, <3>2, <3>4, <3>6 DEF arrow
    <3>7. CASE Len(s) = 2
      <4>1. s = arrow <=> s[1] = "-" /\ s[2] = ">"
        BY <3>1, <3>2, <3>3, <3>7
      <4> QED BY <4>1, <3>4, <3>5, <3>7, Zenon DEF arrow
    <3> QED BY <3>6, <3>7, Zenon
  <2> QED BY <2>1, <2>2, <2>4 DEF s
<1>9. CASE k = "INT"
  <2>1. k \notin DOMAIN Fixed
    BY <1>2, <1>9
  <2>2. InClass(k, s) <=> \/ AllIn(s, Digits)
                          \/ Len(s) > 1 /\ Head(s) = "-" /\ AllIn(Tail(s), Digits)
    BY <1>3, <1>9, <2>1 DEF InClass, Words
  <2>3. ClassAt(k, from, to) <=>
          \/ DigitsIn(from, to)
          \/ from + 1 < to /\ CharAt(from) = "-" /\ DigitsIn(from + 1, to)
    BY <1>9 DEF ClassAt, SingleKinds, Words
  <2>4. AllIn(s, Digits) <=> DigitsIn(from, to)
    BY <1>6 DEF DigitsIn
  <2>5. ASSUME Len(s) > 1 PROVE AllIn(Tail(s), Digits) <=> DigitsIn(from + 1, to)
    <3>1. DOMAIN Tail(s) = 1..to - from - 1 /\ \A i \in 1..to - from - 1 : Tail(s)[i] = s[i + 1]
      BY <1>1, <2>5
    <3>2. \A i \in 1..to - from - 1 : /\ from + i \in from + 1..to - 1
                                      /\ Tail(s)[i] = CharAt(from + i)
      BY <1>1, <3>1
    <3>3. \A i \in from + 1..to - 1 : /\ i - from \in 1..to - from - 1
                                      /\ Tail(s)[i - from] = CharAt(i)
      <4> TAKE i \in from + 1..to - 1
      <4>1. i - from \in 1..to - from - 1 /\ from + (i - from) = i
        OBVIOUS
      <4> QED BY <3>2, <4>1
    <3> QED BY <3>1, <3>2, <3>3 DEF AllIn, DigitsIn
  <2>6. Len(s) > 1 <=> from + 1 < to
    BY <1>1
  <2> QED BY <1>3, <2>2, <2>3, <2>4, <2>5, <2>6 DEF s
<1>10. CASE k \in Words
  <2>1. k # "THIN_ARROW" /\ k # "INT" /\ k \notin DOMAIN Fixed /\ k \notin SingleKinds
    BY <1>2, <1>10 DEF Words, SingleKinds
  <2>2. InClass(k, s) <=> Head(s) \in Letters /\ AllIn(s, WordChars)
    BY <1>3, <1>10, <2>1 DEF InClass
  <2>3. ClassAt(k, from, to) <=> CharAt(from) \in Letters /\ WordIn(from, to)
    BY <1>10, <2>1 DEF ClassAt
  <2> QED BY <1>3, <1>6, <2>2, <2>3 DEF WordIn, s
<1> QED BY <1>2, <1>7, <1>8, <1>9, <1>10 DEF Kinds, SingleKinds

-----------------------------------------------------------------------------
\* What has been read of the token the lexer is in.
ReadSoFar ==
  /\ mode = "symbol" => end <= Len(src) /\ WordIn(start, end)
  /\ mode = "int" => /\ end <= Len(src) /\ neg \in BOOLEAN
                     /\ ~neg => CharAt(start) \in Digits /\ DigitsIn(start, end)
                     /\ neg => /\ start < end /\ CharAt(start) = "-"
                               /\ CharAt(start + 1) \in Digits /\ DigitsIn(start + 1, end)

LongestAt(k, from, to) ==
  /\ k \in Kinds /\ from \in Nat /\ to \in Nat /\ from < to /\ to <= Len(src)
  /\ ClassAt(k, from, to)
  /\ \A j \in Kinds, m \in to + 1..Len(src) : ~ClassAt(j, from, m)

Longest(tok) == tok.t # "EOI" => LongestAt(tok.t, tok.from, tok.to)

LInv == IInv /\ ReadSoFar /\ \A n \in DOMAIN tokens : Longest(tokens[n])

\* A word is followed by no character of a word.
LEMMA LongestWord ==
  ASSUME IInv, ReadSoFar, EndSymbol, NEW k \in Words
  PROVE  LongestAt(k, start, end)
<1>1. /\ src \in Seq(Chars) /\ start \in Nat /\ end \in Nat /\ Len(src) \in Nat /\ start <= end
      /\ mode = "symbol" /\ CharAt(start) \in Letters /\ start < Len(src)
      /\ end <= Len(src) /\ WordIn(start, end)
  BY DEF EndSymbol, IInv, Forward, ReadSoFar
<1>2. end = Len(src) \/ CharAt(end) \notin WordChars
  BY <1>1 DEF EndSymbol, AtEnd, InWord, PeekC
<1>3. start < end
  <2>1. CharAt(start) \in WordChars
    BY <1>1, Zenon DEF WordChars
  <2> QED BY <1>1, <1>2, <2>1
<1>4. ClassAt(k, start, end)
  BY <1>1 DEF ClassAt
<1>5. ASSUME NEW j \in Kinds, NEW m \in end + 1..Len(src), ClassAt(j, start, m) PROVE FALSE
  <2>1. end \in start..m - 1 /\ start \in start..m - 1
    BY <1>1
  <2>2. CharAt(start) \notin Digits /\ CharAt(start) # "-" /\ Punctuation(CharAt(start)) = ""
    BY <1>1, Apart DEF Punctuation
  <2>3. ~DigitsIn(start, m) /\ "" \notin SingleKinds
    BY <2>1, <2>2 DEF DigitsIn, SingleKinds
  <2>4. WordIn(start, m)
    BY <1>5, <2>2, <2>3 DEF ClassAt
  <2> QED BY <1>1, <1>2, <2>1, <2>4 DEF WordIn
<1>6. k \in Kinds
  BY DEF Kinds
<1> QED BY <1>1, <1>3, <1>4, <1>5, <1>6 DEF LongestAt

\* An integer is followed by no digit, and its sign by one.
LEMMA LongestInt ==
  ASSUME IInv, ReadSoFar, EndInt
  PROVE  LongestAt("INT", start, end)
<1>1. /\ src \in Seq(Chars) /\ start \in Nat /\ end \in Nat /\ Len(src) \in Nat /\ start <= end
      /\ mode = "int" /\ start < Len(src) /\ end <= Len(src) /\ neg \in BOOLEAN
      /\ ~neg => CharAt(start) \in Digits /\ DigitsIn(start, end)
      /\ neg => /\ start < end /\ CharAt(start) = "-"
                /\ CharAt(start + 1) \in Digits /\ DigitsIn(start + 1, end)
  BY DEF EndInt, IInv, Forward, ReadSoFar
<1>2. end = Len(src) \/ CharAt(end) \notin Digits
  BY <1>1 DEF EndInt, AtEnd, PeekC
<1>3. CASE ~neg
  <2>1. start < end
    BY <1>1, <1>2, <1>3
  <2>2. ClassAt("INT", start, end)
    BY <1>1, <1>3 DEF ClassAt
  <2>3. ASSUME NEW j \in Kinds, NEW m \in end + 1..Len(src), ClassAt(j, start, m) PROVE FALSE
    <3>1. end \in start..m - 1 /\ start \in start..m - 1
      BY <1>1
    <3>2. CharAt(start) \in Digits
      BY <1>1, <1>3
    <3>3. CharAt(start) \notin Letters /\ CharAt(start) # "-" /\ Punctuation(CharAt(start)) = ""
      BY <3>2, Apart DEF Punctuation
    <3>4. DigitsIn(start, m)
      BY <2>3, <3>3 DEF ClassAt, SingleKinds
    <3> QED BY <1>1, <1>2, <3>1, <3>4 DEF DigitsIn
  <2> QED BY <1>1, <2>1, <2>2, <2>3 DEF LongestAt, Kinds
<1>4. CASE neg
  <2>0. start < end /\ CharAt(start) = "-" /\ CharAt(start + 1) \in Digits /\ DigitsIn(start + 1, end)
    BY <1>1, <1>4
  <2>1. start + 1 < Len(src)
    <3>1. CharAt(start + 1) # NUL
      BY <2>0, Apart DEF NUL
    <3> QED BY <1>1, <3>1 DEF CharAt
  <2>2. start + 1 < end
    BY <1>1, <1>2, <2>0, <2>1
  <2>3. ClassAt("INT", start, end)
    BY <2>0, <2>2 DEF ClassAt
  <2>4. ASSUME NEW j \in Kinds, NEW m \in end + 1..Len(src), ClassAt(j, start, m) PROVE FALSE
    <3>1. end \in start + 1..m - 1 /\ start \in start..m - 1
      BY <1>1, <2>2
    <3>2. CharAt(start) \notin Letters /\ CharAt(start) \notin Digits
          /\ Punctuation(CharAt(start)) = "" /\ CharAt(start + 1) # ">"
      BY <2>0, Apart DEF Punctuation
    <3>3. ~DigitsIn(start, m)
      BY <3>1, <3>2 DEF DigitsIn
    <3>4. DigitsIn(start + 1, m)
      BY <2>4, <3>2, <3>3 DEF ClassAt, SingleKinds
    <3> QED BY <1>1, <1>2, <3>1, <3>4 DEF DigitsIn
  <2> QED BY <1>1, <2>0, <2>3, <2>4 DEF LongestAt, Kinds
<1> QED BY <1>1, <1>3, <1>4

\* No class has a longer text that begins with a punctuation mark or an arrow.
LEMMA LongestMark ==
  ASSUME IInv
  PROVE  /\ Punct => LongestAt(Punctuation(PeekC), end, end + 1)
         /\ Arrow => LongestAt("THIN_ARROW", end, end + 2)
<1>1. src \in Seq(Chars) /\ end \in Nat /\ Len(src) \in Nat
  BY DEF IInv, Forward
<1>2. ASSUME Punct PROVE LongestAt(Punctuation(PeekC), end, end + 1)
  <2>. DEFINE k == Punctuation(CharAt(end))
  <2>0. ~AtEnd /\ k # ""
    BY <1>2 DEF Punct, PeekC
  <2>1. end < Len(src)
    <3>1. ~AtEnd
      BY <2>0
    <3> QED BY <1>1, <3>1 DEF AtEnd
  <2>2. k \in SingleKinds
    BY <2>0 DEF Punctuation, SingleKinds
  <2>3. CharAt(end) \in {"\\", "(", ")", ",", "="}
    BY <2>0 DEF Punctuation
  <2>4. CharAt(end) \notin Letters /\ CharAt(end) \notin Digits /\ CharAt(end) # "-"
    BY <2>3, Apart
  <2>. HIDE DEF k
  <2>5. ClassAt(k, end, end + 1)
    BY <2>2 DEF ClassAt, k
  <2>6. ASSUME NEW j \in Kinds, NEW m \in end + 1 + 1..Len(src), ClassAt(j, end, m) PROVE FALSE
    <3>1. ~DigitsIn(end, m)
      BY <1>1, <2>4 DEF DigitsIn
    <3>2. m # end + 1
      BY <1>1
    <3> QED BY <2>4, <2>6, <3>1, <3>2 DEF ClassAt
  <2>7. k \in Kinds
    BY <2>2 DEF Kinds, SingleKinds, Fixed
  <2>8. LongestAt(k, end, end + 1)
    BY <1>1, <2>1, <2>5, <2>6, <2>7 DEF LongestAt
  <2> QED BY <2>8 DEF k, PeekC
<1>3. ASSUME Arrow PROVE LongestAt("THIN_ARROW", end, end + 2)
  <2>1. CharAt(end) = "-" /\ CharAt(end + 1) = ">" /\ end + 1 < Len(src)
    BY <1>1, <1>3 DEF Arrow, PeekC, CharAt, NUL
  <2>2. ClassAt("THIN_ARROW", end, end + 2)
    BY <2>1 DEF ClassAt
  <2>3. ASSUME NEW j \in Kinds, NEW m \in end + 2 + 1..Len(src), ClassAt(j, end, m) PROVE FALSE
    <3>1. end \in end..m - 1 /\ end + 1 \in end + 1..m - 1 /\ m # end + 1 /\ m # end + 2
      BY <1>1
    <3>2. CharAt(end) \notin Digits /\ CharAt(end) \notin Letters /\ CharAt(end + 1) \notin Digits
      BY <2>1, Apart
    <3>3. ~DigitsIn(end, m) /\ ~DigitsIn(end + 1, m)
      BY <3>1, <3>2 DEF DigitsIn
    <3> QED BY <2>3, <3>1, <3>2, <3>3 DEF ClassAt
  <2> QED BY <1>1, <2>1, <2>2, <2>3 DEF LongestAt, Kinds, Fixed
<1> QED BY <1>2, <1>3

-----------------------------------------------------------------------------
\* A token more, the longest at its place, and no other has been lost.
LEMMA LongerToken ==
  ASSUME LInv, IInv', NEW t, NEW val, NEW from, NEW to, MakeToken(t, val, from, to),
         t # "EOI" => LongestAt(t, from, to)
  PROVE  LInv'
<1>1. src' = src /\ mode' \in {"start", "done"}
  BY DEF MakeToken
<1>2. \A k, a, b : LongestAt(k, a, b)' <=> LongestAt(k, a, b)
  BY <1>1 DEF LongestAt, ClassAt, DigitsIn, WordIn, CharAt
<1>3. \A n \in DOMAIN tokens' : Longest(tokens[n])'
  <2> SUFFICES ASSUME NEW n \in DOMAIN tokens', tokens'[n].t # "EOI"
               PROVE  LongestAt(tokens'[n].t, tokens'[n].from, tokens'[n].to)
    BY <1>2 DEF Longest
  <2>1. IsSeq(tokens)
    BY DEF LInv, IInv, Behind
  <2>2. CASE \E m \in DOMAIN tokens : tokens'[n] = tokens[m]
    BY <2>2 DEF LInv, Longest
  <2>3. CASE tokens'[n].t = t /\ tokens'[n].from = from /\ tokens'[n].to = to
    BY <2>3
  <2> QED BY <2>1, <2>2, <2>3, OneMore
<1>4. ReadSoFar'
  BY <1>1 DEF ReadSoFar
<1> QED BY <1>3, <1>4 DEF LInv

\* A step that makes no token leaves those there are the longest.
LEMMA SameTokens ==
  ASSUME LInv, IInv', UNCHANGED <<src, tokens>>, ReadSoFar'
  PROVE  LInv'
BY DEF LInv, Longest, LongestAt, ClassAt, DigitsIn, WordIn, CharAt

\* Characters read are of the word they are read for.
LEMMA ReadOn ==
  ASSUME IInv, ReadSoFar, BeginSymbol \/ SymbolChar \/ BeginInt \/ IntDigit
  PROVE  ReadSoFar' /\ UNCHANGED <<src, tokens>>
<1>0. src \in Seq(Chars) /\ start \in Nat /\ end \in Nat /\ start <= end /\ Len(src) \in Nat
  BY DEF IInv, Forward
<1>1. CASE BeginSymbol \/ BeginInt
  <2>1. /\ UNCHANGED <<src, tokens>> /\ end < Len(src) /\ start' = end
    BY <1>0, <1>1 DEF BeginSymbol, BeginInt, Begin, AtEnd
  <2>2. \A i : CharAt(i)' = CharAt(i)
    BY <2>1 DEF CharAt
  <2>3. CASE BeginSymbol
    BY <1>0, <2>1, <2>3 DEF BeginSymbol, Begin, ReadSoFar, WordIn
  <2>4. CASE BeginInt /\ PeekC \in Digits /\ neg' = FALSE /\ end' = end
    <3>1. CharAt(end) \in Digits /\ neg' = FALSE /\ end' = end /\ mode' = "int"
      BY <2>4 DEF BeginInt, Begin, PeekC
    <3>2. CharAt(start)' \in Digits
      BY <2>1, <3>1 DEF CharAt
    <3>3. DigitsIn(start, end)'
      BY <1>0, <2>1, <3>1 DEF DigitsIn
    <3>4. end' <= Len(src')
      BY <1>0, <2>1, <3>1
    <3>5. neg' \in BOOLEAN /\ ~neg'
      BY <3>1
    <3>6. mode' # "symbol"
      BY <3>1
    <3> QED BY <2>1, <3>2, <3>3, <3>4, <3>5, <3>6, Zenon DEF ReadSoFar
  <2>5. CASE BeginInt /\ PeekC = "-" /\ CharAt(end + 1) \in Digits /\ neg' = TRUE /\ end' = end + 1
    <3>1. /\ CharAt(end) = "-" /\ CharAt(end + 1) \in Digits
          /\ neg' = TRUE /\ end' = end + 1 /\ mode' = "int"
      BY <2>5 DEF BeginInt, Begin, PeekC
    <3>2. CharAt(start)' = "-" /\ CharAt(start + 1)' \in Digits
      BY <2>1, <3>1 DEF CharAt
    <3>3. DigitsIn(start + 1, end)'
      BY <1>0, <2>1, <3>1 DEF DigitsIn
    <3> QED BY <1>0, <2>1, <3>1, <3>2, <3>3 DEF ReadSoFar
  <2> QED BY <1>1, <2>1, <2>3, <2>4, <2>5 DEF BeginInt
<1>2. CASE SymbolChar \/ IntDigit
  <2>1. /\ UNCHANGED <<src, tokens, start, mode>> /\ end < Len(src) /\ end' = end + 1
    BY <1>0, <1>2 DEF SymbolChar, IntDigit, AtEnd
  <2>2. \A i : CharAt(i)' = CharAt(i)
    BY <2>1 DEF CharAt
  <2>3. CASE SymbolChar
    <3>1. mode = "symbol" /\ CharAt(end) \in WordChars /\ WordIn(start, end)
      BY <2>3 DEF SymbolChar, InWord, PeekC, ReadSoFar
    <3>2. WordIn(start, end)'
      BY <1>0, <2>1, <2>2, <3>1 DEF WordIn
    <3> QED BY <1>0, <2>1, <3>1, <3>2 DEF ReadSoFar
  <2>4. CASE IntDigit
    <3>1. mode = "int" /\ CharAt(end) \in Digits /\ UNCHANGED neg
      BY <2>4 DEF IntDigit, PeekC
    <3>2. /\ DigitsIn(start, end) => DigitsIn(start, end)'
          /\ DigitsIn(start + 1, end) => DigitsIn(start + 1, end)'
      BY <1>0, <2>1, <2>2, <3>1 DEF DigitsIn
    <3> QED BY <1>0, <2>1, <2>2, <3>1, <3>2 DEF ReadSoFar
  <2> QED BY <1>2, <2>1, <2>3, <2>4
<1> QED BY <1>1, <1>2

LEMMA NextLInv == LInv /\ [Next]_lexVars => LInv'
<1> SUFFICES ASSUME LInv, [Next]_lexVars PROVE LInv'
  OBVIOUS
<1>0. IInv /\ ReadSoFar /\ IInv'
  BY NextIInv DEF LInv
<1>1. CASE BeginSymbol \/ SymbolChar \/ BeginInt \/ IntDigit
  BY <1>0, <1>1, ReadOn, SameTokens
<1>2. CASE SkipWhitespace \/ UnexpectedChar \/ UNCHANGED lexVars
  <2>1. UNCHANGED <<src, tokens, mode>>
    BY <1>2 DEF SkipWhitespace, UnexpectedChar, lexVars
  <2>2. ReadSoFar'
    <3>1. CASE UNCHANGED lexVars
      BY <1>0, <3>1 DEF lexVars, ReadSoFar, WordIn, DigitsIn, CharAt
    <3>2. CASE SkipWhitespace \/ UnexpectedChar
      BY <2>1, <3>2 DEF SkipWhitespace, UnexpectedChar, Looking, ReadSoFar
    <3> QED BY <1>2, <3>1, <3>2
  <2> QED BY <1>0, <2>1, <2>2, SameTokens
<1>3. CASE EndOfInput
  <2>1. MakeToken("EOI", 0, end, end + 1)
    BY <1>3 DEF EndOfInput
  <2> QED BY <1>0, <2>1, LongerToken
<1>4. CASE Punct
  <2>1. MakeToken(Punctuation(PeekC), 0, end, end + 1)
    BY <1>4 DEF Punct
  <2>2. LongestAt(Punctuation(PeekC), end, end + 1)
    BY <1>0, <1>4, LongestMark
  <2> QED BY <1>0, <2>1, <2>2, LongerToken
<1>5. CASE Arrow
  <2>1. MakeToken("THIN_ARROW", 0, end, end + 2)
    BY <1>5 DEF Arrow
  <2>2. LongestAt("THIN_ARROW", end, end + 2)
    BY <1>0, <1>5, LongestMark
  <2> QED BY <1>0, <2>1, <2>2, LongerToken
<1>6. CASE EndSymbol
  <2>1. PICK sym : MakeToken(SymbolKind(sym), sym, start, end)
    BY <1>6 DEF EndSymbol
  <2>2. SymbolKind(sym) \in Words
    BY DEF SymbolKind, Words
  <2>3. LongestAt(SymbolKind(sym), start, end)
    BY <1>0, <1>6, <2>2, LongestWord
  <2> QED BY <1>0, <2>1, <2>3, LongerToken
<1>7. CASE EndInt
  <2>1. PICK val : MakeToken("INT", val, start, end)
    BY <1>7 DEF EndInt
  <2>2. LongestAt("INT", start, end)
    BY <1>0, <1>7, LongestInt
  <2> QED BY <1>0, <2>1, <2>2, LongerToken
<1>8. CASE \E text \in Texts, d \in BOOLEAN : WistLex(text, d)
  <2>1. tokens' = <<>> /\ mode' = "start"
    BY <1>8 DEF WistLex
  <2> QED BY <1>0, <2>1 DEF LInv, ReadSoFar
<1> QED BY <1>1, <1>2, <1>3, <1>4, <1>5, <1>6, <1>7, <1>8 DEF Next, LexNext

LEMMA InitLInv == LexInit => LInv
<1>1. LexInit => tokens = <<>> /\ mode = "idle"
  BY DEF LexInit
<1> QED BY <1>1, InitIInv DEF LInv, ReadSoFar

\* LongestMatch holds of every source (lib/lexer.c:147): each token has a text of its
\* kind, and no kind of token has a longer text that begins there.
THEOREM EveryMatchIsLongest == Spec => []LongestMatch
<1>1. LInv => LongestMatch
  <2> SUFFICES ASSUME LInv, NEW n \in DOMAIN tokens, tokens[n].t # "EOI"
               PROVE  LET tok == tokens[n]
                      IN  /\ InClass(tok.t, TextOf(tok))
                          /\ \A k \in DOMAIN Fixed \cup {"INT", "SYM"}, to \in tok.to + 1..Len(src) :
                               ~InClass(k, SubSeq(src, tok.from + 1, to))
    BY DEF LongestMatch
  <2>. DEFINE tok == tokens[n]
  <2>1. LongestAt(tok.t, tok.from, tok.to) /\ src \in Seq(Chars) /\ Len(src) \in Nat
    BY DEF LInv, Longest, IInv, Forward
  <2>. HIDE DEF tok
  <2>2. tok.from \in Nat /\ tok.to \in Nat /\ tok.from < tok.to /\ tok.to <= Len(src)
    BY <2>1 DEF LongestAt
  <2>3. InClass(tok.t, TextOf(tok))
    BY <2>1, <2>2, ClassInPlace DEF LongestAt, TextOf
  <2>4. ASSUME NEW k \in DOMAIN Fixed \cup {"INT", "SYM"}, NEW to \in tok.to + 1..Len(src)
        PROVE  ~InClass(k, SubSeq(src, tok.from + 1, to))
    <3>1. k \in Kinds
      BY DEF Kinds, Words
    <3>2. to \in Nat /\ tok.from < to /\ to <= Len(src)
      BY <2>1, <2>2
    <3>3. ~ClassAt(k, tok.from, to)
      BY <2>1, <3>1 DEF LongestAt
    <3> QED BY <2>1, <2>2, <3>1, <3>2, <3>3, ClassInPlace
  <2> QED BY <2>3, <2>4 DEF tok
<1> QED BY <1>1, InitLInv, NextLInv, PTL DEF Spec
-----------------------------------------------------------------------------
\* The lexer has reported an unexpected character and made no token since.
Unreported == ~\E j \in skipped : \A m \in Nat : j <= m => ~InToken(m)

Reported(i) == \E n \in DOMAIN diags : diags[n].kind = "UNEXPECTED_CHAR" /\ diags[n].at = i
FirstOfRun(i) == ~\E j \in skipped : j < i /\ ~\E m \in j..i : InToken(m)

\* The flag of the lexer says whether the run it is in has been reported.
OInv ==
  /\ IInv /\ invalid \in BOOLEAN /\ (invalid <=> ~Unreported)
  /\ IsSeq(diags) /\ \A n \in DOMAIN diags : diags[n].at \in Nat /\ diags[n].at < Scanned
  /\ \A i \in skipped : Reported(i) <=> FirstOfRun(i)

\* A token ends the run.
LEMMA TokenReports ==
  ASSUME OInv, IInv', NEW t, NEW val, NEW to \in Nat, Scanned < to,
         MakeToken(t, val, Scanned, to)
  PROVE  OInv'
<1>0. /\ Scanned \in Nat /\ skipped \subseteq Nat /\ IsSeq(tokens)
      /\ \A i \in skipped : i < Scanned
  BY DEF OInv, IInv, Forward, Behind, Scanned
<1>1. /\ UNCHANGED <<skipped, diags>> /\ invalid' = FALSE /\ Scanned' = to
  BY DEF MakeToken, Scanned
<1>2. \A i \in Nat : InToken(i)' <=> InToken(i) \/ (Scanned <= i /\ i < to)
  BY <1>0, TokenAdds
<1>3. Unreported'
  <2> SUFFICES ASSUME NEW j \in skipped PROVE \E m \in Nat : j <= m /\ InToken(m)'
    BY <1>1 DEF Unreported
  <2>1. PICK m \in Nat : m = Scanned
    BY <1>0
  <2>2. j <= m /\ InToken(m)'
    BY <1>0, <1>2, <2>1
  <2> QED BY <2>2
<1>4. \A i \in skipped : FirstOfRun(i)' <=> FirstOfRun(i)
  <2> SUFFICES ASSUME NEW i \in skipped, NEW j \in skipped, NEW m \in j..i
               PROVE  InToken(m)' <=> InToken(m)
    BY <1>1 DEF FirstOfRun
  <2>1. m \in Nat /\ m < Scanned
    BY <1>0
  <2> QED BY <1>0, <1>2, <2>1
<1>5. \A i : Reported(i)' <=> Reported(i)
  BY <1>1 DEF Reported
<1>6. \A n \in DOMAIN diags : diags[n].at < to
  BY <1>0 DEF OInv
<1> QED BY <1>1, <1>3, <1>4, <1>5, <1>6 DEF OInv

\* A step that neither makes a token nor passes over a character leaves the run.
LEMMA RunGoesOn ==
  ASSUME OInv, IInv', UNCHANGED <<tokens, skipped, diags, invalid>>, Scanned <= Scanned'
  PROVE  OInv'
<1>1. Scanned \in Nat /\ Scanned' \in Nat
  BY DEF OInv, IInv, Forward, Scanned
<1>2. \A i : /\ Reported(i)' <=> Reported(i)
             /\ FirstOfRun(i)' <=> FirstOfRun(i)
  BY DEF InToken, Covers, Reported, FirstOfRun
<1>3. Unreported' = Unreported
  BY DEF Unreported, InToken, Covers
<1>4. \A n \in DOMAIN diags : diags[n].at < Scanned'
  BY <1>1 DEF OInv
<1>5. invalid' \in BOOLEAN /\ (invalid' <=> ~Unreported')
  <2>1. invalid' = invalid /\ invalid \in BOOLEAN /\ (invalid <=> ~Unreported)
    BY DEF OInv
  <2> QED BY <1>3, <2>1
<1> QED BY <1>2, <1>4, <1>5 DEF OInv

\* Of the characters passed over the first is reported, if the run had not been yet.
LEMMA UnexpectedReports == OInv /\ IInv' /\ UnexpectedChar => OInv'
<1> SUFFICES ASSUME OInv, IInv', UnexpectedChar PROVE OInv'
  OBVIOUS
<1>0. /\ end \in Nat /\ Scanned = end /\ skipped \subseteq Nat
      /\ \A i \in skipped : i < end
  BY DEF UnexpectedChar, Looking, OInv, IInv, Forward, Behind, Scanned
<1>1. /\ UNCHANGED tokens /\ skipped' = skipped \cup end..Here /\ invalid' = TRUE
      /\ end' = Here + 1 /\ Scanned' = Here + 1
  BY DEF UnexpectedChar, Looking, Scanned
<1>2. Here \in {end, end + 1}
  BY DEF Here
<1>3. \A m \in Nat : InToken(m) => m < end
  BY <1>0 DEF OInv, IInv, Behind, TokensTile, InToken, Covers
<1>4. \A m : InToken(m)' <=> InToken(m)
  BY <1>1 DEF InToken, Covers
<1>5. end \in skipped'
  BY <1>0, <1>1, <1>2
<1>6. ~Unreported'
  BY <1>0, <1>3, <1>4, <1>5 DEF Unreported
<1>7. \A i \in skipped : FirstOfRun(i)' <=> FirstOfRun(i)
  <2> SUFFICES ASSUME NEW i \in skipped PROVE \A j \in skipped' : j < i => j \in skipped
    BY <1>1, <1>4 DEF FirstOfRun
  <2> QED BY <1>0, <1>1, <1>2
<1>8. PICK e \in Nat : e = end
  BY <1>0
<1>9. FirstOfRun(e)' <=> Unreported
  <2>1. \A j \in skipped' : j < e => j \in skipped
    BY <1>0, <1>1, <1>2, <1>8
  <2>2. FirstOfRun(e)' <=> \A j \in skipped : \E m \in j..e : InToken(m)
    BY <1>0, <1>1, <1>4, <1>8, <2>1 DEF FirstOfRun
  <2>3. ASSUME NEW j \in skipped
        PROVE  (\E m \in j..e : InToken(m)) <=> \E m \in Nat : j <= m /\ InToken(m)
    <3>1. j \in Nat /\ j < e
      BY <1>0, <1>8
    <3> QED BY <1>3, <1>8, <3>1
  <2> QED BY <2>2, <2>3 DEF Unreported
<1>10. \A i \in skipped' \ skipped : i = e \/ (i = e + 1 /\ ~FirstOfRun(i)')
  <2> SUFFICES ASSUME NEW i \in end..Here, i # e PROVE i = e + 1 /\ ~FirstOfRun(i)'
    BY <1>1
  <2>1. i = e + 1 /\ \A m \in e..i : m \in Nat /\ ~(m < e)
    BY <1>2, <1>8
  <2>2. e \in skipped' /\ e < i /\ ~\E m \in e..i : InToken(m)'
    BY <1>3, <1>4, <1>5, <1>8, <2>1
  <2> QED BY <2>1, <2>2 DEF FirstOfRun
<1>11. \A i : Reported(i) => i \in Nat /\ i < e
  BY <1>0, <1>8 DEF OInv, Reported
<1>12. /\ IsSeq(diags') /\ \A i : Reported(i)' <=> Reported(i) \/ (i = e /\ ~invalid)
       /\ \A n \in DOMAIN diags' : diags'[n].at \in Nat /\ diags'[n].at < Here + 1
  <2>0. /\ IsSeq(diags)
        /\ \A n \in DOMAIN diags : diags[n].at \in Nat /\ diags[n].at < Here + 1
    BY <1>0, <1>2 DEF OInv
  <2>1. CASE invalid
    <3>1. diags' = diags
      BY <2>1 DEF UnexpectedChar, Reports
    <3> QED BY <2>0, <2>1, <3>1 DEF Reported
  <2>2. CASE ~invalid
    <3>. DEFINE d == [kind |-> "UNEXPECTED_CHAR", loc |-> Add(ix, end, Here).loc, at |-> end]
    <3>1. diags' = Append(diags, d)
      BY <2>2 DEF UnexpectedChar, Reports
    <3>2. d.kind = "UNEXPECTED_CHAR" /\ d.at = e
      BY <1>8
    <3>. HIDE DEF d
    <3>3. /\ IsSeq(diags') /\ Len(diags) \in Nat
          /\ DOMAIN diags = 1..Len(diags) /\ DOMAIN diags' = 1..Len(diags) + 1
          /\ \A n \in 1..Len(diags) : diags'[n] = diags[n]
          /\ diags'[Len(diags) + 1] = d
      BY <2>0, <3>1, Appended
    <3>4. \A i : Reported(i)' <=> Reported(i) \/ i = e
      BY <3>2, <3>3 DEF Reported
    <3>5. e < Here + 1
      BY <1>2, <1>8
    <3> QED BY <2>0, <2>2, <3>2, <3>3, <3>4, <3>5
  <2> QED BY <2>1, <2>2
<1>13. \A i \in skipped' : Reported(i)' <=> FirstOfRun(i)'
  <2> TAKE i \in skipped'
  <2>1. CASE i \in skipped
    <3>1. i # e
      BY <1>0, <1>8, <2>1
    <3> QED BY <1>7, <1>12, <2>1, <3>1 DEF OInv
  <2>2. CASE i \notin skipped
    <3>1. ~Reported(i)
      BY <1>8, <1>10, <1>11, <2>2
    <3>2. ~invalid <=> Unreported
      BY DEF OInv
    <3> QED BY <1>8, <1>9, <1>10, <1>12, <2>2, <3>1, <3>2
  <2> QED BY <2>1, <2>2
<1> QED BY <1>1, <1>6, <1>12, <1>13 DEF OInv

LEMMA NextOInv == OInv /\ [Next]_lexVars => OInv'
<1> SUFFICES ASSUME OInv, [Next]_lexVars PROVE OInv'
  OBVIOUS
<1>0. IInv /\ IInv'
  BY NextIInv DEF OInv
<1>1. CASE EndOfInput \/ EndSymbol \/ EndInt \/ Punct \/ Arrow
  BY <1>0, <1>1, Made, TokenReports
<1>2. CASE UnexpectedChar
  BY <1>0, <1>2, UnexpectedReports
<1>3. CASE SkipWhitespace \/ BeginSymbol \/ SymbolChar \/ BeginInt \/ IntDigit
           \/ UNCHANGED lexVars
  <2>1. UNCHANGED <<tokens, skipped, diags, invalid>>
    BY <1>3 DEF SkipWhitespace, BeginSymbol, SymbolChar, BeginInt, IntDigit, Begin, lexVars
  <2>2. Scanned <= Scanned'
    <3>1. start \in Nat /\ end \in Nat /\ start <= end
      BY <1>0 DEF IInv, Forward
    <3> QED BY <1>3, <3>1 DEF SkipWhitespace, BeginSymbol, SymbolChar, BeginInt, IntDigit, Begin,
                   Looking, lexVars, Scanned
  <2> QED BY <1>0, <2>1, <2>2, RunGoesOn
<1>4. CASE \E text \in Texts, d \in BOOLEAN : WistLex(text, d)
  <2>1. diags' = <<>> /\ skipped' = {} /\ invalid' = FALSE
    BY <1>4 DEF WistLex
  <2>2. <<>> \in Seq({}) /\ DOMAIN <<>> = {}
    OBVIOUS
  <2>3. IsSeq(diags') /\ DOMAIN diags' = {}
    BY <2>1, <2>2 DEF IsSeq
  <2>4. Unreported'
    BY <2>1 DEF Unreported
  <2> QED BY <1>0, <2>1, <2>3, <2>4 DEF OInv
<1> QED BY <1>1, <1>2, <1>3, <1>4 DEF Next, LexNext

LEMMA InitOInv == LexInit => OInv
<1> SUFFICES ASSUME LexInit PROVE OInv
  OBVIOUS
<1>1. diags = <<>> /\ skipped = {} /\ invalid = FALSE
  BY DEF LexInit
<1>2. <<>> \in Seq({}) /\ DOMAIN <<>> = {}
  OBVIOUS
<1>3. IsSeq(diags) /\ DOMAIN diags = {}
  BY <1>1, <1>2 DEF IsSeq
<1>4. Unreported
  BY <1>1 DEF Unreported
<1> QED BY <1>1, <1>3, <1>4, InitIInv DEF OInv

\* OneReport holds of every source (lib/lexer.c:29): whatever comes between, a run of
\* unexpected characters is reported once, at its first.
THEOREM EachRunIsReportedOnce == Spec => []OneReport
<1>1. OInv => OneReport
  BY DEF OInv, OneReport, Reported, FirstOfRun
<1> QED BY <1>1, InitOInv, NextOInv, PTL DEF Spec
-----------------------------------------------------------------------------
\* What holds of zero and of the next number holds of every number: of those it did
\* not hold of there would be a least one.
LEMMA Counting ==
  ASSUME NEW T, 0 \in T, \A n \in Nat : n \in T => n + 1 \in T
  PROVE  \A n \in Nat : n \in T
<1>. DEFINE Rest == {n \in Nat : n \notin T}
            Below == {p \in Nat \X Nat : p[1] < p[2]}
<1>1. IsWellFoundedOn(Below, Nat)
  BY NatLessThanWellFounded DEF OpToRel
<1>. SUFFICES ASSUME Rest # {} PROVE FALSE
  OBVIOUS
<1>. HIDE DEF Below
<1>2. PICK k \in Rest : \A j \in Rest : ~(<<j, k>> \in Below)
  <2>1. Rest \subseteq Nat /\ Rest # {}
    OBVIOUS
  <2> QED BY <1>1, <2>1, WFMin
<1>3. \A j \in Rest : ~(j < k)
  BY <1>2 DEF Below
<1>4. k # 0 /\ k - 1 \in Nat
  OBVIOUS
<1>5. k - 1 \in T
  BY <1>3, <1>4
<1> QED BY <1>4, <1>5

\* f is the value of the first n characters of s, for each n up to m.
ReadsAs(f, s, m) == f = [n \in 0..m |-> IF n = 0 THEN 0 ELSE 10 * f[n - 1] + DigitVal(s[n])]

\* The value of a literal is defined for each of its characters.
LEMMA ReadsAsSome == ASSUME NEW s, Len(s) \in Nat PROVE \E f : ReadsAs(f, s, Len(s))
<1>. DEFINE T == {m \in Nat : \E f : ReadsAs(f, s, m)}
<1>1. 0 \in T
  <2>1. ReadsAs([n \in 0..0 |-> 0], s, 0)
    BY DEF ReadsAs
  <2> QED BY <2>1
<1>2. ASSUME NEW m \in Nat, m \in T PROVE m + 1 \in T
  <2>1. PICK f : ReadsAs(f, s, m)
    BY <1>2
  <2>2. DOMAIN f = 0..m /\ f[0] = 0 /\ \A n \in 1..m : f[n] = 10 * f[n - 1] + DigitVal(s[n])
    BY <2>1 DEF ReadsAs
  <2>. DEFINE g == [n \in 0..m + 1 |-> IF n <= m THEN f[n] ELSE 10 * f[m] + DigitVal(s[m + 1])]
              h == [n \in 0..m + 1 |-> IF n = 0 THEN 0 ELSE 10 * g[n - 1] + DigitVal(s[n])]
  <2>3. \A n \in 0..m + 1 : g[n] = h[n]
    <3> TAKE n \in 0..m + 1
    <3>1. CASE n = 0
      BY <2>2, <3>1
    <3>2. CASE n \in 1..m
      BY <2>2, <3>2
    <3>3. CASE n = m + 1
      BY <3>3
    <3> QED BY <3>1, <3>2, <3>3
  <2>4. g = h
    BY <2>3
  <2>5. ReadsAs(g, s, m + 1)
    BY <2>4 DEF ReadsAs
  <2> QED BY <2>5
<1>. HIDE DEF T
<1>3. \A m \in Nat : m \in T
  BY <1>1, <1>2, Counting
<1> QED BY <1>3 DEF T

LEMMA NumberReads ==
  ASSUME NEW s, Len(s) \in Nat
  PROVE  \E f : ReadsAs(f, s, Len(s)) /\ Number(s) = f[Len(s)]
<1>. DEFINE f == CHOOSE f : f = [n \in 0..Len(s) |-> IF n = 0 THEN 0 ELSE 10 * f[n - 1] + DigitVal(s[n])]
<1>1. \E g : g = [n \in 0..Len(s) |-> IF n = 0 THEN 0 ELSE 10 * g[n - 1] + DigitVal(s[n])]
  BY ReadsAsSome DEF ReadsAs
<1>2. f = [n \in 0..Len(s) |-> IF n = 0 THEN 0 ELSE 10 * f[n - 1] + DigitVal(s[n])]
  BY <1>1
<1>3. Number(s) = f[Len(s)]
  BY DEF Number
<1>. HIDE DEF f
<1> QED BY <1>2, <1>3 DEF ReadsAs

\* One digit more makes a number ten times what it was, and the digit.
LEMMA NumberAppends ==
  ASSUME NEW s, NEW t, Len(s) \in Nat, Len(t) = Len(s) + 1, \A i \in 1..Len(s) : t[i] = s[i]
  PROVE  Number(t) = 10 * Number(s) + DigitVal(t[Len(t)])
<1>1. PICK f : ReadsAs(f, s, Len(s)) /\ Number(s) = f[Len(s)]
  BY NumberReads
<1>2. PICK g : ReadsAs(g, t, Len(t)) /\ Number(t) = g[Len(t)]
  BY NumberReads
<1>3. f[0] = 0 /\ \A n \in 1..Len(s) : f[n] = 10 * f[n - 1] + DigitVal(s[n])
  BY <1>1 DEF ReadsAs
<1>4. g[0] = 0 /\ \A n \in 1..Len(s) + 1 : g[n] = 10 * g[n - 1] + DigitVal(t[n])
  BY <1>2 DEF ReadsAs
<1>. DEFINE T == {n \in Nat : n <= Len(s) => f[n] = g[n]}
<1>5. 0 \in T
  BY <1>3, <1>4
<1>6. ASSUME NEW n \in Nat, n \in T PROVE n + 1 \in T
  <2> SUFFICES ASSUME n + 1 <= Len(s) PROVE f[n + 1] = g[n + 1]
    OBVIOUS
  <2>1. f[n] = g[n]
    BY <1>6
  <2>2. n + 1 \in 1..Len(s) /\ n + 1 \in 1..Len(s) + 1 /\ (n + 1) - 1 = n
    OBVIOUS
  <2> QED BY <1>3, <1>4, <2>1, <2>2
<1>. HIDE DEF T
<1>7. Len(s) \in T
  BY <1>5, <1>6, Counting
<1>8. f[Len(s)] = g[Len(s)]
  BY <1>7 DEF T
<1>9. g[Len(s) + 1] = 10 * g[Len(s)] + DigitVal(t[Len(s) + 1])
  <2>1. Len(s) + 1 \in 1..Len(s) + 1 /\ (Len(s) + 1) - 1 = Len(s)
    OBVIOUS
  <2> QED BY <1>4, <2>1
<1> QED BY <1>1, <1>2, <1>8, <1>9

LEMMA NumberOfNone == ASSUME NEW s, Len(s) = 0 PROVE Number(s) = 0
<1>1. PICK f : ReadsAs(f, s, Len(s)) /\ Number(s) = f[Len(s)]
  BY NumberReads
<1> QED BY <1>1 DEF ReadsAs

LEMMA DigitType == \A c \in Digits : DigitVal(c) \in 0..9
<1> SUFFICES ASSUME NEW i \in 1..10 PROVE DigitVal(DigitSeq[i]) \in 0..9
  BY DEF Digits
<1>1. i - 1 \in 0..9 /\ (i - 1) + 1 = i
  OBVIOUS
<1>2. \E d \in 0..9 : DigitSeq[d + 1] = DigitSeq[i]
  BY <1>1
<1> QED BY <1>2 DEF DigitVal

LEMMA WrapFits ==
  /\ \A n \in Int : Wrap(n) \in Int
  /\ \A n \in Int : -IntHalf <= n /\ n < IntHalf => Wrap(n) = n
  /\ Wrap(IntHalf) = -IntHalf
BY LexerAssumption DEF Wrap

\* The digits read of the literal, and that their value is kept while an int64_t can
\* hold it; the magnitude of the least one has become its negative.
FirstDigit == IF neg THEN start + 1 ELSE start
Magnitude == Number(SubSeq(src, FirstDigit + 1, end))
Keeps(t, n) == /\ t \in Int /\ n \in Nat
               /\ n < IntHalf => t = n
               /\ n = IntHalf => t = -IntHalf

InRange(v) == -IntHalf <= v /\ v < IntHalf
HasValue(tok) ==
  tok.t = "INT" => (InRange(ValueOf(TextOf(tok))) => tok.val = ValueOf(TextOf(tok)))

VInv == /\ IInv /\ ReadSoFar
        /\ mode = "int" => Keeps(total, Magnitude)
        /\ \A n \in DOMAIN tokens : HasValue(tokens[n])

LEMMA KeepsOn ==
  ASSUME NEW t, NEW n, Keeps(t, n), NEW d \in 0..9
  PROVE  Keeps(Wrap(t * 10 + d), 10 * n + d)
<1>1. t \in Int /\ n \in Nat /\ (n < IntHalf => t = n) /\ (n = IntHalf => t = -IntHalf)
  BY DEF Keeps
<1>2. IntHalf \in Nat \ {0} /\ t * 10 + d \in Int /\ 10 * n + d \in Nat
  BY <1>1, LexerAssumption
<1>3. 10 * n + d <= IntHalf => n < IntHalf /\ t * 10 + d = 10 * n + d
  BY <1>1, <1>2
<1>4. Wrap(t * 10 + d) \in Int
  BY <1>2, WrapFits
<1>5. ASSUME 10 * n + d < IntHalf PROVE Wrap(t * 10 + d) = 10 * n + d
  <2>1. t * 10 + d = 10 * n + d /\ -IntHalf <= t * 10 + d /\ t * 10 + d < IntHalf
    BY <1>2, <1>3, <1>5
  <2> QED BY <1>2, <2>1, WrapFits
<1>6. ASSUME 10 * n + d = IntHalf PROVE Wrap(t * 10 + d) = -IntHalf
  <2>1. t * 10 + d = IntHalf
    BY <1>2, <1>3, <1>6
  <2> QED BY <2>1, WrapFits
<1> QED BY <1>2, <1>4, <1>5, <1>6 DEF Keeps

\* A literal begins with no digits.
LEMMA NoDigitsYet == IInv /\ BeginInt => Keeps(total, Magnitude)'
<1> SUFFICES ASSUME IInv, BeginInt PROVE Keeps(total, Magnitude)'
  OBVIOUS
<1>1. src \in Seq(Chars) /\ end \in Nat /\ total' = 0 /\ src' = src /\ start' = end
  BY DEF IInv, Forward, BeginInt, Begin
<1>2. FirstDigit' = end'  /\ end' \in Nat
  BY <1>1 DEF BeginInt, FirstDigit
<1>3. \A x \in Nat : Len(SubSeq(src, x + 1, x)) = 0
  BY <1>1
<1>4. Magnitude' = 0
  BY <1>1, <1>2, <1>3, NumberOfNone DEF Magnitude
<1>5. IntHalf \in Nat \ {0}
  BY LexerAssumption
<1> QED BY <1>1, <1>4, <1>5 DEF Keeps

\* Each digit is added to it.
LEMMA DigitAdds ==
  ASSUME IInv, ReadSoFar, Keeps(total, Magnitude), IntDigit
  PROVE  Keeps(total, Magnitude)'
<1>1. /\ mode = "int" /\ src' = src /\ start' = start /\ neg' = neg /\ end' = end + 1
      /\ total' = Wrap(total * 10 + DigitVal(CharAt(end))) /\ CharAt(end) \in Digits
      /\ ~AtEnd
  BY DEF IntDigit, PeekC
<1>2. /\ src \in Seq(Chars) /\ start \in Nat /\ end \in Nat /\ start <= end
      /\ Len(src) \in Nat /\ neg \in BOOLEAN /\ (neg => start < end)
  BY <1>1 DEF IInv, Forward, ReadSoFar
<1>3. FirstDigit' = FirstDigit /\ FirstDigit \in Nat /\ FirstDigit <= end
  BY <1>1, <1>2 DEF FirstDigit
<1>4. end + 1 <= Len(src)
  BY <1>1, <1>2 DEF AtEnd
<1>5. PICK f \in Nat, e \in Nat :
        f = FirstDigit /\ e = end + 1 /\ f <= end /\ f <= e /\ end <= Len(src) /\ e <= Len(src)
  BY <1>2, <1>3, <1>4
<1>. DEFINE s == SubSeq(src, f + 1, end)
            t == SubSeq(src, f + 1, e)
<1>6. Len(s) = end - f /\ \A i \in 1..end - f : s[i] = CharAt(f + i - 1)
  BY <1>2, <1>5, Piece
<1>7. Len(t) = e - f /\ \A i \in 1..e - f : t[i] = CharAt(f + i - 1)
  BY <1>2, <1>5, Piece
<1>. HIDE DEF s, t
<1>8. Len(s) \in Nat /\ Len(t) = Len(s) + 1 /\ \A i \in 1..Len(s) : t[i] = s[i]
  BY <1>2, <1>5, <1>6, <1>7
<1>9. t[Len(t)] = CharAt(end)
  <2>1. Len(t) \in 1..e - f /\ f + Len(t) - 1 = end
    BY <1>2, <1>5, <1>7
  <2> QED BY <1>7, <2>1
<1>10. Number(t) = 10 * Number(s) + DigitVal(CharAt(end))
  BY <1>8, <1>9, NumberAppends
<1>11. Magnitude = Number(s) /\ Magnitude' = Number(t)
  BY <1>1, <1>3, <1>5 DEF Magnitude, s, t
<1>12. DigitVal(CharAt(end)) \in 0..9
  BY <1>1, DigitType
<1> QED BY <1>1, <1>10, <1>11, <1>12, KeepsOn

\* And the literal has its value, its sign applied.
LEMMA LiteralValue ==
  ASSUME VInv, EndInt
  PROVE  \E val : /\ MakeToken("INT", val, start, end)
                  /\ LET v == ValueOf(SubSeq(src, start + 1, end)) IN InRange(v) => val = v
<1>0. LongestAt("INT", start, end)
  BY LongestInt DEF VInv
<1>1. /\ src \in Seq(Chars) /\ start \in Nat /\ end \in Nat /\ start < end /\ end <= Len(src)
      /\ Len(src) \in Nat /\ mode = "int" /\ neg \in BOOLEAN /\ Keeps(total, Magnitude)
      /\ ~neg => CharAt(start) \in Digits
      /\ neg => CharAt(start) = "-"
  BY <1>0 DEF EndInt, VInv, IInv, Forward, ReadSoFar, LongestAt
<1>. DEFINE s == SubSeq(src, start + 1, end)
            u == SubSeq(src, start + 2, end)
<1>2. s \in Seq(Chars) /\ Len(s) = end - start /\ \A i \in 1..end - start : s[i] = CharAt(start + i - 1)
  BY <1>1, Piece
<1>3. Head(s) = CharAt(start)
  <2>. HIDE DEF s
  <2>1. 1 \in 1..end - start /\ start + 1 - 1 = start /\ Len(s) # 0
    BY <1>1, <1>2
  <2> QED BY <1>2, <2>1
<1>4. Tail(s) = u
  <2>1. PICK f \in Nat : f = start + 1
    BY <1>1
  <2>2. u = SubSeq(src, f + 1, end) /\ f <= end
    BY <1>1, <2>1
  <2>3. u \in Seq(Chars) /\ Len(u) = end - f /\ \A i \in 1..end - f : u[i] = CharAt(f + i - 1)
    <3>1. LET w == SubSeq(src, f + 1, end)
          IN  w \in Seq(Chars) /\ Len(w) = end - f /\ \A i \in 1..end - f : w[i] = CharAt(f + i - 1)
      BY <1>1, <2>2, Piece
    <3> QED BY <2>2, <3>1
  <2>. HIDE DEF s, u
  <2>4. s # <<>>
    BY <1>1, <1>2
  <2>5. /\ Tail(s) \in Seq(Chars) /\ Len(Tail(s)) = end - start - 1
        /\ \A i \in 1..end - start - 1 : Tail(s)[i] = s[i + 1]
    BY <1>1, <1>2, <2>4
  <2>6. \A i \in 1..end - start - 1 : s[i + 1] = u[i]
    <3> TAKE i \in 1..end - start - 1
    <3>1. i + 1 \in 1..end - start /\ i \in 1..end - f /\ start + (i + 1) - 1 = f + i - 1
      BY <1>1, <2>1
    <3> QED BY <1>2, <2>3, <3>1
  <2>7. Len(Tail(s)) = Len(u) /\ \A i \in 1..Len(Tail(s)) : Tail(s)[i] = u[i]
    BY <1>1, <2>1, <2>3, <2>5, <2>6
  <2> QED BY <2>3, <2>5, <2>7, SameSeq, Zenon
<1>5. IntHalf \in Nat \ {0}
  BY LexerAssumption
<1>6. CASE ~neg
  <2>1. Magnitude = Number(s)
    BY <1>6 DEF Magnitude, FirstDigit
  <2>2. ValueOf(s) = Number(s)
    BY <1>1, <1>3, <1>6, Apart DEF ValueOf
  <2>3. MakeToken("INT", total, start, end)
    BY <1>6 DEF EndInt
  <2>. HIDE DEF s
  <2>4. InRange(ValueOf(s)) => total = ValueOf(s)
    BY <1>1, <1>5, <2>1, <2>2 DEF Keeps, InRange
  <2> QED BY <2>3, <2>4 DEF s
<1>7. CASE neg
  <2>1. Magnitude = Number(u)
    <3>1. FirstDigit + 1 = start + 2
      BY <1>1, <1>7 DEF FirstDigit
    <3> QED BY <3>1 DEF Magnitude
  <2>2. ValueOf(s) = -Number(u)
    BY <1>1, <1>3, <1>4, <1>7 DEF ValueOf
  <2>3. MakeToken("INT", Wrap(-total), start, end)
    BY <1>7 DEF EndInt
  <2>. HIDE DEF s, u
  <2>4. InRange(ValueOf(s)) => Wrap(-total) = ValueOf(s)
    <3> SUFFICES ASSUME InRange(-Number(u)) PROVE Wrap(-total) = -Number(u)
      BY <2>2
    <3>1. /\ Number(u) \in Nat /\ Number(u) <= IntHalf
          /\ Number(u) < IntHalf => total = Number(u)
          /\ Number(u) = IntHalf => total = -IntHalf
      BY <1>1, <1>5, <2>1 DEF Keeps, InRange
    <3>2. CASE Number(u) < IntHalf
      <4>1. -total \in Int /\ -IntHalf <= -total /\ -total < IntHalf
        BY <1>5, <3>1, <3>2
      <4> QED BY <3>1, <3>2, <4>1, WrapFits
    <3>3. CASE Number(u) = IntHalf
      <4>1. -total = IntHalf
        BY <1>5, <3>1, <3>3
      <4> QED BY <3>3, <4>1, WrapFits
    <3> QED BY <1>5, <3>1, <3>2, <3>3
  <2> QED BY <2>3, <2>4 DEF s
<1> QED BY <1>1, <1>6, <1>7

\* The value of a token there is stands.
LEMMA ValueStands ==
  ASSUME VInv, IInv', ReadSoFar', src' = src, mode' = "int" => Keeps(total, Magnitude)',
         \A n \in DOMAIN tokens' : (\E m \in DOMAIN tokens : tokens'[n] = tokens[m])
                                   \/ HasValue(tokens'[n])
  PROVE  VInv'
<1>1. \A x : HasValue(x)' <=> HasValue(x)
  BY DEF HasValue, TextOf
<1>2. \A n \in DOMAIN tokens' : HasValue(tokens'[n])
  BY DEF VInv
<1>3. \A n \in DOMAIN tokens' : HasValue(tokens[n])'
  BY <1>2 DEF HasValue, TextOf
<1> QED BY <1>3 DEF VInv

LEMMA NextVInv == VInv /\ [Next]_lexVars => VInv'
<1> SUFFICES ASSUME VInv, [Next]_lexVars PROVE VInv'
  OBVIOUS
<1>0. IInv /\ IInv' /\ ReadSoFar /\ IsSeq(tokens)
  BY NextIInv DEF VInv, IInv, Behind
<1>1. CASE BeginSymbol \/ SymbolChar \/ BeginInt \/ IntDigit
  <2>1. ReadSoFar' /\ UNCHANGED <<src, tokens>>
    BY <1>0, <1>1, ReadOn
  <2>2. mode' = "int" => Keeps(total, Magnitude)'
    <3>1. BeginSymbol \/ SymbolChar => mode' # "int"
      BY DEF BeginSymbol, SymbolChar, Begin
    <3>2. IntDigit => mode = "int"
      BY DEF IntDigit
    <3> QED BY <1>0, <1>1, <3>1, <3>2, NoDigitsYet, DigitAdds DEF VInv
  <2> QED BY <1>0, <2>1, <2>2, ValueStands
<1>2. CASE SkipWhitespace \/ UnexpectedChar
  <2>1. UNCHANGED <<src, tokens>> /\ mode' = "start"
    BY <1>2 DEF SkipWhitespace, UnexpectedChar, Looking
  <2> QED BY <1>0, <2>1, ValueStands DEF ReadSoFar
<1>3. CASE EndOfInput \/ EndSymbol \/ Punct \/ Arrow
  <2>1. PICK t, val, from, to : MakeToken(t, val, from, to) /\ t # "INT"
    <3>1. CASE EndOfInput
      BY <3>1 DEF EndOfInput
    <3>2. CASE EndSymbol
      <4>1. PICK sym : MakeToken(SymbolKind(sym), sym, start, end)
        BY <3>2 DEF EndSymbol
      <4>2. SymbolKind(sym) # "INT"
        BY DEF SymbolKind
      <4> QED BY <4>1, <4>2
    <3>3. CASE Punct
      <4>1. MakeToken(Punctuation(PeekC), 0, end, end + 1)
        BY <3>3 DEF Punct
      <4>2. Punctuation(PeekC) # "INT"
        BY DEF Punctuation
      <4> QED BY <4>1, <4>2
    <3>4. CASE Arrow
      BY <3>4 DEF Arrow
    <3> QED BY <1>3, <3>1, <3>2, <3>3, <3>4
  <2>2. src' = src /\ mode' \in {"start", "done"}
    BY <2>1 DEF MakeToken
  <2>3. \A n \in DOMAIN tokens' : (\E m \in DOMAIN tokens : tokens'[n] = tokens[m])
                                  \/ tokens'[n].t = t
    BY <1>0, <2>1, OneMore
  <2> QED BY <1>0, <2>1, <2>2, <2>3, ValueStands DEF ReadSoFar, HasValue
<1>4. CASE EndInt
  <2>1. PICK val : /\ MakeToken("INT", val, start, end)
                   /\ LET v == ValueOf(SubSeq(src, start + 1, end)) IN InRange(v) => val = v
    BY <1>4, LiteralValue
  <2>2. src' = src /\ mode' \in {"start", "done"}
    BY <2>1 DEF MakeToken
  <2>3. \A n \in DOMAIN tokens' :
          \/ \E m \in DOMAIN tokens : tokens'[n] = tokens[m]
          \/ tokens'[n].val = val /\ tokens'[n].from = start /\ tokens'[n].to = end
    BY <1>0, <2>1, OneMore
  <2>4. \A n \in DOMAIN tokens' :
          (\E m \in DOMAIN tokens : tokens'[n] = tokens[m]) \/ HasValue(tokens'[n])
    BY <2>1, <2>3 DEF HasValue, TextOf
  <2> QED BY <1>0, <2>2, <2>4, ValueStands DEF ReadSoFar
<1>5. CASE \E text \in Texts, d \in BOOLEAN : WistLex(text, d)
  <2>1. tokens' = <<>> /\ mode' = "start"
    BY <1>5 DEF WistLex
  <2> QED BY <1>0, <2>1 DEF VInv, ReadSoFar
<1>6. CASE UNCHANGED lexVars
  BY <1>0, <1>6 DEF lexVars, VInv, ReadSoFar, WordIn, DigitsIn, CharAt, Keeps, Magnitude,
                    FirstDigit, HasValue, TextOf
<1> QED BY <1>1, <1>2, <1>3, <1>4, <1>5, <1>6 DEF Next, LexNext

LEMMA InitVInv == LexInit => VInv
<1>1. LexInit => tokens = <<>> /\ mode = "idle"
  BY DEF LexInit
<1> QED BY <1>1, InitIInv DEF VInv, ReadSoFar

\* LiteralsFit holds of every source and every width of the integers (lib/lexer.c:200,
\* lib/lexer.c:208): an integer literal in range has its value, the least one included.
THEOREM LiteralsHaveTheirValue == Spec => []LiteralsFit
<1>1. VInv => LiteralsFit
  BY DEF VInv, HasValue, InRange, LiteralsFit
<1> QED BY <1>1, InitVInv, NextVInv, PTL DEF Spec
=============================================================================
