------------------------------- MODULE Lexer -------------------------------
(***************************************************************************)
(* wist_lex (lib/lexer.c), one character or token at a time, with the      *)
(* symbols it interns and the locations it makes.  A source is a sequence  *)
(* of characters; position i is its element i + 1, and the one behind the  *)
(* last is the terminator of a C string (bin/wisti.c:34), which the lexer  *)
(* relies on: it skips white space and looks behind a '-' before it        *)
(* compares its position with the length.                                  *)
(***************************************************************************)
EXTENDS SrcLoc, SymIndex

CONSTANTS
  Texts,        \* the sources a client may have lexed
  IntHalf,      \* an int64_t is one of -IntHalf..IntHalf - 1
  MaxOverrun,   \* bound: how far white space may go on behind the terminator
  MaxTexts      \* bound: sources lexed in one behaviour

Letters == {"a", "b", "c", "d", "e", "f", "g", "h", "i", "j", "k", "l", "m", "n",
            "o", "p", "q", "r", "s", "t", "u", "v", "w", "x", "y", "z"}
DigitSeq == <<"0", "1", "2", "3", "4", "5", "6", "7", "8", "9">>
Digits == {DigitSeq[i] : i \in 1..10}
Spaces == {" ", "\t", "\n"}
WordChars == Letters \cup Digits \cup {"_"}
Chars == WordChars \cup Spaces \cup {"\\", "(", ")", ",", "=", "-", ">", "$"}
NUL == ""

ASSUME LexerAssumption ==
  /\ Texts \subseteq Seq(Chars)
  /\ IntHalf \in Nat \ {0}
  /\ MaxOverrun \in Nat /\ MaxTexts \in Nat

VARIABLES
  src, start, end, invalid,   \* struct wist_lexer
  mode,      \* where lex_next is: "idle", "start", "symbol", "int" or "done"
  neg, total,                 \* its locals while it reads an integer
  tokens,    \* the vector of tokens, [t, val, loc] and the span [from, to)
  diags,     \* diagnostics of the current result
  ix, syms,  \* comp->srclocs and comp->syms
  texts,     \* number of sources lexed
  skipped    \* history: positions passed over as unexpected

lexVars == <<src, start, end, invalid, mode, neg, total, tokens, diags, ix, syms,
             texts, skipped>>

CharAt(i) == IF i < Len(src) THEN src[i + 1] ELSE NUL
PeekC == CharAt(end)
AtEnd == end >= Len(src)

\* Nothing is known of the memory behind the terminator.
MaybeSpace == \/ PeekC \in Spaces
              \/ end > Len(src) /\ end < Len(src) + MaxOverrun
MaybeNoSpace == PeekC \notin Spaces

\* The value an int64_t keeps of n. (Mutant: the greatest one at most.)
WrapSaturates(n) == IF n < IntHalf THEN n ELSE IntHalf - 1
Wrap(n) == ((n + IntHalf) % (2 * IntHalf)) - IntHalf
\* A symbol goes on with c. (Mutant: it ends at a digit.)
InWordLetters(c) == c \in Letters
InWord(c) == c \in WordChars

DigitVal(c) == CHOOSE d \in 0..9 : DigitSeq[d + 1] = c

-----------------------------------------------------------------------------
\* wist_lex is called: for a declaration its text has become a segment.
WistLex(text, isDecl) ==
  /\ mode \in {"idle", "done"} /\ texts < MaxTexts
  /\ src' = text /\ start' = 0 /\ end' = 0 /\ invalid' = FALSE
  /\ mode' = "start" /\ texts' = texts + 1
  /\ ix' = IF isDecl THEN AddSegment(ix, Len(text)) ELSE ix
  /\ tokens' = <<>> /\ diags' = <<>> /\ skipped' = {}
  /\ UNCHANGED <<neg, total, syms>>

\* make_token for the characters from..to - 1, and lex_next returns.
MakeToken(t, val, from, to) ==
  LET r == Add(ix, from, to)
  IN  /\ tokens' = Append(tokens, [t |-> t, val |-> val, loc |-> r.loc,
                                   from |-> from, to |-> to])
      /\ ix' = r.ix
      /\ start' = to /\ end' = to
      /\ invalid' = FALSE
      /\ mode' = IF t = "EOI" THEN "done" ELSE "start"
      /\ UNCHANGED <<src, neg, total, diags, texts, skipped>>

SkipWhitespace ==
  /\ mode = "start" /\ MaybeSpace
  /\ end' = end + 1
  /\ UNCHANGED <<src, start, invalid, mode, neg, total, tokens, diags, ix, syms,
                 texts, skipped>>

\* skip_whitespace is over: start is reset to end.
Looking == mode = "start" /\ MaybeNoSpace

EndOfInput == Looking /\ AtEnd /\ MakeToken("EOI", 0, end, end + 1) /\ UNCHANGED syms

-----------------------------------------------------------------------------
Begin(m) ==
  /\ Looking /\ ~AtEnd
  /\ start' = end /\ mode' = m
  /\ UNCHANGED <<src, invalid, tokens, diags, ix, syms, texts, skipped>>

BeginSymbol == /\ PeekC \in Letters /\ Begin("symbol")
               /\ UNCHANGED <<end, neg, total>>

SymbolChar ==
  /\ mode = "symbol" /\ ~AtEnd /\ InWord(PeekC)
  /\ end' = end + 1
  /\ UNCHANGED <<src, start, invalid, mode, neg, total, tokens, diags, ix, syms,
                 texts, skipped>>

SymbolKind(sym) == CASE sym = LetSym -> "LET" [] sym = InSym -> "IN"
                     [] sym = EndSym -> "END" [] OTHER -> "SYM"

EndSymbol ==
  /\ mode = "symbol" /\ (AtEnd \/ ~InWord(PeekC))
  /\ LET r == Search(syms, SubSeq(src, start + 1, end))
     IN  syms' = r.syms /\ MakeToken(SymbolKind(r.sym), r.sym, start, end)

BeginInt ==
  /\ Begin("int") /\ total' = 0
  /\ \/ PeekC \in Digits /\ neg' = FALSE /\ UNCHANGED end
     \/ PeekC = "-" /\ CharAt(end + 1) \in Digits /\ neg' = TRUE /\ end' = end + 1

IntDigit ==
  /\ mode = "int" /\ ~AtEnd /\ PeekC \in Digits
  /\ total' = Wrap(total * 10 + DigitVal(PeekC))
  /\ end' = end + 1
  /\ UNCHANGED <<src, start, invalid, mode, neg, tokens, diags, ix, syms, texts,
                 skipped>>

\* Mutant: the sign of the literal before is kept.
EndIntUnsigned ==
  /\ mode = "int" /\ (AtEnd \/ PeekC \notin Digits)
  /\ MakeToken("INT", total, start, end)
  /\ UNCHANGED syms

EndInt ==
  /\ mode = "int" /\ (AtEnd \/ PeekC \notin Digits)
  /\ MakeToken("INT", IF neg THEN Wrap(-total) ELSE total, start, end)
  /\ UNCHANGED syms

-----------------------------------------------------------------------------
Punctuation(c) ==
  CASE c = "\\" -> "BACKSLASH" [] c = "(" -> "LPAREN" [] c = ")" -> "RPAREN"
    [] c = "," -> "COMMA" [] c = "=" -> "EQ" [] OTHER -> ""

Punct ==
  /\ Looking /\ ~AtEnd /\ Punctuation(PeekC) # ""
  /\ MakeToken(Punctuation(PeekC), 0, end, end + 1)
  /\ UNCHANGED syms

Arrow ==
  /\ Looking /\ ~AtEnd /\ PeekC = "-" /\ CharAt(end + 1) = ">"
  /\ MakeToken("THIN_ARROW", 0, end, end + 2)
  /\ UNCHANGED syms

\* A '-' that begins neither an integer nor an arrow.
LoneDash == PeekC = "-" /\ CharAt(end + 1) \notin Digits \cup {">"}
Expected == PeekC \in Letters \cup Digits \/ Punctuation(PeekC) # ""
            \/ (PeekC = "-" /\ ~LoneDash)

\* Where the lexer is when it has found a character unexpected: behind a lone dash.
\* (Mutants: behind every one; and, the character never skipped.)
HereBehind == end + 1
HereBefore == end - 1
Here == IF LoneDash THEN end + 1 ELSE end

\* The first of several unexpected characters is reported. (Mutant: every one.)
ReportsEach == TRUE
Reports == ~invalid

UnexpectedChar ==
  LET r == Add(ix, end, Here)
  IN  /\ Looking /\ ~AtEnd /\ ~Expected
      /\ IF ~Reports THEN UNCHANGED <<diags, ix>>
         ELSE /\ diags' = Append(diags, [kind |-> "UNEXPECTED_CHAR", loc |-> r.loc,
                                         at |-> end])
              /\ ix' = r.ix
      /\ invalid' = TRUE
      /\ start' = end /\ end' = Here + 1
      /\ skipped' = skipped \cup end..Here
      /\ UNCHANGED <<src, mode, neg, total, tokens, syms, texts>>

-----------------------------------------------------------------------------
LexInit ==
  /\ src = <<>> /\ start = 0 /\ end = 0 /\ invalid = FALSE /\ mode = "idle"
  /\ neg = FALSE /\ total = 0 /\ tokens = <<>> /\ diags = <<>>
  /\ ix = EmptyIndex /\ syms = KeywordSyms /\ texts = 0 /\ skipped = {}

LexNext ==
  \/ SkipWhitespace \/ EndOfInput
  \/ BeginSymbol \/ SymbolChar \/ EndSymbol
  \/ BeginInt \/ IntDigit \/ EndInt
  \/ Punct \/ Arrow \/ UnexpectedChar

Next == LexNext \/ \E text \in Texts, isDecl \in BOOLEAN : WistLex(text, isDecl)

\* wist_lex calls lex_next until it returns the end of the input.
Spec == LexInit /\ [][Next]_lexVars /\ WF_lexVars(LexNext)

-----------------------------------------------------------------------------
(* What the tokens of a source must be, stated of the source and not of    *)
(* the way the lexer takes through it.                                     *)

\* The positions the lexer is done with.
Scanned == IF mode \in {"symbol", "int"} THEN start ELSE end

Covers(tok, i) == tok.from <= i /\ i < tok.to
InToken(i) == \E n \in DOMAIN tokens : Covers(tokens[n], i)

DashAt(i) == CharAt(i) = "-" /\ CharAt(i + 1) \notin Digits \cup {">"}
\* A token can begin at i.
Begins(i) == /\ CharAt(i) \in Letters \cup Digits \cup {"\\", "(", ")", ",", "=", "-"}
             /\ ~DashAt(i)

\* Tokens are disjoint and in the order of the text, and cover all of it but white
\* space and the characters passed over: these begin no token, or stand right
\* behind a dash that begins none.
TokensTile ==
  /\ \A n \in DOMAIN tokens : tokens[n].from < tokens[n].to /\ tokens[n].to <= Scanned
  /\ \A n \in 1..Len(tokens) - 1 : tokens[n].to <= tokens[n + 1].from
  /\ \A i \in 0..Len(src) - 1 : i < Scanned => InToken(i) \/ CharAt(i) \in Spaces \/ i \in skipped
  /\ \A i \in skipped : /\ ~InToken(i)
                        /\ Begins(i) => i - 1 \in skipped /\ DashAt(i - 1)

TextOf(tok) == SubSeq(src, tok.from + 1, tok.to)
AllIn(s, set) == \A i \in DOMAIN s : s[i] \in set
Number(s) ==
  LET value[n \in 0..Len(s)] == IF n = 0 THEN 0 ELSE 10 * value[n - 1] + DigitVal(s[n])
  IN  value[Len(s)]
ValueOf(s) == IF Head(s) = "-" THEN -Number(Tail(s)) ELSE Number(s)

Fixed == [BACKSLASH |-> <<"\\">>, LPAREN |-> <<"(">>, RPAREN |-> <<")">>,
          COMMA |-> <<",">>, EQ |-> <<"=">>, THIN_ARROW |-> <<"-", ">">>]
Words == {"SYM", "LET", "IN", "END"}

\* A token of kind k may have the text s (inc/wist/lexer.h:14).
InClass(k, s) ==
  \/ k \in DOMAIN Fixed /\ s = Fixed[k]
  \/ k = "INT" /\ s # <<>> /\ AllIn(s, Digits)
  \/ k = "INT" /\ Len(s) > 1 /\ Head(s) = "-" /\ AllIn(Tail(s), Digits)
  \/ k \in Words /\ s # <<>> /\ Head(s) \in Letters /\ AllIn(s, WordChars)

\* Every token has a text of its kind, and the longest one there is at its place.
LongestMatch ==
  mode = "done" => \A n \in DOMAIN tokens :
    LET tok == tokens[n]
    IN  tok.t # "EOI" =>
          /\ InClass(tok.t, TextOf(tok))
          /\ \A k \in DOMAIN Fixed \cup {"INT", "SYM"}, to \in tok.to + 1..Len(src) :
               ~InClass(k, SubSeq(src, tok.from + 1, to))

\* A symbol stands for its text and for no other, from one source to the next, and
\* the keywords are what they are: interned once, never twice.
SymbolsAreTheirText ==
  /\ \A i, j \in DOMAIN syms : syms[i] = syms[j] => i = j
  /\ \A n \in DOMAIN tokens :
       tokens[n].t \in Words =>
         LET s == TextOf(tokens[n])
         IN  /\ StrOf(syms, tokens[n].val) = s
             /\ tokens[n].t = CASE s = StrLet -> "LET" [] s = StrIn -> "IN"
                                [] s = StrEnd -> "END" [] OTHER -> "SYM"

\* A literal that an int64_t can hold has its value, the least one included.
LiteralsFit ==
  \A n \in DOMAIN tokens :
    tokens[n].t = "INT" =>
      LET v == ValueOf(TextOf(tokens[n]))
      IN  -IntHalf <= v /\ v < IntHalf => tokens[n].val = v

\* lib/lexer.c:29, of several unexpected characters with no token between them
\* one is reported, and it is the first.
OneReport ==
  \A i \in skipped :
    (\E n \in DOMAIN diags : diags[n].kind = "UNEXPECTED_CHAR" /\ diags[n].at = i)
      <=> ~\E j \in skipped : j < i /\ ~\E m \in j..i : InToken(m)

\* Every call of wist_lex returns.
LexingEnds == mode # "idle" ~> mode = "done"
=============================================================================
