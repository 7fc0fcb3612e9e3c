--------------------------- MODULE LicenseHeaders ---------------------------
(***************************************************************************)
(* How tasks/license.py decides whether a source file carries the Apache   *)
(* header: it strips comment markers line by line, drops the lines that    *)
(* are empty then, and looks for the header's lines in what is left.       *)
(*                                                                         *)
(* A line is a sequence of tokens: the markers of its language, a line of  *)
(* the header that it quotes, "text" for anything else.  A file is         *)
(* [style, lines]; lines beyond the number of bytes read are not part of   *)
(* it.                                                                     *)
(***************************************************************************)
EXTENDS Joining, SequencesExt, FiniteSets

CONSTANT Header  \* _APACHE_LICENSE_HEADER: the sequence of its lines
ASSUME HeaderIsLong == Header \in Seq(Range(Header)) /\ Len(Header) >= 2 /\ IsInjective(Header)

Single == "single"  \* // # -- ; % '
Star == "star"      \* the asterisk that C-style block comments put before a line

\* _COMMENT_STYLES, by what the stripper does: C-like languages; Python, whose
\* block comments end with the marker they start with; other languages with
\* block comments; those with line comments only; and an extension that the
\* table does not have, which includes some of _INCLUDED_PATTERNS (c++, php3).
Styles == {"c", "python", "block", "line", "unknown"}
Opening(style) == CASE style = "python" -> "quotes" [] style \in {"c", "block"} -> "open" [] OTHER -> "none"
Closing(style) == CASE style = "python" -> "quotes" [] style \in {"c", "block"} -> "close" [] OTHER -> "none"

\* No line of the header has any of the markers.
ASSUME HeaderHasNoMarkers ==
  Range(Header) \cap ({Single, Star} \cup {Opening(s) : s \in Styles} \cup {Closing(s) : s \in Styles}) = {}

\* What a file that is looked at consists of: its language, and lines of tokens.
IsSource(file) ==
  /\ file.style \in Styles
  /\ file.lines \in Seq(Range(file.lines))
  /\ \A line \in Range(file.lines) : line \in Seq(Range(line))

\* bytes.find of a marker that is in the line.
Find(line, marker) == SelectInSeq(line, LAMBDA token : token = marker)
After(line, marker) == SubSeq(line, Find(line, marker) + 1, Len(line))
Before(line, marker) == SubSeq(line, 1, Find(line, marker) - 1)
StartsWith(line, marker) == line # <<>> /\ Head(line) = marker

\* Mutant of StripLine: the end of a block comment does not reset in_multiline.
StripLineStaysIn(style, multi, line) ==
  CASE ~multi /\ Contains(line, Opening(style)) -> [multi |-> TRUE, line |-> After(line, Opening(style))]
    [] multi /\ Contains(line, Closing(style)) -> [multi |-> TRUE, line |-> Before(line, Closing(style))]
    [] ~multi /\ StartsWith(line, Single) -> [multi |-> FALSE, line |-> Tail(line)]
    [] multi /\ style = "c" /\ StartsWith(line, Star) -> [multi |-> TRUE, line |-> Tail(line)]
    [] OTHER -> [multi |-> multi, line |-> line]

\* One round of _headers_strip_comments' loop; CASE takes the branches of the
\* if-elif chain, whose conditions exclude each other here.
StripLine(style, multi, line) ==
  CASE ~multi /\ Contains(line, Opening(style)) -> [multi |-> TRUE, line |-> After(line, Opening(style))]
    [] multi /\ Contains(line, Closing(style)) -> [multi |-> FALSE, line |-> Before(line, Closing(style))]
    [] ~multi /\ ~Contains(line, Opening(style)) /\ StartsWith(line, Single) -> [multi |-> FALSE, line |-> Tail(line)]
    [] multi /\ ~Contains(line, Closing(style)) /\ style = "c" /\ StartsWith(line, Star) -> [multi |-> TRUE, line |-> Tail(line)]
    [] OTHER -> [multi |-> multi, line |-> line]

StripComments(file) ==
  LET lines == file.lines
      inside[i \in 0..Len(lines)] == i > 0 /\ StripLine(file.style, inside[i - 1], lines[i]).multi
      Stripped(i) == StripLine(file.style, inside[i - 1], lines[i]).line
  IN  Joined(LAMBDA i : IF Stripped(i) = <<>> THEN <<>> ELSE <<Stripped(i)>>, Len(lines))

\* "expected_header not in cleaned_header": a substring of the joined lines, so
\* there may be more before its first line and after its last one.
Validates(file) ==
  LET cleaned == StripComments(file)
      n == Len(Header)
  IN  \E i \in 0..Len(cleaned) - n :
        /\ Last(cleaned[i + 1]) = Header[1]
        /\ \A h \in 2..n - 1 : cleaned[i + h] = <<Header[h]>>
        /\ Head(cleaned[i + n]) = Header[n]

\* _headers_file_should_check
ShouldCheck(file) == file.style # "unknown"

-----------------------------------------------------------------------------
(* What a reader of a file would say *)

\* The header's lines stand in the file, one below the other.
CarriesHeader(file) ==
  \E at \in [DOMAIN Header -> DOMAIN file.lines] :
    \A h \in DOMAIN Header :
      /\ Contains(file.lines[at[h]], Header[h])
      /\ h > 1 => at[h - 1] < at[h]

\* The usual ways to write the header in a language.
Commented(decoration) == [h \in DOMAIN Header |-> Append(decoration, Header[h])]
Block(style, decoration) == <<<<Opening(style)>>>> \o Commented(decoration) \o <<<<Closing(style)>>>>
UsualHeaders(style) ==
  {Commented(<<Single>>)}
  \cup (IF Opening(style) = "none" THEN {} ELSE {Block(style, <<>>)})
  \cup (IF style = "c" THEN {Block(style, <<Star>>)} ELSE {})

\* The file has the header, written in a usual way, below lines that Allowed accepts.
HeadedBelow(file, Allowed(_)) ==
  \E i \in 0..Len(file.lines), header \in UsualHeaders(file.style) :
    /\ IsPrefix(header, SubSeq(file.lines, i + 1, Len(file.lines)))
    /\ Allowed(SubSeq(file.lines, 1, i))

\* Block comments open and close, in turn and never on one line.
CommentsClose(style, lines) ==
  LET opens(n) == Cardinality({i \in 1..n : Contains(lines[i], Opening(style))})
      closes(n) == Cardinality({i \in 1..n : Contains(lines[i], Closing(style))})
  IN  IF style = "python" THEN opens(Len(lines)) % 2 = 0
      ELSE /\ \A i \in DOMAIN lines : ~Contains(lines[i], Opening(style)) \/ ~Contains(lines[i], Closing(style))
           /\ \A n \in DOMAIN lines : opens(n) - closes(n) \in {0, 1}
           /\ opens(Len(lines)) = closes(Len(lines))
=============================================================================
