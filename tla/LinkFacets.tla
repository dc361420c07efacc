----------------------------- MODULE LinkFacets -----------------------------
(***************************************************************************)
(* extract_link_facets of src/src/lexicon/mod.rs: the links of a text and  *)
(* the bytes they span.  A text is a sequence of tokens, which are what    *)
(* the regular expression and the trimming tell apart:                     *)
(*   link         "http://" or "https://" in any case                      *)
(*   word         a letter or digit                                        *)
(*   dot          punctuation or a quote that is cut off behind a URL      *)
(*   open, close  a pair of brackets                                       *)
(*   space        a space                                                  *)
(*   wide         a character that is not ASCII                            *)
(* The regular expressions and the URL parser are external: the parser     *)
(* wants a host, a name or an address in brackets, and may take or refuse  *)
(* whatever follows a link.                                                *)
(***************************************************************************)
EXTENDS Naturals, SequencesExt

CONSTANT MaxText    \* bound on the tokens of a text

VARIABLES
  text,
  hosted,   \* the places of the links whose host the URL parser takes
  facets

linkVars == <<text, hosted, facets>>

Tokens == {"link", "word", "dot", "open", "close", "space", "wide"}

Width(token) == CASE token = "link" -> 8 [] token = "wide" -> 3 [] OTHER -> 1

Bytes(tokens) ==
  LET upTo[n \in 0..Len(tokens)] == IF n = 0 THEN 0 ELSE upTo[n - 1] + Width(tokens[n])
  IN upTo[Len(tokens)]

-----------------------------------------------------------------------------
(* The next match at or behind place i: a link at an ASCII word boundary   *)
(* and one or more printable characters.                                   *)
Printable(token) == token \notin {"space", "wide"}

Starts(i) ==
  {k \in i..(Len(text) - 1) : /\ text[k] = "link" /\ Printable(text[k + 1])
                              /\ k = 1 \/ text[k - 1] # "word"}

MatchEnd(k) == Max({j \in k..Len(text) : \A n \in k..j : Printable(text[n])})

(* is_unbalanced_closing.                                                  *)
UnbalancedClosing(url) ==
  Cardinality({i \in DOMAIN url : url[i] = "close"})
    > Cardinality({i \in DOMAIN url : url[i] = "open"})

(* A faulty variant of Trimmed: brackets are cut off, balanced or not.     *)
TrimmedAll(url) ==
  LET upTo[n \in 0..Len(url)] ==
        IF n > 0 /\ url[n] \in {"dot", "close"} THEN upTo[n - 1] ELSE n
  IN SubSeq(url, 1, upTo[Len(url)])

(* trim_trailing_url_punctuation: what is cut off while it comes last.     *)
CutOff(url, n) ==
  /\ n > 0
  /\ url[n] = "dot" \/ (url[n] = "close" /\ UnbalancedClosing(SubSeq(url, 1, n)))

Trimmed(url) ==
  LET upTo[n \in 0..Len(url)] == IF CutOff(url, n) THEN upTo[n - 1] ELSE n
  IN SubSeq(url, 1, upTo[Len(url)])

(* A URL that is a link and nothing else has no host.                      *)
HasHost(k, url) == Len(url) > 1 /\ k \in hosted

(* Facet::link and ByteSlice.                                              *)
Link(k, url) ==
  LET start == Bytes(SubSeq(text, 1, k - 1))
  IN [start |-> start, end |-> start + Bytes(url)]

(* extract_link_facets, from place i on.                                   *)
ExtractLinks ==
  LET from[i \in 1..(Len(text) + 1)] ==
        IF Starts(i) = {} THEN <<>>
        ELSE LET k   == Min(Starts(i))
                 url == Trimmed(SubSeq(text, k, MatchEnd(k)))
             IN (IF HasHost(k, url) THEN <<Link(k, url)>> ELSE <<>>) \o from[MatchEnd(k) + 1]
  IN from[1]

LinkInit == text = <<>> /\ hosted = {} /\ facets = <<>>

(* The author types on, and the facets are taken anew.                     *)
Type(token) ==
  /\ Len(text) < MaxText
  /\ text' = Append(text, token)
  /\ hosted' \in SUBSET Starts(1)'
  /\ facets' = ExtractLinks'

LinkNext == \E token \in Tokens : Type(token)

-----------------------------------------------------------------------------
(* The places of the text before which it has n bytes: none when n is      *)
(* inside a token.                                                         *)
PlaceAt(n) == {k \in 0..Len(text) : Bytes(SubSeq(text, 1, k)) = n}

FacetFits(f) ==
  \E a \in PlaceAt(f.start), b \in PlaceAt(f.end) :
    LET url == SubSeq(text, a + 1, b)
    IN /\ Len(url) > 1 /\ Head(url) = "link" /\ \A n \in DOMAIN url : Printable(url[n])
       /\ Last(url) # "dot"
       /\ Last(url) = "close" => ~UnbalancedClosing(url)
       /\ b < Len(text) =>
            \/ text[b + 1] \in {"space", "wide", "dot"}
            \/ text[b + 1] = "close" /\ UnbalancedClosing(Append(url, "close"))

(* The facets of a text are in order and apart; each begins and ends       *)
(* between two characters, begins with a link and has no space in it; none *)
(* ends in punctuation or takes the bracket that closes one around it, and *)
(* what is left out behind it is punctuation or such a bracket.            *)
LinksFit ==
  \A i \in DOMAIN facets :
    /\ i > 1 => facets[i - 1].end <= facets[i].start
    /\ FacetFits(facets[i])
=============================================================================
