-------------------------------- MODULE Ja4h --------------------------------
(* The JA4H fingerprint of a request. A header name is the place of its    *)
(* text among all texts in byte order ("text") and what the code tells     *)
(* about it ("kind": plain, pseudo, cookie, referer or blank). Cookie      *)
(* names and pairs are places in byte order as well; a hash is what it was *)
(* computed from.                                                          *)
EXTENDS Integers, Sequences, SequencesExt

CONSTANTS HostName,    \* the name "Host"
          KnownJA4H    \* fingerprints of browsers

ByText(a, b) == a.text < b.text

\* normalizeHeaderOrder: the order the caller gives, or the header map's names,
\* in whatever order the map yields them, and Host, sorted.
NormalizeHeaderOrder(shape) ==
  IF shape.order # <<>> THEN SelectSeq(shape.order, LAMBDA n : n.kind # "blank")
  ELSE SortSeq((IF shape.host THEN <<HostName>> ELSE <<>>) \o shape.header, ByText)

IgnoredHeader(n) == n.kind \in {"blank", "pseudo", "cookie", "referer"}

\* sortedCookies: parts without a name are dropped.
SortedCookies(cookies) ==
  SortSeq(SelectSeq(cookies, LAMBDA c : c.name # 0),
          LAMBDA a, b : a.name < b.name \/ (a.name = b.name /\ a.pair < b.pair))

\* methodCode and languageCode: two and four characters, padded.
MethodCode(m) == SubSeq(m \o <<"x", "x">>, 1, 2)
VersionCode(major, minor) ==
  CASE major = 1 -> IF minor = 0 THEN "10" ELSE "11"
    [] major = 2 -> "20"
    [] major = 3 -> "30"
    [] OTHER -> "00"
LanguageCode(l) ==
  LET joined == SelectSeq(l, LAMBDA ch : ch # "-")
      ends == {i \in DOMAIN joined : joined[i] \in {",", ";"}} \cup {Len(joined) + 1}
  IN  SubSeq(SubSeq(joined, 1, Min(ends) - 1) \o <<"0", "0", "0", "0">>, 1, 4)

ComputeJA4H(shape) ==
  LET order == NormalizeHeaderOrder(shape)
      filtered == SelectSeq(order, LAMBDA n : ~IgnoredHeader(n))
      cookies == SortedCookies(shape.cookies)
  IN  <<MethodCode(shape.method), VersionCode(shape.major, shape.minor), cookies # <<>>,
        shape.referer \/ \E i \in DOMAIN order : order[i].kind = "referer",
        IF Len(filtered) > 99 THEN 99 ELSE Len(filtered), LanguageCode(shape.language),
        [i \in DOMAIN filtered |-> filtered[i].text], [i \in DOMAIN cookies |-> cookies[i].name]>>

\* Collect, without captured frames.
CollectShape(shape) ==
  IF ComputeJA4H(shape) \notin KnownJA4H THEN {"ja4h_unknown"} ELSE {}
=============================================================================
