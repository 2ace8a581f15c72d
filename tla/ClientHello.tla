---------------------------- MODULE ClientHello ----------------------------
(* The TLS collector: the ClientHello parser, JA3, JA4 and the signals. A  *)
(* message is a sequence of bytes and offsets count the bytes before them. *)
(* A parser returns the set of its results: none after an error, else one. *)
(* Random, session id and compression methods are skipped: nothing reads   *)
(* them. A hash is what it was computed from.                              *)
EXTENDS Integers, Sequences, SequencesExt

CONSTANTS RandomLength,  \* 32 in TLS
          JA3Families,   \* known JA3 hashes: to [family, deny]
          KnownJA4       \* JA4 of real browsers

\* byteReader. A read past the end gives 0, and the offset after it is then
\* past the end too, which is where the parser notices.
U8(d, o) == IF o + 1 <= Len(d) THEN d[o + 1] ELSE 0
U16(d, o) == IF o + 2 <= Len(d) THEN 256 * d[o + 1] + d[o + 2] ELSE 0
U24(d, o) == 65536 * U8(d, o) + U16(d, o + 1)
Bytes(d, o, n) == SubSeq(d, o + 1, o + n)
U16s(d) == [i \in 1..(Len(d) \div 2) |-> U16(d, 2 * i - 2)]

\* A TLS record or a bare handshake message; what follows it is ignored. The
\* mutant reads the handshake's bytes without asking whether they are all there.
HandshakeBodyShort(h) ==
  IF Len(h) < 4 \/ h[1] # 1 THEN {} ELSE {SubSeq(h, 5, Len(h))}
HandshakeBody(h) ==
  IF Len(h) < 4 \/ h[1] # 1 \/ Len(h) < 4 + U24(h, 1) THEN {} ELSE {Bytes(h, 4, U24(h, 1))}
ClientHelloBody(raw) ==
  IF Len(raw) >= 5 /\ raw[1] = 22
  THEN IF Len(raw) < 5 + U16(raw, 3) THEN {} ELSE HandshakeBody(Bytes(raw, 5, U16(raw, 3)))
  ELSE HandshakeBody(raw)

ParseExtensions(d) ==
  LET from[o \in 0..Len(d)] ==
        IF o = Len(d) THEN {<<>>}
        ELSE IF o + 4 > Len(d) \/ o + 4 + U16(d, o + 2) > Len(d) THEN {}
        ELSE {<<[type |-> U16(d, o), data |-> Bytes(d, o + 4, U16(d, o + 2))]>> \o rest :
                rest \in from[o + 4 + U16(d, o + 2)]}
  IN  from[0]

\* Vectors with a length of one or two bytes; one that does not fit is empty.
ParseUint16Vector16(d) ==
  IF Len(d) < 2 \/ U16(d, 0) > Len(d) - 2 \/ U16(d, 0) % 2 # 0 THEN <<>>
  ELSE U16s(Bytes(d, 2, U16(d, 0)))
ParseUint8Vector8(d) ==
  IF Len(d) < 1 \/ U8(d, 0) > Len(d) - 1 THEN <<>> ELSE Bytes(d, 1, U8(d, 0))
ParseSupportedVersions(d) ==
  IF Len(d) < 1 \/ U8(d, 0) > Len(d) - 1 \/ U8(d, 0) % 2 # 0 THEN <<>>
  ELSE U16s(Bytes(d, 1, U8(d, 0)))

\* The first name of type 0 in the list.
FirstName(d, end) ==
  LET from[o \in 2..end] ==
        IF o + 3 > end \/ o + 3 + U16(d, o + 1) > end THEN <<>>
        ELSE IF U8(d, o) = 0 THEN Bytes(d, o + 3, U16(d, o + 1))
        ELSE from[o + 3 + U16(d, o + 1)]
  IN  from[2]
ParseServerName(d) ==
  IF Len(d) < 2 \/ U16(d, 0) > Len(d) - 2 THEN <<>> ELSE FirstName(d, 2 + U16(d, 0))

\* Protocol names with lengths of w bytes, up to the very end of the list.
Num(d, o, w) == IF w = 1 THEN U8(d, o) ELSE U16(d, o)
Protocols(d, w) ==
  LET from[o \in 2..Len(d)] ==
        IF o = Len(d) THEN {<<>>}
        ELSE IF o + w > Len(d) \/ Num(d, o, w) = 0 \/ o + w + Num(d, o, w) > Len(d) THEN {}
        ELSE {<<Bytes(d, o + w, Num(d, o, w))>> \o rest : rest \in from[o + w + Num(d, o, w)]}
  IN  from[2]
ParseALPN(d) ==
  IF Len(d) < 3 \/ U16(d, 0) # Len(d) - 2 THEN <<>>
  ELSE LET standard == Protocols(d, 1)
           wide == Protocols(d, 2)
       IN  IF standard # {} THEN CHOOSE p \in standard : TRUE
           ELSE IF wide # {} THEN CHOOSE p \in wide : TRUE ELSE <<>>

\* parseKnownExtension: of several extensions of a type the last one counts.
DataOf(exts, t) == LET at == {i \in DOMAIN exts : exts[i].type = t}
                   IN  IF at = {} THEN <<>> ELSE exts[Max(at)].data
Hello(version, ciphers, exts) ==
  [version |-> version, ciphers |-> ciphers,
   types |-> [i \in DOMAIN exts |-> exts[i].type],
   name |-> ParseServerName(DataOf(exts, 0)),
   curves |-> ParseUint16Vector16(DataOf(exts, 10)),
   points |-> ParseUint8Vector8(DataOf(exts, 11)),
   sigalgs |-> ParseUint16Vector16(DataOf(exts, 13)),
   protos |-> ParseALPN(DataOf(exts, 16)),
   versions |-> ParseSupportedVersions(DataOf(exts, 43))]

\* The body's fields one after the other; the extensions may be absent, and if
\* they are there they end the message.
ParseBody(d) ==
  LET ciphers == 2 + RandomLength + 1 + U8(d, 2 + RandomLength)
      methods == ciphers + 2 + U16(d, ciphers)
      exts    == methods + 1 + U8(d, methods)
      suites  == U16s(Bytes(d, ciphers + 2, U16(d, ciphers)))
  IN  IF exts > Len(d) \/ U16(d, ciphers) % 2 # 0 THEN {}
      ELSE IF exts = Len(d) THEN {Hello(U16(d, 0), suites, <<>>)}
      ELSE IF exts + 2 + U16(d, exts) # Len(d) THEN {}
      ELSE {Hello(U16(d, 0), suites, e) :
              e \in ParseExtensions(Bytes(d, exts + 2, U16(d, exts)))}
ParseClientHello(raw) == UNION {ParseBody(body) : body \in ClientHelloBody(raw)}
-----------------------------------------------------------------------------
GreaseValues == {2570 + 4112 * k : k \in 0..15}    \* 0x0a0a, 0x1a1a, ... 0xfafa
FilterGREASE(s) == SelectSeq(s, LAMBDA v : v \notin GreaseValues)

JA3String(h) == <<h.version, FilterGREASE(h.ciphers), FilterGREASE(h.types),
                  FilterGREASE(h.curves), h.points>>

\* JA4: the mutant takes the highest version as it stands.
MaxTLSVersionAny(h) == Max({h.version} \cup ToSet(h.versions))
MaxTLSVersion(h) == Max({h.version} \cup (ToSet(h.versions) \ GreaseValues))
TLSVersionCode(v) == IF v \in 769..772 THEN v - 769 + 10 ELSE 0
SortedUint16s(s) == SortSeq(s, LAMBDA a, b : a < b)
EmptyRenegotiationInfoSCSV == 255
JA4String(h) ==
  LET ciphers == SelectSeq(FilterGREASE(h.ciphers), LAMBDA v : v # EmptyRenegotiationInfoSCSV)
      exts == FilterGREASE(h.types)
      hashed == SelectSeq(exts, LAMBDA t : t \notin {0, 16})
      alpn == IF h.protos = <<>> THEN <<>> ELSE <<Head(Head(h.protos)), Last(Head(h.protos))>>
  IN  <<TLSVersionCode(MaxTLSVersion(h)), h.name # <<>>, Len(ciphers), Len(exts), alpn,
        SortedUint16s(ciphers), SortedUint16s(hashed) \o h.sigalgs>>
-----------------------------------------------------------------------------
BrowserFamilies == {"chrome", "firefox", "safari"}
\* userAgentFamily, from the words the User-Agent contains, in the code's order.
UserAgentFamily(words) ==
  IF words \cap {"python-requests", "urllib3"} # {} THEN "python-requests"
  ELSE IF "curl" \in words THEN "curl"
  ELSE IF "firefox" \in words THEN "firefox"
  ELSE IF words \cap {"edg", "opr", "chrome", "chromium", "crios"} # {} THEN "chrome"
  ELSE IF "safari" \in words THEN "safari" ELSE ""

MismatchByUserAgent(hash, words) ==
  /\ hash \in DOMAIN JA3Families /\ JA3Families[hash].family \in BrowserFamilies
  /\ UserAgentFamily(words) \in BrowserFamilies \ {JA3Families[hash].family}

\* Collect, as the set of signals. The gateway gives the raw message; an SDK may
\* give a JA3, as <<"text", v>> or <<"hash", v>>, and a JA4, as <<v>>. A message
\* that does not parse makes the collector fail, and raises nothing.
Collect(raw, ja3, ja4, words) ==
  LET parsed == ParseClientHello(raw)
      hash == {JA3String(h) : h \in parsed} \cup
              (IF raw = <<>> /\ ja3 # <<>> THEN {ja3[2]} ELSE {})
      seen == {JA4String(h) : h \in parsed} \cup (IF raw = <<>> THEN ToSet(ja4) ELSE {})
      conflict == parsed # {} /\ ja3 # <<>> /\ ja3[1] = "text" /\ ja3[2] \notin hash
  IN  (IF conflict \/ \E j \in hash : MismatchByUserAgent(j, words)
       THEN {"ja3_mismatch"} ELSE {})
      \cup (IF \E j \in hash \cap DOMAIN JA3Families : JA3Families[j].deny
            THEN {"ja3_known_scraper"} ELSE {})
      \cup (IF seen \ KnownJA4 # {} THEN {"ja4_unknown"} ELSE {})
=============================================================================
